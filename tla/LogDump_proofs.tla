-------------------------- MODULE LogDump_proofs ---------------------------
(***************************************************************************)
(* Proofs about LogDump, for every number and size of the buffers and of   *)
(* the sectors, and every length of the queue: the assertion of            *)
(* log_dump_output_handler never fails and no buffer grows beyond its      *)
(* sector, whatever the callers of the flush do to each other; and when    *)
(* they are never in it at once, no number is on the flash twice, however  *)
(* often power or a crash cut the log short; and when besides the writer   *)
(* never catches up with them, what a crash leaves has the last piece, and *)
(* the flash and then the buffers hold the log in its order.               *)
(***************************************************************************)
EXTENDS LogDump, SequenceTheorems, WellFoundedInduction, TLAPS

IsSeq(d) == \E S : d \in Seq(S)
IsBuffer(b) ==
    \E S : b \in [state : {"FREE", "WRITTING", "WRITTEN"}, data : Seq(S)]
Lengths(b) ==
    /\ Len(b.data) <= SECTOR
    /\ b.state = "WRITTING" => Len(b.data) \in 1 .. (SECTOR - 1)
    /\ b.state = "WRITTEN" => Len(b.data) = SECTOR

(* The inductive invariant: the buffers are typed, and OnlyWriterFills.    *)
IInv ==
    /\ w \in Buffers /\ f \in Buffers /\ logged \in Nat
    /\ DOMAIN buf = Buffers /\ buf = [i \in Buffers |-> buf[i]]
    /\ \A i \in Buffers : IsBuffer(buf[i]) /\ Lengths(buf[i])
    /\ OnlyWriterFills

LEMMA InvImplies == IInv => BuffersOK /\ OnlyWriterFills
BY DEF IInv, BuffersOK, IsBuffer, Lengths

-----------------------------------------------------------------------------
(***************************************************************************)
(* Buffers                                                                 *)
(***************************************************************************)

(* The ring has a next buffer, another one.                                *)
LEMMA NextInRing ==
    ASSUME NEW i \in Buffers PROVE NextBuf(i) \in Buffers /\ NextBuf(i) # i
BY SizesAssumption, SMT DEF NextBuf, Buffers

LEMMA FreeIsBuffer == IsBuffer(Free) /\ Lengths(Free) /\ Free.state = "FREE"
<1>1. <<>> \in Seq({}) /\ Len(<<>>) = 0
    BY EmptySeq
<1>2. Free \in [state : {"FREE", "WRITTING", "WRITTEN"}, data : Seq({})]
    BY <1>1 DEF Free
<1> QED BY <1>1, <1>2, SizesAssumption DEF IsBuffer, Lengths, Free

(* Pieces behind a text make it longer by their number.                    *)
LEMMA WithPieces ==
    ASSUME NEW d, IsSeq(d), NEW from, NEW n \in Nat
    PROVE  /\ IsSeq(d \o Pieces(from, n)) /\ Len(d) \in Nat
           /\ Len(d \o Pieces(from, n)) = Len(d) + n
<1>1. PICK S : d \in Seq(S)
    BY DEF IsSeq
<1> DEFINE T == S \cup {Log(from + i) : i \in 1..n}
           p == Pieces(from, n)
<1>2. p \in Seq(T) /\ Len(p) = n
    <2>1. \A i \in 1..n : Log(from + i) \in T
        OBVIOUS
    <2>2. p = [i \in 1..n |-> Log(from + i)]
        BY DEF Pieces
    <2> HIDE DEF T
    <2> QED BY <2>1, <2>2
<1>3. d \in Seq(T) /\ Len(d) \in Nat
    <2>1. Len(d) \in Nat /\ d \in [1 .. Len(d) -> S]
        BY <1>1, LenProperties
    <2>2. d \in [1 .. Len(d) -> T]
        BY <2>1
    <2> QED BY <2>1, <2>2, SeqDef
<1> HIDE DEF T, p
<1>4. d \o p \in Seq(T) /\ Len(d \o p) = Len(d) + Len(p)
    BY <1>2, <1>3, ConcatProperties
<1> QED BY <1>2, <1>3, <1>4 DEF IsSeq, p

(* What log_dump_output_handler appends to: a header at least, and room    *)
(* for a piece.                                                            *)
LEMMA StartedHasRoom ==
    ASSUME IInv
    PROVE  IsSeq(Started(w)) /\ Len(Started(w)) \in 1 .. (SECTOR - 1)
<1>1. CASE buf[w].state = "WRITTING"
    BY <1>1 DEF IInv, IsBuffer, Lengths, IsSeq, Started
<1>2. CASE buf[w].state # "WRITTING"
    <2>1. <<Hdr(cur)>> \in Seq({Hdr(cur)}) /\ Len(<<Hdr(cur)>>) = 1
        OBVIOUS
    <2>2. 1 \in 1 .. (SECTOR - 1)
        BY SizesAssumption
    <2>3. Started(w) = <<Hdr(cur)>>
        BY <1>2 DEF Started
    <2> QED BY <2>1, <2>2, <2>3 DEF IsSeq
<1> QED BY <1>1, <1>2

LEMMA FillingIsBuffer ==
    ASSUME NEW d, IsSeq(d), Len(d) \in 1 .. (SECTOR - 1)
    PROVE  IsBuffer(Filling(d)) /\ Lengths(Filling(d))
BY SizesAssumption DEF IsSeq, IsBuffer, Lengths, Filling

LEMMA FullIsBuffer ==
    ASSUME NEW d, IsSeq(d), Len(d) = SECTOR
    PROVE  IsBuffer(Full(d)) /\ Lengths(Full(d)) /\ Full(d).state = "WRITTEN"
BY SizesAssumption DEF IsSeq, IsBuffer, Lengths, Full

-----------------------------------------------------------------------------
(***************************************************************************)
(* The steps                                                               *)
(***************************************************************************)

LEMMA InitInv == Init => IInv
<1> SUFFICES ASSUME Init PROVE IInv
    OBVIOUS
<1>1. 0 \in Buffers
    BY SizesAssumption DEF Buffers
<1>2. \A i \in Buffers : buf[i] = Free
    BY DEF Init
<1> QED BY <1>1, <1>2, FreeIsBuffer DEF Init, IInv, OnlyWriterFills

LEMMA RestartInv == IInv /\ Restart => IInv'
<1> SUFFICES ASSUME IInv, Restart PROVE IInv'
    OBVIOUS
<1>1. 0 \in Buffers
    BY SizesAssumption DEF Buffers
<1>2. buf' = [i \in Buffers |-> Free] /\ w' = 0 /\ f' = 0 /\ logged' = logged
    BY DEF Restart
<1>3. \A i \in Buffers : buf'[i] = Free
    BY <1>2
<1>4. DOMAIN buf' = Buffers /\ buf' = [i \in Buffers |-> buf'[i]]
    BY <1>2
<1>5. \A i \in Buffers : IsBuffer(buf'[i]) /\ Lengths(buf'[i])
                         /\ buf'[i].state = "FREE"
    BY <1>3, FreeIsBuffer
<1> QED BY <1>1, <1>2, <1>4, <1>5 DEF IInv, OnlyWriterFills

(* A flush frees a buffer, or leaves them all.                             *)
LEMMA SetFreeInv == ASSUME IInv, NEW c, SetFree(c) PROVE IInv'
<1> DEFINE b == frame[c].b
<1>1. /\ buf' = [buf EXCEPT ![b].state = "FREE"]
      /\ w' = w /\ f' = f /\ logged' = logged
    BY DEF SetFree, ghostVars
<1>2. DOMAIN buf' = Buffers /\ buf' = [i \in Buffers |-> buf'[i]]
    BY <1>1 DEF IInv
<1>3. ASSUME NEW i \in Buffers
      PROVE  /\ IsBuffer(buf'[i]) /\ Lengths(buf'[i])
             /\ buf'[i].state = "WRITTING" => buf[i].state = "WRITTING"
    <2>1. CASE i # b
        <3>1. buf'[i] = buf[i]
            BY <1>1, <2>1 DEF IInv
        <3> QED BY <3>1 DEF IInv
    <2>2. CASE i = b
        <3>1. buf'[i] = [buf[i] EXCEPT !.state = "FREE"]
            BY <1>1, <2>2 DEF IInv
        <3>2. PICK S : buf[i] \in [state : {"FREE", "WRITTING", "WRITTEN"},
                                   data : Seq(S)]
            BY DEF IInv, IsBuffer
        <3>3. /\ buf'[i] \in [state : {"FREE", "WRITTING", "WRITTEN"}, data : Seq(S)]
              /\ buf'[i].state = "FREE" /\ buf'[i].data = buf[i].data
            BY <3>1, <3>2
        <3> QED BY <3>3 DEF IInv, IsBuffer, Lengths
    <2> QED BY <2>1, <2>2
<1> QED BY <1>1, <1>2, <1>3 DEF IInv, OnlyWriterFills

LEMMA SameBuffersInv ==
    ASSUME IInv, buf' = buf, w' = w, f' \in Buffers, logged' = logged
    PROVE  IInv'
BY DEF IInv, OnlyWriterFills

(* A trace fills the buffer at w, which only then moves on, and starts the *)
(* next one.                                                               *)
LEMMA OutputInv == ASSUME IInv, NEW n \in 1..MaxLine, Output(n) PROVE IInv'
<1> DEFINE d == Started(w)
           room == SECTOR - Len(d)
           rest == n - room
           next == NextBuf(w)
<1>1. IsSeq(d) /\ Len(d) \in 1 .. (SECTOR - 1)
    BY StartedHasRoom
<1>2. /\ SECTOR \in Nat /\ n \in Nat /\ n <= SECTOR - 1 /\ n >= 1
      /\ room \in Nat /\ room >= 1 /\ rest \in Int /\ rest < SECTOR - 1
    BY <1>1, SizesAssumption
<1>3. w \in Buffers /\ next \in Buffers /\ next # w
    BY NextInRing DEF IInv
<1>4. f' = f /\ logged' = logged + n /\ logged' \in Nat
    BY <1>2 DEF Output, IInv
<1>5. CASE n < room /\ w' = w
           /\ buf' = [buf EXCEPT ![w] = Filling(d \o Pieces(logged, n))]
    <2> DEFINE e == d \o Pieces(logged, n)
    <2>1. IsSeq(e) /\ Len(e) = Len(d) + n
        BY <1>1, <1>2, WithPieces
    <2>2. Len(e) \in 1 .. (SECTOR - 1)
        BY <1>1, <1>2, <1>5, <2>1
    <2> HIDE DEF e, d
    <2>3. IsBuffer(Filling(e)) /\ Lengths(Filling(e))
        BY <2>1, <2>2, FillingIsBuffer
    <2> USE DEF e
    <2>4. \A i \in Buffers : buf'[i] = IF i = w THEN Filling(e) ELSE buf[i]
        BY <1>5 DEF IInv
    <2>5. DOMAIN buf' = Buffers /\ buf' = [i \in Buffers |-> buf'[i]]
        BY <1>5 DEF IInv
    <2> QED BY <1>3, <1>4, <1>5, <2>3, <2>4, <2>5 DEF IInv, OnlyWriterFills
<1>6. ASSUME n >= room
      PROVE  LET e == Full(d \o Pieces(logged, room))
             IN  IsBuffer(e) /\ Lengths(e) /\ e.state = "WRITTEN"
    <2> DEFINE e == d \o Pieces(logged, room)
    <2>1. IsSeq(e) /\ Len(e) = Len(d) + room
        BY <1>1, <1>2, WithPieces
    <2>2. Len(e) = SECTOR
        BY <1>1, <1>2, <2>1
    <2> HIDE DEF e
    <2>3. IsBuffer(Full(e)) /\ Lengths(Full(e)) /\ Full(e).state = "WRITTEN"
        BY <2>1, <2>2, FullIsBuffer
    <2> QED BY <2>3 DEF e
<1>7. CASE n >= room /\ w' = next
           /\ buf' = [buf EXCEPT ![w] = Full(d \o Pieces(logged, room))]
    <2> DEFINE e == Full(d \o Pieces(logged, room))
    <2>1. IsBuffer(e) /\ Lengths(e) /\ e.state = "WRITTEN"
        BY <1>6, <1>7
    <2>2. \A i \in Buffers : buf'[i] = IF i = w THEN e ELSE buf[i]
        BY <1>7 DEF IInv
    <2>3. DOMAIN buf' = Buffers /\ buf' = [i \in Buffers |-> buf'[i]]
        BY <1>7 DEF IInv
    <2> HIDE DEF e, next
    <2> QED BY <1>3, <1>4, <1>7, <2>1, <2>2, <2>3 DEF IInv, OnlyWriterFills
<1>8. CASE n >= room /\ rest > 0 /\ w' = next
           /\ buf' = [buf EXCEPT
                ![w] = Full(d \o Pieces(logged, room)),
                ![next] = Filling(<<Hdr(Number(w))>> \o Pieces(logged + room, rest))]
    <2> DEFINE e == Full(d \o Pieces(logged, room))
               h == <<Hdr(Number(w))>>
               t == h \o Pieces(logged + room, rest)
    <2>1. IsBuffer(e) /\ Lengths(e) /\ e.state = "WRITTEN"
        BY <1>6, <1>8
    <2>2. h \in Seq({Hdr(Number(w))}) /\ Len(h) = 1
        OBVIOUS
    <2>3. rest \in Nat
        BY <1>2, <1>8
    <2>4. IsSeq(t) /\ Len(t) = 1 + rest
        <3>1. IsSeq(h)
            BY <2>2 DEF IsSeq
        <3> HIDE DEF h, rest
        <3> QED BY <2>2, <2>3, <3>1, WithPieces
    <2>5. Len(t) \in 1 .. (SECTOR - 1)
        <3> HIDE DEF t, rest, room
        <3> QED BY <1>2, <2>3, <2>4
    <2>6. IsBuffer(Filling(t)) /\ Lengths(Filling(t))
        <3> HIDE DEF t
        <3> QED BY <2>4, <2>5, FillingIsBuffer
    <2>7. \A i \in Buffers : buf'[i] = IF i = next THEN Filling(t)
                                       ELSE IF i = w THEN e ELSE buf[i]
        BY <1>3, <1>8 DEF IInv
    <2>8. DOMAIN buf' = Buffers /\ buf' = [i \in Buffers |-> buf'[i]]
        BY <1>8 DEF IInv
    <2> HIDE DEF e, t, next
    <2> QED BY <1>3, <1>4, <1>8, <2>1, <2>6, <2>7, <2>8 DEF IInv, OnlyWriterFills
<1>9. rest > 0 => n >= room
    BY <1>2
<1> QED BY <1>5, <1>7, <1>8, <1>9 DEF Output

LEMMA NextInv == IInv /\ [Next]_vars => IInv'
<1> SUFFICES ASSUME IInv, [Next]_vars PROVE IInv'
    OBVIOUS
<1>1. f \in Buffers /\ NextBuf(f) \in Buffers
    BY NextInRing DEF IInv
<1>2. CASE \E n \in 1..MaxLine : Output(n)
    BY <1>2, OutputInv
<1>3. ASSUME NEW c \in Callers, Flush(c) PROVE IInv'
    <2>1. CASE EnterErase(c)
        BY <1>1, <2>1, SameBuffersInv DEF EnterErase, logVars
    <2>2. CASE Erase(c)
        BY <1>1, <2>2, SameBuffersInv DEF Erase, logVars, ghostVars
    <2>3. CASE EnterWrite(c)
        BY <1>1, <2>3, SameBuffersInv DEF EnterWrite, logVars
    <2>4. CASE Write(c)
        BY <1>1, <2>4, SameBuffersInv DEF Write, logVars, ghostVars
    <2>5. CASE SetFree(c)
        BY <2>5, SetFreeInv
    <2>6. CASE Advance(c)
        BY <1>1, <2>6, SameBuffersInv DEF Advance, ghostVars
    <2> QED BY <1>3, <2>1, <2>2, <2>3, <2>4, <2>5, <2>6 DEF Flush
<1>4. CASE RemainDone \/ CrashEnd \/ Execute
    BY <1>1, <1>4, SameBuffersInv DEF RemainDone, CrashEnd, Execute, logVars, ghostVars
<1>5. CASE FlushAll \/ CrashStart
    BY <1>1, <1>5, SameBuffersInv DEF FlushAll, CrashStart, logVars, ghostVars
<1>6. CASE Restart
    BY <1>6, RestartInv
<1>7. CASE UNCHANGED vars
    BY <1>1, <1>7, SameBuffersInv DEF vars, logVars, ghostVars
<1> QED BY <1>2, <1>3, <1>4, <1>5, <1>6, <1>7 DEF Next

LEMMA Invariance == Spec => []IInv
<1> QED BY InitInv, NextInv, PTL DEF Spec

(* The buffer log_dump_output_handler goes on with is never one that is    *)
(* being filled: the assertion of log_section.c:476 holds whatever         *)
(* interrupts, crashes and the two callers of the flush do.                *)
THEOREM AlwaysOnlyWriterFills == Spec => []OnlyWriterFills
<1> QED BY Invariance, InvImplies, PTL

(* No trace and no flush makes a buffer larger than its sector; a full one *)
(* fills it, one being filled has room.                                    *)
THEOREM AlwaysBuffersOK == Spec => []BuffersOK
<1> QED BY Invariance, InvImplies, PTL

-----------------------------------------------------------------------------
(***************************************************************************)
(* The queue and the flash                                                 *)
(***************************************************************************)

LEMMA LeastElement ==
    ASSUME NEW T, \A n \in T : n \in Nat, NEW n \in T
    PROVE  \E m \in T : \A k \in T : m <= k
<1> DEFINE R == OpToRel(<, Nat)
<1>1. IsWellFoundedOn(R, Nat)
    BY NatLessThanWellFounded
<1>2. \A x, y \in Nat : x < y => <<x, y>> \in R
    BY DEF OpToRel
<1> HIDE DEF R
<1>3. T \subseteq Nat /\ T # {}
    OBVIOUS
<1>4. PICK x \in T : \A y \in T : ~ (<<y, x>> \in R)
    BY <1>1, <1>3, WFMin
<1>5. ASSUME NEW k \in T PROVE x <= k
    <2>1. x \in Nat /\ k \in Nat
        BY <1>3
    <2>2. ~ (k < x)
        BY <1>2, <1>4, <2>1
    <2> QED BY <2>1, <2>2
<1> QED BY <1>5

-----------------------------------------------------------------------------
(* What the first k operations of a queue leave of a flash: After.         *)
Run(fl, q, k) ==
    LET after[i \in 0 .. Len(q)] == IF i = 0 THEN fl ELSE Program(after[i - 1], q[i])
    IN  after[k]

ByStep(fl, q) ==
    /\ Run(fl, q, 0) = fl
    /\ \A k \in 1 .. Len(q) : Run(fl, q, k) = Program(Run(fl, q, k - 1), q[k])

LEMMA RunSteps ==
    ASSUME NEW fl, NEW q, Len(q) \in Nat
    PROVE  ByStep(fl, q)
<1> DEFINE F(h) == h = [i \in 0 .. Len(q) |-> IF i = 0 THEN fl ELSE Program(h[i - 1], q[i])]
           g == CHOOSE h : F(h)
           Fits(h, n) == /\ h = [i \in 0 .. n |-> h[i]] /\ h[0] = fl
                         /\ \A i \in 1 .. n : h[i] = Program(h[i - 1], q[i])
           Missing == {n \in 0 .. Len(q) : ~ \E h : Fits(h, n)}
<1>1. \A k : Run(fl, q, k) = g[k]
    BY DEF Run
<1>2. /\ \A n : n \in Missing <=> n \in 0 .. Len(q) /\ ~ \E h : Fits(h, n)
      /\ \A n \in Missing : n \in Nat
    OBVIOUS
<1> HIDE DEF Missing
<1>3. Missing = {}
    <2> SUFFICES ASSUME NEW x \in Missing PROVE FALSE
        OBVIOUS
    <2>1. PICK n \in Missing : \A k \in Missing : n <= k
        BY LeastElement, <1>2
    <2>2. n \in 0 .. Len(q) /\ ~ \E h : Fits(h, n)
        BY <1>2, <2>1
    <2>3. CASE n = 0
        <3> DEFINE z == [i \in 0 .. 0 |-> fl]
        <3>1. z = [i \in 0 .. 0 |-> z[i]] /\ z[0] = fl /\ 1 .. 0 = {}
            OBVIOUS
        <3>2. Fits(z, 0)
            BY <3>1
        <3> QED BY <3>2, <2>2, <2>3
    <2>4. CASE n > 0
        <3>1. n - 1 \in 0 .. Len(q) /\ n - 1 < n
            BY <2>2, <2>4
        <3>2. n - 1 \notin Missing
            BY <3>1, <2>1, <2>2
        <3>3. PICK h : Fits(h, n - 1)
            BY <3>1, <3>2, <1>2
        <3> DEFINE y == [i \in 0 .. n |-> IF i = n THEN Program(h[n - 1], q[n]) ELSE h[i]]
        <3>4. y = [i \in 0 .. n |-> y[i]] /\ y[0] = fl /\ y[n] = Program(h[n - 1], q[n])
            BY <2>2, <2>4, <3>3
        <3>5. \A i \in 0 .. n - 1 : y[i] = h[i]
            BY <2>2, <2>4
        <3> HIDE DEF y
        <3>6. ASSUME NEW i \in 1 .. n PROVE y[i] = Program(y[i - 1], q[i])
            <4>1. i - 1 \in 0 .. n - 1
                BY <2>2
            <4>2. y[i - 1] = h[i - 1]
                BY <3>5, <4>1
            <4>3. CASE i = n
                BY <3>4, <4>2, <4>3
            <4>4. CASE i # n
                <5>1. i \in 1 .. n - 1 /\ i \in 0 .. n - 1
                    BY <2>2, <4>4
                <5> QED BY <3>3, <3>5, <4>2, <5>1
            <4> QED BY <4>3, <4>4
        <3>7. Fits(y, n)
            BY <3>4, <3>6
        <3> QED BY <3>7, <2>2
    <2> QED BY <2>2, <2>3, <2>4
<1>4. PICK h : Fits(h, Len(q))
    <2>1. Len(q) \in 0 .. Len(q) /\ Len(q) \notin Missing
        BY <1>3
    <2> QED BY <2>1, <1>2
<1>5. F(h)
    <2>1. \A i \in 0 .. Len(q) : i # 0 => i \in 1 .. Len(q)
        OBVIOUS
    <2>2. \A i \in 0 .. Len(q) : h[i] = IF i = 0 THEN fl ELSE Program(h[i - 1], q[i])
        BY <1>4, <2>1
    <2> QED BY <1>4, <2>2
<1>6. F(g)
    BY <1>5
<1> HIDE DEF g
<1>7. g[0] = fl /\ \A k \in 1 .. Len(q) : g[k] = Program(g[k - 1], q[k])
    <2>1. 0 \in 0 .. Len(q) /\ \A k \in 1 .. Len(q) : k \in 0 .. Len(q) /\ k # 0
        OBVIOUS
    <2> QED BY <1>6, <2>1
<1> QED BY <1>1, <1>7 DEF ByStep

(* Two queues in step: one is the other one without its first d.           *)
InStep(gl, r, fl, q, n, d) == \A k \in 0 .. n : Run(gl, r, k) = Run(fl, q, k + d)

LEMMA RunShift ==
    ASSUME NEW fl, NEW q, Len(q) \in Nat, NEW gl, NEW r, Len(r) \in Nat,
           NEW d \in Nat, NEW n \in Nat, n <= Len(r), n + d <= Len(q),
           gl = Run(fl, q, d), \A k \in 1 .. n : r[k] = q[k + d]
    PROVE  InStep(gl, r, fl, q, n, d)
<1>0. ByStep(gl, r) /\ ByStep(fl, q)
    BY RunSteps
<1> DEFINE Wrong == {k \in 0 .. n : Run(gl, r, k) # Run(fl, q, k + d)}
<1>1. /\ \A k : k \in Wrong <=> k \in 0 .. n /\ Run(gl, r, k) # Run(fl, q, k + d)
      /\ \A k \in Wrong : k \in Nat
    OBVIOUS
<1> HIDE DEF Wrong
<1>2. Wrong = {}
    <2> SUFFICES ASSUME NEW x \in Wrong PROVE FALSE
        OBVIOUS
    <2>1. PICK m \in Wrong : \A k \in Wrong : m <= k
        BY LeastElement, <1>1
    <2>2. m \in 0 .. n /\ Run(gl, r, m) # Run(fl, q, m + d)
        BY <1>1, <2>1
    <2>3. m # 0
        <3>1. 0 + d = d
            OBVIOUS
        <3>2. Run(gl, r, 0) = gl
            BY <1>0 DEF ByStep
        <3> QED BY <2>2, <3>1, <3>2
    <2>4. m - 1 \in 0 .. n /\ m - 1 < m /\ m \in 1 .. Len(r) /\ m + d \in 1 .. Len(q)
          /\ m \in 1 .. n /\ (m - 1) + d = (m + d) - 1
        BY <2>2, <2>3
    <2>5. Run(gl, r, m - 1) = Run(fl, q, (m + d) - 1)
        <3>1. m \in Nat /\ ~(m <= m - 1)
            BY <2>4
        <3>2. m - 1 \notin Wrong
            BY <2>1, <3>1
        <3>3. Run(gl, r, m - 1) = Run(fl, q, (m - 1) + d)
            BY <1>1, <2>4, <3>2
        <3> QED BY <2>4, <3>3
    <2>6. Run(gl, r, m) = Program(Run(gl, r, m - 1), r[m])
        BY <1>0, <2>4 DEF ByStep
    <2>7. Run(fl, q, m + d) = Program(Run(fl, q, (m + d) - 1), q[m + d])
        BY <1>0, <2>4 DEF ByStep
    <2> QED BY <2>2, <2>4, <2>5, <2>6, <2>7
<1> QED BY <1>1, <1>2 DEF InStep

-----------------------------------------------------------------------------
(* The queue and the flash.                                                *)
LEMMA AfterRun ==
    /\ \A k : After(k) = Run(flash, queue, k)
    /\ Stored = Run(flash, queue, Len(queue))
BY DEF After, Stored, Run

LEMMA NextAfterRun ==
    /\ \A k : After(k)' = Run(flash', queue', k)
    /\ Stored' = Run(flash', queue', Len(queue'))
BY DEF After, Stored, Run

(* All that power cuts can leave now could be left before, but for what is *)
(* stored in the end.                                                      *)
NothingElse ==
    \A k \in 0 .. Len(queue') :
        After(k)' = Stored' \/ \E j \in 0 .. Len(queue) : After(k)' = After(j)
IsQueue(q) == \E S : q \in Seq(S)

LEMMA Executed ==
    ASSUME IsQueue(queue), Drain
    PROVE  IsQueue(queue') /\ Stored' = Stored /\ NothingElse
<1>1. PICK S : queue \in Seq(S)
    BY DEF IsQueue
<1>2. /\ queue # <<>> /\ queue' = Tail(queue) /\ flash' = Program(flash, Head(queue))
    BY DEF Drain
<1>3. /\ Head(queue) \in S /\ Tail(queue) \in Seq(S)
      /\ Len(Tail(queue)) = Len(queue) - 1 /\ Len(queue) \in Nat
      /\ \A k \in 1 .. Len(Tail(queue)) : Tail(queue)[k] = queue[k + 1]
    BY <1>1, <1>2, HeadTailProperties, LenProperties
<1>4. Head(queue) = queue[1]
    BY <1>1, <1>2
<1>5. IsQueue(queue')
    BY <1>2, <1>3 DEF IsQueue
<1>6. Len(queue) >= 1 /\ Len(queue') = Len(queue) - 1 /\ Len(queue') \in Nat
    BY <1>1, <1>2, <1>3, EmptySeq
<1>7. flash' = Run(flash, queue, 1)
    <2>1. 1 \in 1 .. Len(queue) /\ 1 - 1 = 0
        BY <1>3, <1>6
    <2>2. Run(flash, queue, 1) = Program(Run(flash, queue, 0), queue[1])
        BY <1>3, <2>1, RunSteps DEF ByStep
    <2> QED BY <1>2, <1>3, <1>4, <2>2, RunSteps DEF ByStep
<1>8. \A k \in 0 .. Len(queue') : Run(flash', queue', k) = Run(flash, queue, k + 1)
    <2>1. /\ 1 \in Nat /\ Len(queue') <= Len(queue') /\ Len(queue') + 1 <= Len(queue)
          /\ \A k \in 1 .. Len(queue') : queue'[k] = queue[k + 1]
        BY <1>2, <1>3, <1>6
    <2>2. PICK r, gl : r = queue' /\ gl = flash'
        OBVIOUS
    <2>3. \A k \in 0 .. Len(r) : Run(gl, r, k) = Run(flash, queue, k + 1)
        <3>1. InStep(gl, r, flash, queue, Len(r), 1)
            BY <1>3, <1>6, <1>7, <2>1, <2>2, RunShift
        <3> QED BY <3>1 DEF InStep
    <2> QED BY <2>2, <2>3
<1>9. Stored' = Stored
    <2>1. Len(queue') \in 0 .. Len(queue') /\ Len(queue') + 1 = Len(queue)
        BY <1>3, <1>6
    <2> QED BY <1>8, <2>1, AfterRun, NextAfterRun
<1>10. NothingElse
    <2>1. ASSUME NEW k \in 0 .. Len(queue')
          PROVE  \E j \in 0 .. Len(queue) : After(k)' = After(j)
        <3>1. k + 1 \in 0 .. Len(queue)
            BY <1>3, <1>6
        <3>2. After(k)' = After(k + 1)
            BY <1>8, AfterRun, NextAfterRun
        <3> QED BY <3>1, <3>2
    <2> QED BY <2>1 DEF NothingElse
<1> QED BY <1>5, <1>9, <1>10

LEMMA Added ==
    ASSUME IsQueue(queue), NEW c, NEW op, Accepted(c, op)
    PROVE  IsQueue(queue') /\ Stored' = Program(Stored, op) /\ NothingElse
<1>1. PICK S : queue \in Seq(S)
    BY DEF IsQueue
<1>2. CASE queue' = Append(queue, op) /\ flash' = flash
    <2> DEFINE T == S \cup {op}
    <2>1. queue \in Seq(T) /\ Len(queue) \in Nat
        <3>1. Len(queue) \in Nat /\ queue \in [1 .. Len(queue) -> S]
            BY <1>1, LenProperties
        <3>2. queue \in [1 .. Len(queue) -> T]
            BY <3>1
        <3> QED BY <3>1, <3>2, SeqDef
    <2>2. op \in T
        OBVIOUS
    <2> HIDE DEF T
    <2>3. /\ Append(queue, op) \in Seq(T) /\ Len(Append(queue, op)) = Len(queue) + 1
          /\ \A k \in 1 .. Len(queue) : Append(queue, op)[k] = queue[k]
          /\ Append(queue, op)[Len(queue) + 1] = op
        BY <2>1, <2>2, AppendProperties
    <2>4. /\ Len(queue') = Len(queue) + 1 /\ Len(queue') \in Nat
          /\ queue'[Len(queue) + 1] = op
          /\ \A k \in 1 .. Len(queue) : queue'[k] = queue[k]
        BY <1>2, <2>1, <2>3
    <2>5. \A k \in 0 .. Len(queue) : Run(flash', queue', k) = Run(flash, queue, k)
        <3>1. PICK r : r = queue'
            OBVIOUS
        <3>2. \A k \in 1 .. Len(queue) : k + 0 = k
            BY <2>1
        <3>3. /\ 0 \in Nat /\ Len(queue) <= Len(r) /\ Len(queue) + 0 <= Len(queue)
              /\ Len(r) \in Nat
              /\ \A k \in 1 .. Len(queue) : r[k] = queue[k + 0]
            BY <2>1, <2>4, <3>1, <3>2
        <3>4. flash = Run(flash, queue, 0)
            BY <2>1, RunSteps DEF ByStep
        <3>5. \A k \in 0 .. Len(queue) : Run(flash, r, k) = Run(flash, queue, k + 0)
            <4>1. InStep(flash, r, flash, queue, Len(queue), 0)
                BY <2>1, <3>3, <3>4, RunShift
            <4> QED BY <4>1 DEF InStep
        <3>6. \A k \in 0 .. Len(queue) : k + 0 = k
            BY <2>1
        <3> QED BY <1>2, <3>1, <3>5, <3>6
    <2>6. Stored' = Program(Stored, op)
        <3>1. Len(queue) + 1 \in 1 .. Len(queue') /\ (Len(queue) + 1) - 1 = Len(queue)
              /\ Len(queue) \in 0 .. Len(queue)
            BY <2>1, <2>4
        <3>2. PICK r, gl : r = queue' /\ gl = flash'
            OBVIOUS
        <3>3. \A k \in 1 .. Len(r) : Run(gl, r, k) = Program(Run(gl, r, k - 1), r[k])
            <4>1. ByStep(gl, r)
                BY <2>4, <3>2, RunSteps
            <4> QED BY <4>1 DEF ByStep
        <3>4. Run(flash', queue', Len(queue) + 1) =
                 Program(Run(flash', queue', Len(queue)), queue'[Len(queue) + 1])
            BY <3>1, <3>2, <3>3
        <3>5. Run(flash', queue', Len(queue)) = Stored
            BY <2>5, <3>1, AfterRun
        <3> QED BY <2>4, <3>4, <3>5, NextAfterRun
    <2>7. NothingElse
        <3>1. ASSUME NEW k \in 0 .. Len(queue'), k # Len(queue')
              PROVE  \E j \in 0 .. Len(queue) : After(k)' = After(j)
            <4>1. k \in 0 .. Len(queue)
                BY <2>1, <2>4, <3>1
            <4> QED BY <4>1, <2>5, AfterRun, NextAfterRun
        <3>2. ASSUME NEW k \in 0 .. Len(queue'), k = Len(queue') PROVE After(k)' = Stored'
            BY <3>2, NextAfterRun
        <3> QED BY <3>1, <3>2 DEF NothingElse
    <2> QED BY <1>2, <2>3, <2>6, <2>7 DEF IsQueue
<1>3. CASE queue' = <<>> /\ flash' = Program(Stored, op)
    <2>1. <<>> \in Seq({}) /\ Len(<<>>) = 0
        BY EmptySeq
    <2>2. Len(queue') = 0 /\ Len(queue') \in Nat /\ IsQueue(queue')
        BY <1>3, <2>1 DEF IsQueue
    <2>3. Run(flash', queue', 0) = flash'
        <3>1. PICK r, gl : r = queue' /\ gl = flash'
            OBVIOUS
        <3>2. Run(gl, r, 0) = gl
            BY <2>2, <3>1, RunSteps DEF ByStep
        <3> QED BY <3>1, <3>2
    <2>4. Stored' = Program(Stored, op)
        BY <1>3, <2>2, <2>3, NextAfterRun
    <2>5. \A k \in 0 .. Len(queue') : k = 0
        BY <2>2
    <2>6. NothingElse
        BY <2>2, <2>5, NextAfterRun DEF NothingElse
    <2> QED BY <2>2, <2>4, <2>6
<1> QED BY <1>2, <1>3 DEF Accepted

(* All of the queue is executed.                                           *)
LEMMA AllExecuted ==
    ASSUME IsQueue(queue), flash' = Stored, queue' = <<>>
    PROVE  IsQueue(queue') /\ Stored' = Stored /\ NothingElse
<1>1. <<>> \in Seq({}) /\ Len(<<>>) = 0
    BY EmptySeq
<1>2. Len(queue') = 0 /\ Len(queue') \in Nat /\ IsQueue(queue')
    BY <1>1 DEF IsQueue
<1>3. Run(flash', queue', 0) = flash'
    <2>1. PICK r, gl : r = queue' /\ gl = flash'
        OBVIOUS
    <2>2. Run(gl, r, 0) = gl
        BY <1>2, <2>1, RunSteps DEF ByStep
    <2> QED BY <2>1, <2>2
<1>4. Stored' = Stored
    BY <1>2, <1>3, NextAfterRun
<1>5. \A k \in 0 .. Len(queue') : k = 0
    BY <1>2
<1>6. NothingElse
    BY <1>2, <1>5, NextAfterRun DEF NothingElse
<1> QED BY <1>2, <1>4, <1>6

LEMMA SameChip ==
    ASSUME IsQueue(queue), flash' = flash, queue' = queue
    PROVE  IsQueue(queue') /\ Stored' = Stored /\ NothingElse
<1>1. \A k : After(k)' = After(k)
    BY AfterRun, NextAfterRun
<1>2. Stored' = Stored
    BY AfterRun, NextAfterRun
<1> QED BY <1>1, <1>2 DEF NothingElse

-----------------------------------------------------------------------------
(***************************************************************************)
(* The numbers of a flash                                                  *)
(***************************************************************************)

Sectors == 0 .. (SECTORS - 1)
Cells == 0 .. (Size - 1)
Calm == "mixed" \notin upset

(* A flash on which every sector has its own number, of the first n.       *)
IsHdr(c) == c # Blank /\ c[1] = "hdr"
Numbered(fl, n) ==
    /\ fl = [i \in Cells |-> fl[i]]
    /\ \A s \in Headers(fl) :
          SeqAt(fl, s) \in Nat /\ SeqAt(fl, s) < n /\ fl[s * SECTOR] = Hdr(SeqAt(fl, s))
    /\ \A s, t \in Headers(fl) : SeqAt(fl, s) = SeqAt(fl, t) => s = t

LEMMA MoreNumbers ==
    ASSUME NEW fl, NEW n \in Nat, NEW m \in Nat, n <= m, Numbered(fl, n)
    PROVE  Numbered(fl, m)
BY DEF Numbered

(* The sectors do not overlap.                                             *)
LEMMA Spacing ==
    ASSUME NEW s \in Nat, NEW t \in Nat, s < t
    PROVE  s * SECTOR + SECTOR <= t * SECTOR /\ s * SECTOR \in Nat /\ t * SECTOR \in Nat
<1>1. SECTOR \in Nat
    BY SizesAssumption
<1>2. PICK d \in Nat : t = (s + 1) + d
    <2>1. t - (s + 1) \in Nat /\ t = (s + 1) + (t - (s + 1))
        OBVIOUS
    <2> QED BY <2>1
<1>3. \A a, b, c \in Nat : ((a + 1) + b) * c = a * c + c + b * c
    OBVIOUS
<1>4. \A a, c \in Nat : a * c \in Nat
    OBVIOUS
<1>5. t * SECTOR = s * SECTOR + SECTOR + d * SECTOR
    BY <1>1, <1>2, <1>3
<1>6. s * SECTOR \in Nat /\ d * SECTOR \in Nat
    BY <1>1, <1>4
<1> QED BY <1>1, <1>5, <1>6

LEMMA SectorCells ==
    /\ Size \in Nat
    /\ \A s \in Sectors : s * SECTOR \in Cells /\ s * SECTOR + SECTOR <= Size
<1>1. SECTOR \in Nat /\ SECTOR >= 2 /\ SECTORS \in Nat /\ SECTORS >= 2
    BY SizesAssumption
<1>2. Size \in Nat
    BY <1>1 DEF Size
<1>3. SECTORS * SECTOR = Size
    BY <1>1 DEF Size
<1>4. ASSUME NEW s \in Sectors PROVE s * SECTOR \in Cells /\ s * SECTOR + SECTOR <= Size
    <2>1. s \in Nat /\ s < SECTORS
        BY <1>1 DEF Sectors
    <2>2. s * SECTOR + SECTOR <= SECTORS * SECTOR /\ s * SECTOR \in Nat
        BY <1>1, <2>1, Spacing
    <2> QED BY <1>1, <1>2, <1>3, <2>2 DEF Cells
<1> QED BY <1>2, <1>4

(* An aligned position is the start of a sector.                           *)
LEMMA AtSector ==
    ASSUME NEW at \in Cells, at % SECTOR = 0
    PROVE  \E s \in Sectors : at = s * SECTOR
<1>1. SECTOR \in Nat /\ SECTOR >= 2 /\ SECTORS \in Nat /\ SECTORS >= 2 /\ at \in Nat
    BY SizesAssumption DEF Cells
<1>2. PICK s \in Nat : at = s * SECTOR
    <2>1. at = (SECTOR * (at \div SECTOR)) + (at % SECTOR) /\ at \div SECTOR \in Nat
        BY <1>1
    <2>2. PICK s \in Nat : s = at \div SECTOR
        BY <2>1
    <2>3. at = (SECTOR * s) + 0
        BY <2>1, <2>2
    <2>4. (SECTOR * s) + 0 = s * SECTOR
        BY <1>1
    <2> QED BY <2>3, <2>4
<1>3. s < SECTORS
    <2> SUFFICES ASSUME SECTORS <= s PROVE FALSE
        BY <1>1
    <2>1. SECTORS * SECTOR = Size /\ Size \in Nat
        BY <1>1 DEF Size
    <2>2. SECTORS = s \/ SECTORS < s
        BY <1>1
    <2>3. at < Size
        BY <1>1, <2>1 DEF Cells
    <2>4. CASE SECTORS = s
        BY <1>1, <1>2, <2>1, <2>3, <2>4
    <2>5. CASE SECTORS < s
        <3>1. SECTORS * SECTOR + SECTOR <= s * SECTOR
            BY <1>1, <2>5, Spacing
        <3> QED BY <1>1, <1>2, <2>1, <2>3, <3>1
    <2> QED BY <2>2, <2>4, <2>5
<1> QED BY <1>1, <1>2, <1>3 DEF Sectors

LEMMA SectorOnce ==
    ASSUME NEW s \in Sectors, NEW t \in Sectors, s * SECTOR = t * SECTOR
    PROVE  s = t
<1>1. s \in Nat /\ t \in Nat /\ SECTOR \in Nat /\ SECTOR >= 2
    BY SizesAssumption DEF Sectors
<1>2. ~(s < t)
    <2> SUFFICES ASSUME s < t PROVE FALSE
        OBVIOUS
    <2>1. s * SECTOR + SECTOR <= t * SECTOR /\ s * SECTOR \in Nat /\ t * SECTOR \in Nat
        BY <1>1, Spacing
    <2>2. PICK a \in Nat, b \in Nat : a = s * SECTOR /\ b = t * SECTOR
        BY <2>1
    <2>3. a + SECTOR <= b /\ a = b
        BY <2>1, <2>2
    <2> QED BY <1>1, <2>3
<1>3. ~(t < s)
    <2> SUFFICES ASSUME t < s PROVE FALSE
        OBVIOUS
    <2>1. t * SECTOR + SECTOR <= s * SECTOR /\ s * SECTOR \in Nat /\ t * SECTOR \in Nat
        BY <1>1, Spacing
    <2>2. PICK a \in Nat, b \in Nat : a = s * SECTOR /\ b = t * SECTOR
        BY <2>1
    <2>3. b + SECTOR <= a /\ a = b
        BY <2>1, <2>2
    <2> QED BY <1>1, <2>3
<1> QED BY <1>1, <1>2, <1>3

(* What an operation on a sector does to the starts of the sectors.        *)
Starts(fl, gl, at, cell) ==
    /\ gl = [i \in Cells |-> gl[i]]
    /\ \A t \in Sectors :
          gl[t * SECTOR] = IF t * SECTOR # at THEN fl[t * SECTOR]
                           ELSE IF cell = Blank \/ fl[at] \in {Blank, cell} THEN cell
                           ELSE Bad

LEMMA ProgramStarts ==
    ASSUME NEW fl, fl = [i \in Cells |-> fl[i]], NEW s \in Sectors,
           NEW op, op.at = s * SECTOR,
           NEW n \in 1 .. SECTOR, DOMAIN op.cells = 1 .. n
    PROVE  Starts(fl, Program(fl, op), op.at, op.cells[1])
<1> DEFINE g == Program(fl, op)
<1>1. SECTOR \in Nat /\ SECTOR >= 2 /\ op.at \in Cells /\ op.at \in Nat
    BY SizesAssumption, SectorCells DEF Cells
<1>2. DOMAIN fl = Cells
    OBVIOUS
<1>3. g = [i \in Cells |->
        LET k == i - op.at + 1
        IN  IF k \notin 1 .. n THEN fl[i]
            ELSE IF op.cells[k] = Blank \/ fl[i] \in {Blank, op.cells[k]}
                 THEN op.cells[k] ELSE Bad]
    BY <1>2 DEF Program
<1> HIDE DEF g
<1>4. ASSUME NEW t \in Sectors
      PROVE  g[t * SECTOR] = IF t * SECTOR # op.at THEN fl[t * SECTOR]
                             ELSE IF op.cells[1] = Blank \/ fl[op.at] \in {Blank, op.cells[1]}
                                  THEN op.cells[1] ELSE Bad
    <2>1. PICK i \in Cells : i = t * SECTOR
        BY SectorCells
    <2>2. i \in Nat /\ i \in Int
        BY <2>1 DEF Cells
    <2>3. CASE i = op.at
        <3>1. i - op.at + 1 = 1 /\ 1 \in 1 .. n
            BY <1>1, <2>2, <2>3
        <3>2. g[i] = IF op.cells[1] = Blank \/ fl[i] \in {Blank, op.cells[1]}
                     THEN op.cells[1] ELSE Bad
            BY <1>3, <2>1, <3>1
        <3> QED BY <2>1, <2>3, <3>2
    <2>4. CASE i # op.at
        <3>1. i - op.at + 1 \notin 1 .. n
            <4>1. s \in Nat /\ t \in Nat /\ s # t
                BY <2>1, <2>4 DEF Sectors
            <4>2. PICK a \in Nat : a = op.at
                BY <1>1
            <4>3. CASE s < t
                <5>1. s * SECTOR + SECTOR <= t * SECTOR
                    BY <4>1, <4>3, Spacing
                <5>2. a + SECTOR <= i
                    BY <2>1, <4>2, <5>1
                <5>3. i - a + 1 \notin 1 .. n
                    BY <1>1, <2>2, <5>2
                <5> QED BY <4>2, <5>3
            <4>4. CASE t < s
                <5>1. t * SECTOR + SECTOR <= s * SECTOR
                    BY <4>1, <4>4, Spacing
                <5>2. i + SECTOR <= a
                    BY <2>1, <4>2, <5>1
                <5>3. i - a + 1 \notin 1 .. n
                    BY <1>1, <2>2, <5>2
                <5> QED BY <4>2, <5>3
            <4> QED BY <4>1, <4>3, <4>4
        <3>2. g[i] = fl[i]
            BY <1>3, <2>1, <3>1
        <3> QED BY <2>1, <2>4, <3>2
    <2> QED BY <2>3, <2>4
<1>5. g = [i \in Cells |-> g[i]]
    BY <1>3
<1> QED BY <1>4, <1>5 DEF Starts, g

(* A cell is blank, spoilt, or a header with its number, or of the log.    *)
LEMMA CellKinds ==
    /\ ~IsHdr(Blank) /\ ~IsHdr(Bad)
    /\ \A n : IsHdr(Hdr(n)) /\ Hdr(n)[2] = n /\ Hdr(n) # Blank
    /\ \A n, m : Hdr(n) = Hdr(m) => n = m
<1>1. ~IsHdr(Blank)
    BY DEF IsHdr
<1>2. ~IsHdr(Bad)
    BY DEF IsHdr, Bad
<1>3. ASSUME NEW n PROVE IsHdr(Hdr(n)) /\ Hdr(n)[2] = n /\ Hdr(n) # Blank
    <2>1. Hdr(n)[1] = "hdr" /\ Hdr(n)[2] = n
        BY DEF Hdr
    <2>2. Hdr(n) # Blank
        BY DEF Hdr, Blank
    <2> QED BY <2>1, <2>2 DEF IsHdr
<1>4. ASSUME NEW n, NEW m, Hdr(n) = Hdr(m) PROVE n = m
    BY <1>3, <1>4
<1> QED BY <1>1, <1>2, <1>3, <1>4

LEMMA HeadersAre ==
    ASSUME NEW fl
    PROVE  \A s : s \in Headers(fl) <=> s \in Sectors /\ IsHdr(fl[s * SECTOR])
BY DEF Headers, Sectors, IsHdr

(* An erase takes a number away.                                           *)
Fewer(fl, gl) == \A t \in Headers(gl) : t \in Headers(fl) /\ SeqAt(gl, t) = SeqAt(fl, t)

LEMMA ErasedNumbers ==
    ASSUME NEW fl, NEW gl, NEW at, NEW n \in Nat, Numbered(fl, n), Starts(fl, gl, at, Blank)
    PROVE  Numbered(gl, n) /\ Fewer(fl, gl)
<1>1. ASSUME NEW t \in Headers(gl)
      PROVE  t \in Headers(fl) /\ gl[t * SECTOR] = fl[t * SECTOR]
    <2>1. t \in Sectors /\ IsHdr(gl[t * SECTOR])
        BY HeadersAre
    <2>2. gl[t * SECTOR] # Blank
        BY <2>1 DEF IsHdr
    <2>3. gl[t * SECTOR] = fl[t * SECTOR]
        BY <2>1, <2>2 DEF Starts
    <2> QED BY <2>1, <2>3, HeadersAre
<1>2. Fewer(fl, gl)
    BY <1>1 DEF Fewer, SeqAt
<1>3. Numbered(gl, n)
    BY <1>1, <1>2 DEF Numbered, Fewer, Starts
<1> QED BY <1>2, <1>3

(* A write adds one, if it is on no other sector.                          *)
OneMore(fl, gl, at, m) ==
    \A t \in Headers(gl) :
        \/ t * SECTOR # at /\ t \in Headers(fl) /\ SeqAt(gl, t) = SeqAt(fl, t)
        \/ t * SECTOR = at /\ SeqAt(gl, t) = m

LEMMA WrittenNumbers ==
    ASSUME NEW fl, NEW gl, NEW s \in Sectors, NEW n \in Nat, NEW m \in Nat, m < n,
           Numbered(fl, n), Starts(fl, gl, s * SECTOR, Hdr(m)),
           \A t \in Headers(fl) : SeqAt(fl, t) = m => t = s
    PROVE  Numbered(gl, n) /\ OneMore(fl, gl, s * SECTOR, m)
<1>1. ASSUME NEW t \in Headers(gl)
      PROVE  /\ t \in Sectors
             /\ \/ t # s /\ t * SECTOR # s * SECTOR
                   /\ t \in Headers(fl) /\ gl[t * SECTOR] = fl[t * SECTOR]
                \/ t = s /\ gl[t * SECTOR] = Hdr(m)
    <2>1. t \in Sectors /\ IsHdr(gl[t * SECTOR])
        BY HeadersAre
    <2>2. CASE t = s
        BY <2>1, <2>2, CellKinds DEF Starts
    <2>3. CASE t # s
        <3>1. t * SECTOR # s * SECTOR
            BY <2>1, <2>3, SectorOnce
        <3>2. gl[t * SECTOR] = fl[t * SECTOR]
            BY <2>1, <3>1 DEF Starts
        <3> QED BY <2>1, <2>3, <3>1, <3>2, HeadersAre
    <2> QED BY <2>2, <2>3
<1>2. OneMore(fl, gl, s * SECTOR, m)
    BY <1>1, CellKinds DEF OneMore, SeqAt
<1>3. ASSUME NEW t \in Headers(gl)
      PROVE  SeqAt(gl, t) \in Nat /\ SeqAt(gl, t) < n /\ gl[t * SECTOR] = Hdr(SeqAt(gl, t))
    BY <1>1, CellKinds DEF Numbered, SeqAt
<1>4. ASSUME NEW t \in Headers(gl), NEW u \in Headers(gl), SeqAt(gl, t) = SeqAt(gl, u)
      PROVE  t = u
    BY <1>1, <1>4, CellKinds DEF Numbered, SeqAt
<1>5. gl = [i \in Cells |-> gl[i]]
    BY DEF Starts
<1> QED BY <1>2, <1>3, <1>4, <1>5 DEF Numbered

-----------------------------------------------------------------------------
(***************************************************************************)
(* The invariant of the numbers, and entering the flush                    *)
(***************************************************************************)

(* The inductive invariant.  A number once given is never given again, so  *)
(* a buffer and a sector can only share one when the one is being written  *)
(* to the other; for that a single caller may be between taking the buffer *)
(* at f and moving f on, which is what Calm says.                          *)
InUse(b) == b.state # "FREE"
Num(b) == b.data[1][2]
BuffersNumbered ==
    /\ cur \in Nat
    /\ \A i \in Buffers : InUse(buf[i]) =>
            buf[i].data[1] = Hdr(Num(buf[i])) /\ Num(buf[i]) \in Nat /\ Num(buf[i]) < cur
    /\ \A i, j \in Buffers :
            InUse(buf[i]) /\ InUse(buf[j]) /\ Num(buf[i]) = Num(buf[j]) => i = j

(* A number of a buffer is on the flash only while it is being written.    *)
WrittenOnce ==
    \A i \in Buffers : \A s \in Headers(Stored) :
        InUse(buf[i]) /\ SeqAt(Stored, s) = Num(buf[i]) =>
            i = f /\ state = "WRITTING" /\ s * SECTOR = offs

(* One caller at most is between its look at the state and the change of   *)
(* it, and what it saw still holds.                                        *)
Inside(c) == frame[c].at \notin {"loop", "out"}
OneInside ==
    /\ frame = [c \in Callers |-> frame[c]]
    /\ \A c, d \in Callers : Inside(c) /\ Inside(d) => c = d
InsideOK(c) ==
    /\ frame[c].b = f
    /\ frame[c].at \in {"erase", "write", "wrote", "freed"}
    /\ frame[c].at = "erase" => state = "IDLE" /\ offs % SECTOR = 0
    /\ frame[c].at \in {"write", "wrote", "freed"} => state = "WRITTING"
    /\ frame[c].at = "write" => InUse(buf[f])
    /\ frame[c].at = "freed" =>
          \A s \in Headers(Stored) : InUse(buf[f]) => SeqAt(Stored, s) # Num(buf[f])
Steps == \A c \in Callers : Inside(c) => InsideOK(c)
Position ==
    /\ offs \in Cells
    /\ state # "IDLE" => offs % SECTOR = 0
(* Wherever the power goes, the queue half executed, every number is on    *)
(* the flash once.                                                         *)
ChipNumbered == \A k \in 0 .. Len(queue) : Numbered(After(k), cur)

Numbers == BuffersNumbered /\ WrittenOnce /\ OneInside /\ Steps /\ Position /\ ChipNumbered
NInv == IsQueue(queue) /\ (Calm => Numbers)

LEMMA StoredNumbered ==
    ASSUME IsQueue(queue), ChipNumbered PROVE Numbered(Stored, cur)
<1>1. PICK S : queue \in Seq(S)
    BY DEF IsQueue
<1>2. Len(queue) \in 0 .. Len(queue)
    BY <1>1, LenProperties
<1>3. Stored = After(Len(queue))
    BY DEF Stored
<1> QED BY <1>2, <1>3 DEF ChipNumbered

LEMMA StillNumbered ==
    ASSUME ChipNumbered, NothingElse, Numbered(Stored', cur), cur \in Nat,
           cur' \in Nat, cur <= cur'
    PROVE  ChipNumbered'
<1> SUFFICES ASSUME NEW k \in 0 .. Len(queue') PROVE Numbered(After(k)', cur')
    BY DEF ChipNumbered
<1>1. Numbered(After(k)', cur)
    BY DEF NothingElse, ChipNumbered
<1>2. PICK gl, m : gl = After(k)' /\ m = cur'
    OBVIOUS
<1>3. Numbered(gl, m)
    BY <1>1, <1>2, MoreNumbers
<1> QED BY <1>2, <1>3

(* Steps that leave the buffers and the place of the flush: a caller may   *)
(* leave.                                                                  *)
LEMMA LeavingNumbers ==
    ASSUME IsQueue(queue), Numbers, Stored' = Stored, NothingElse,
           buf' = buf, f' = f, cur' = cur, state' = state, offs' = offs,
           frame' = [c \in Callers |-> frame'[c]],
           \A c \in Callers : frame'[c] = frame[c] \/ frame'[c].at \in {"loop", "out"}
    PROVE  Numbers'
<1>1. ChipNumbered'
    BY StoredNumbered, StillNumbered DEF Numbers, BuffersNumbered
<1>2. BuffersNumbered'
    BY DEF Numbers, BuffersNumbered
<1>3. WrittenOnce'
    BY DEF Numbers, WrittenOnce
<1>4. \A c \in Callers : Inside(c)' => Inside(c) /\ frame'[c] = frame[c]
    BY DEF Inside
<1>5. OneInside'
    BY <1>4 DEF Numbers, OneInside
<1>6. Steps'
    BY <1>4 DEF Numbers, Steps, InsideOK
<1>7. Position'
    BY DEF Numbers, Position
<1> QED BY <1>1, <1>2, <1>3, <1>5, <1>6, <1>7 DEF Numbers

(* The step of a caller that is alone in the flush.                        *)
LEMMA GoFrame ==
    ASSUME NEW c \in Callers, NEW at, NEW b, Go(c, at, b), OneInside
    PROVE  /\ frame' = [d \in Callers |-> frame'[d]]
           /\ frame'[c] = [at |-> at, b |-> b]
           /\ \A d \in Callers \ {c} : frame'[d] = frame[d]
BY DEF Go, OneInside

LEMMA AloneInside ==
    ASSUME NEW c \in Callers, NEW at, NEW b, Go(c, at, b), OneInside,
           \A d \in Callers \ {c} : ~Inside(d)
    PROVE  OneInside' /\ \A d \in Callers : Inside(d)' => d = c
<1>1. /\ frame' = [d \in Callers |-> frame'[d]]
      /\ \A d \in Callers \ {c} : frame'[d] = frame[d]
    BY GoFrame
<1>2. \A d \in Callers : Inside(d)' => d = c
    BY <1>1 DEF Inside
<1> QED BY <1>1, <1>2 DEF OneInside

LEMMA EnterCalm ==
    ASSUME NEW c \in Callers, NEW at, Enter(c, at), Calm'
    PROVE  Go(c, at, f) /\ \A d \in Callers \ {c} : ~Inside(d)
BY DEF Enter, Calm, Inside

LEMMA EnterEraseNumbers ==
    ASSUME IsQueue(queue), Numbers, NEW c \in Callers, EnterErase(c), Calm'
    PROVE  Numbers'
<1>1. /\ buf' = buf /\ f' = f /\ cur' = cur /\ state' = state /\ offs' = offs
      /\ flash' = flash /\ queue' = queue /\ Enter(c, "erase")
      /\ state = "IDLE" /\ offs % SECTOR = 0
    BY DEF EnterErase, logVars, chipVars
<1>2. Stored' = Stored /\ NothingElse
    BY <1>1, SameChip
<1>3. Go(c, "erase", f) /\ \A d \in Callers \ {c} : ~Inside(d)
    BY <1>1, EnterCalm
<1>4. OneInside' /\ \A d \in Callers : Inside(d)' => d = c
    BY <1>3, AloneInside DEF Numbers
<1>5. frame'[c] = [at |-> "erase", b |-> f]
    BY <1>3, GoFrame DEF Numbers
<1>6. ChipNumbered'
    BY <1>1, <1>2, StoredNumbered, StillNumbered DEF Numbers, BuffersNumbered
<1>7. BuffersNumbered'
    BY <1>1 DEF Numbers, BuffersNumbered
<1>8. WrittenOnce'
    BY <1>1, <1>2 DEF Numbers, WrittenOnce
<1>9. Steps'
    BY <1>1, <1>4, <1>5 DEF Steps, InsideOK
<1>10. Position'
    BY <1>1 DEF Numbers, Position
<1> QED BY <1>4, <1>6, <1>7, <1>8, <1>9, <1>10 DEF Numbers

LEMMA EnterWriteNumbers ==
    ASSUME IInv, IsQueue(queue), Numbers, NEW c \in Callers, EnterWrite(c), Calm'
    PROVE  Numbers'
<1>1. /\ buf' = buf /\ f' = f /\ cur' = cur /\ state' = "WRITTING" /\ offs' = offs
      /\ flash' = flash /\ queue' = queue /\ Enter(c, "write")
      /\ state # "IDLE" /\ InUse(buf[f])
    BY DEF EnterWrite, logVars, chipVars, Mask, InUse
<1>2. Stored' = Stored /\ NothingElse
    BY <1>1, SameChip
<1>3. Go(c, "write", f) /\ \A d \in Callers \ {c} : ~Inside(d)
    BY <1>1, EnterCalm
<1>4. OneInside' /\ \A d \in Callers : Inside(d)' => d = c
    BY <1>3, AloneInside DEF Numbers
<1>5. frame'[c] = [at |-> "write", b |-> f]
    BY <1>3, GoFrame DEF Numbers
<1>6. ChipNumbered'
    BY <1>1, <1>2, StoredNumbered, StillNumbered DEF Numbers, BuffersNumbered
<1>7. BuffersNumbered'
    BY <1>1 DEF Numbers, BuffersNumbered
<1>8. WrittenOnce'
    BY <1>1, <1>2 DEF Numbers, WrittenOnce
<1>9. Steps'
    BY <1>1, <1>4, <1>5 DEF Steps, InsideOK
<1>10. Position'
    BY <1>1 DEF Numbers, Position
<1> QED BY <1>4, <1>6, <1>7, <1>8, <1>9, <1>10 DEF Numbers

-----------------------------------------------------------------------------
(***************************************************************************)
(* Erasing, writing and going on                                           *)
(***************************************************************************)

(* One caller is inside: the others are not.                               *)
LEMMA OthersOutside ==
    ASSUME OneInside, NEW c \in Callers, Inside(c)
    PROVE  \A d \in Callers \ {c} : ~Inside(d)
BY DEF OneInside

LEMMA AtInside ==
    ASSUME NEW c, NEW at, At(c, at), at \notin {"loop", "out"}
    PROVE  Inside(c) /\ frame[c].at = at
BY DEF At, Inside

LEMMA OutsideAgain ==
    ASSUME OneInside, NEW c \in Callers, Inside(c), NEW at \in {"loop", "out"}, NEW b,
           Go(c, at, b)
    PROVE  OneInside' /\ Steps'
<1>1. OneInside' /\ \A d \in Callers : Inside(d)' => d = c
    BY OthersOutside, AloneInside
<1>2. frame'[c] = [at |-> at, b |-> b]
    BY GoFrame
<1>3. ~Inside(c)'
    BY <1>2 DEF Inside
<1> QED BY <1>1, <1>3 DEF Steps

LEMMA RefusedNumbers ==
    ASSUME IsQueue(queue), Numbers, NEW c \in Callers, Refused(c), Go(c, "loop", 0),
           buf' = buf, f' = f, cur' = cur, state' = state, offs' = offs
    PROVE  Numbers' /\ IsQueue(queue')
<1>1. IsQueue(queue') /\ Stored' = Stored /\ NothingElse
    BY Executed DEF Refused
<1>2. frame' = [d \in Callers |-> frame'[d]]
      /\ \A d \in Callers : frame'[d] = frame[d] \/ frame'[d].at \in {"loop", "out"}
    <2>1. /\ frame' = [d \in Callers |-> frame'[d]]
          /\ frame'[c] = [at |-> "loop", b |-> 0]
          /\ \A d \in Callers \ {c} : frame'[d] = frame[d]
        BY GoFrame DEF Numbers
    <2>2. frame'[c].at = "loop"
        BY <2>1
    <2> QED BY <2>1, <2>2
<1> QED BY <1>1, <1>2, LeavingNumbers

LEMMA EraseNumbers ==
    ASSUME IsQueue(queue), Numbers, NEW c \in Callers, Erase(c)
    PROVE  Numbers' /\ IsQueue(queue')
<1>1. /\ buf' = buf /\ f' = f /\ cur' = cur /\ offs' = offs /\ Go(c, "loop", 0)
      /\ Inside(c) /\ frame[c].at = "erase"
    BY AtInside DEF Erase, logVars
<1>2. CASE Refused(c) /\ state' = state
    BY <1>1, <1>2, RefusedNumbers
<1>3. CASE Accepted(c, EraseOp) /\ state' = "ERASED"
    <2>1. IsQueue(queue') /\ Stored' = Program(Stored, EraseOp) /\ NothingElse
        BY <1>3, Added
    <2>2. state = "IDLE" /\ offs % SECTOR = 0
        BY <1>1 DEF Numbers, Steps, InsideOK
    <2>3. PICK s \in Sectors : offs = s * SECTOR
        BY <2>2, AtSector DEF Numbers, Position
    <2>4. Numbered(Stored, cur) /\ cur \in Nat
        BY StoredNumbered DEF Numbers, BuffersNumbered
    <2>5. Starts(Stored, Program(Stored, EraseOp), offs, Blank)
        <3>1. /\ EraseOp.at = s * SECTOR /\ DOMAIN EraseOp.cells = 1 .. SECTOR
              /\ SECTOR \in 1 .. SECTOR /\ EraseOp.cells[1] = Blank /\ EraseOp.at = offs
            BY <2>3, SizesAssumption DEF EraseOp
        <3>2. Stored = [i \in Cells |-> Stored[i]]
            BY <2>4 DEF Numbered
        <3> QED BY <3>1, <3>2, ProgramStarts
    <2>6. Numbered(Stored', cur) /\ Fewer(Stored, Stored')
        BY <2>1, <2>4, <2>5, ErasedNumbers
    <2>7. ChipNumbered'
        BY <1>1, <2>1, <2>4, <2>6, StillNumbered DEF Numbers
    <2>8. BuffersNumbered'
        BY <1>1 DEF Numbers, BuffersNumbered
    <2>9. WrittenOnce'
        BY <1>1, <2>2, <2>6 DEF Numbers, WrittenOnce, Fewer
    <2>10. OneInside' /\ Steps'
        BY <1>1, OutsideAgain DEF Numbers
    <2>11. Position'
        BY <1>1, <2>2 DEF Numbers, Position
    <2> QED BY <2>1, <2>7, <2>8, <2>9, <2>10, <2>11 DEF Numbers
<1> QED BY <1>2, <1>3 DEF Erase

LEMMA WriteNumbers ==
    ASSUME IInv, IsQueue(queue), Numbers, NEW c \in Callers, Write(c)
    PROVE  Numbers' /\ IsQueue(queue')
<1>1. /\ buf' = buf /\ f' = f /\ cur' = cur /\ offs' = offs /\ state' = state
      /\ Inside(c) /\ frame[c].at = "write"
    BY AtInside DEF Write, logVars
<1>2. CASE Refused(c) /\ Go(c, "loop", 0)
    BY <1>1, <1>2, RefusedNumbers
<1>3. CASE Accepted(c, WriteOp(frame[c].b)) /\ Go(c, "wrote", frame[c].b)
    <2>1. /\ frame[c].b = f /\ state = "WRITTING" /\ InUse(buf[f]) /\ offs % SECTOR = 0
          /\ f \in Buffers
        BY <1>1 DEF Numbers, Steps, InsideOK, Position, IInv
    <2>2. IsQueue(queue') /\ Stored' = Program(Stored, WriteOp(f)) /\ NothingElse
        BY <1>3, <2>1, Added
    <2>3. PICK s \in Sectors : offs = s * SECTOR
        BY <2>1, AtSector DEF Numbers, Position
    <2>4. Numbered(Stored, cur) /\ cur \in Nat
        BY StoredNumbered DEF Numbers, BuffersNumbered
    <2>5. /\ buf[f].data[1] = Hdr(Num(buf[f])) /\ Num(buf[f]) \in Nat /\ Num(buf[f]) < cur
        BY <2>1 DEF Numbers, BuffersNumbered
    <2>6. Starts(Stored, Stored', offs, Hdr(Num(buf[f])))
        <3>1. PICK S : buf[f] \in [state : {"FREE", "WRITTING", "WRITTEN"}, data : Seq(S)]
            BY <2>1 DEF IInv, IsBuffer
        <3>2. Len(buf[f].data) \in 1 .. SECTOR /\ DOMAIN buf[f].data = 1 .. Len(buf[f].data)
            <4>1. Lengths(buf[f]) /\ InUse(buf[f])
                BY <2>1 DEF IInv
            <4>2. buf[f].data \in Seq(S) /\ buf[f].state \in {"FREE", "WRITTING", "WRITTEN"}
                BY <3>1
            <4>3. DOMAIN buf[f].data = 1 .. Len(buf[f].data)
                BY <4>2, LenProperties
            <4> QED BY <4>1, <4>2, <4>3, SizesAssumption DEF Lengths, InUse
        <3>3. WriteOp(f).at = s * SECTOR /\ WriteOp(f).cells = buf[f].data /\ WriteOp(f).at = offs
            BY <2>3 DEF WriteOp
        <3>4. Stored = [i \in Cells |-> Stored[i]]
            BY <2>4 DEF Numbered
        <3>5. Starts(Stored, Program(Stored, WriteOp(f)), offs, buf[f].data[1])
            BY <3>2, <3>3, <3>4, ProgramStarts
        <3> QED BY <2>2, <2>5, <3>5
    <2>7. \A t \in Headers(Stored) : SeqAt(Stored, t) = Num(buf[f]) => t = s
        <3>1. \A t \in Headers(Stored) : SeqAt(Stored, t) = Num(buf[f]) => t * SECTOR = s * SECTOR
            BY <2>1, <2>3 DEF Numbers, WrittenOnce
        <3> QED BY <3>1, SectorOnce, HeadersAre
    <2>8. Numbered(Stored', cur) /\ OneMore(Stored, Stored', offs, Num(buf[f]))
        <3>0. PICK gl : gl = Stored'
            OBVIOUS
        <3>1. PICK m \in Nat : m = Num(buf[f]) /\ m < cur
            BY <2>5
        <3>2. Starts(Stored, gl, s * SECTOR, Hdr(m))
            BY <2>3, <2>6, <3>0, <3>1
        <3>3. Numbered(gl, cur) /\ OneMore(Stored, gl, s * SECTOR, m)
            BY <2>4, <2>7, <3>1, <3>2, WrittenNumbers
        <3> QED BY <2>3, <3>0, <3>1, <3>3
    <2>9. ChipNumbered'
        BY <1>1, <2>2, <2>4, <2>8, StillNumbered DEF Numbers
    <2>10. BuffersNumbered'
        BY <1>1 DEF Numbers, BuffersNumbered
    <2>11. WrittenOnce'
        <3> SUFFICES ASSUME NEW i \in Buffers, NEW t \in Headers(Stored'),
                            InUse(buf[i]), SeqAt(Stored', t) = Num(buf[i])
                     PROVE  i = f /\ state = "WRITTING" /\ t * SECTOR = offs
            BY <1>1 DEF WrittenOnce
        <3>1. CASE t \in Headers(Stored) /\ SeqAt(Stored', t) = SeqAt(Stored, t)
            BY <3>1 DEF Numbers, WrittenOnce
        <3>2. CASE t * SECTOR = offs /\ SeqAt(Stored', t) = Num(buf[f])
            BY <2>1, <3>2 DEF Numbers, BuffersNumbered
        <3> QED BY <2>8, <3>1, <3>2 DEF OneMore
    <2>12. OneInside' /\ \A d \in Callers : Inside(d)' => d = c
        BY <1>1, <1>3, OthersOutside, AloneInside DEF Numbers
    <2>13. frame'[c] = [at |-> "wrote", b |-> f]
        BY <1>3, <2>1, GoFrame DEF Numbers
    <2>14. Steps'
        BY <1>1, <2>1, <2>12, <2>13 DEF Steps, InsideOK
    <2>15. Position'
        BY <1>1 DEF Numbers, Position
    <2> QED BY <2>2, <2>9, <2>10, <2>11, <2>12, <2>14, <2>15 DEF Numbers
<1> QED BY <1>2, <1>3 DEF Write

LEMMA SetFreeNumbers ==
    ASSUME IInv, IsQueue(queue), Numbers, NEW c \in Callers, SetFree(c)
    PROVE  Numbers' /\ IsQueue(queue')
<1>1. /\ f' = f /\ cur' = cur /\ offs' = offs /\ state' = state
      /\ flash' = flash /\ queue' = queue
      /\ buf' = [buf EXCEPT ![frame[c].b].state = "FREE"] /\ Go(c, "freed", frame[c].b)
      /\ Inside(c) /\ frame[c].at = "wrote"
    BY AtInside DEF SetFree, chipVars
<1>2. frame[c].b = f /\ state = "WRITTING" /\ f \in Buffers
    BY <1>1 DEF Numbers, Steps, InsideOK, IInv
<1>3. Stored' = Stored /\ NothingElse /\ IsQueue(queue')
    BY <1>1, SameChip
<1>4. /\ \A i \in Buffers : i # f => buf'[i] = buf[i]
      /\ ~InUse(buf'[f])
    <2>1. buf = [i \in Buffers |-> buf[i]]
        BY DEF IInv
    <2>2. \A i \in Buffers : i # f => buf'[i] = buf[i]
        BY <1>1, <1>2, <2>1
    <2>3. PICK S : buf[f] \in [state : {"FREE", "WRITTING", "WRITTEN"}, data : Seq(S)]
        BY <1>2 DEF IInv, IsBuffer
    <2>4. buf'[f] = [buf[f] EXCEPT !.state = "FREE"]
        BY <1>1, <1>2, <2>1
    <2>5. buf'[f].state = "FREE"
        BY <2>3, <2>4
    <2> QED BY <2>2, <2>5 DEF InUse
<1>5. \A i \in Buffers : InUse(buf'[i]) => i # f /\ buf'[i] = buf[i] /\ InUse(buf[i])
    BY <1>4
<1>6. ChipNumbered'
    BY <1>1, <1>3, StoredNumbered, StillNumbered DEF Numbers, BuffersNumbered
<1>7. BuffersNumbered'
    <2> PICK b : b = buf'
        OBVIOUS
    <2> QED BY <1>1, <1>5 DEF Numbers, BuffersNumbered
<1>8. WrittenOnce'
    BY <1>1, <1>3, <1>5 DEF Numbers, WrittenOnce
<1>9. OneInside' /\ \A d \in Callers : Inside(d)' => d = c
    BY <1>1, OthersOutside, AloneInside DEF Numbers
<1>10. frame'[c] = [at |-> "freed", b |-> f]
    BY <1>1, <1>2, GoFrame DEF Numbers
<1>11. Steps'
    BY <1>1, <1>2, <1>4, <1>9, <1>10 DEF Steps, InsideOK
<1>12. Position'
    BY <1>1 DEF Numbers, Position
<1> QED BY <1>3, <1>6, <1>7, <1>8, <1>9, <1>11, <1>12 DEF Numbers

LEMMA AdvanceNumbers ==
    ASSUME IInv, IsQueue(queue), Numbers, NEW c \in Callers, Advance(c)
    PROVE  Numbers' /\ IsQueue(queue')
<1> DEFINE to == offs + Len(buf[frame[c].b].data)
<1>1. /\ f' = NextBuf(f) /\ cur' = cur /\ state' = "IDLE" /\ buf' = buf
      /\ flash' = flash /\ queue' = queue
      /\ offs' = (IF to >= Size THEN 0 ELSE to) /\ Go(c, "loop", 0)
      /\ Inside(c) /\ frame[c].at = "freed"
    BY AtInside DEF Advance, chipVars
<1>2. frame[c].b = f /\ state = "WRITTING" /\ f \in Buffers
      /\ \A s \in Headers(Stored) : InUse(buf[f]) => SeqAt(Stored, s) # Num(buf[f])
    BY <1>1 DEF Numbers, Steps, InsideOK, IInv
<1>3. Stored' = Stored /\ NothingElse /\ IsQueue(queue')
    BY <1>1, SameChip
<1>4. \A i \in Buffers, s \in Headers(Stored) : InUse(buf[i]) => SeqAt(Stored, s) # Num(buf[i])
    BY <1>2 DEF Numbers, WrittenOnce
<1>5. ChipNumbered'
    BY <1>1, <1>3, StoredNumbered, StillNumbered DEF Numbers, BuffersNumbered
<1>6. BuffersNumbered'
    BY <1>1 DEF Numbers, BuffersNumbered
<1>7. WrittenOnce'
    BY <1>1, <1>3, <1>4 DEF WrittenOnce
<1>8. OneInside' /\ Steps'
    BY <1>1, OutsideAgain DEF Numbers
<1>9. Position'
    <2>1. PICK S : buf[f] \in [state : {"FREE", "WRITTING", "WRITTEN"}, data : Seq(S)]
        BY <1>2 DEF IInv, IsBuffer
    <2>2. Len(buf[f].data) \in Nat
        BY <2>1, LenProperties
    <2>3. offs \in Cells /\ Size \in Nat
        BY SectorCells DEF Numbers, Position
    <2>4. Len(buf[frame[c].b].data) \in Nat
        BY <1>2, <2>2
    <2>5. PICK n \in Nat : n = to
        BY <2>3, <2>4 DEF Cells
    <2>6. (IF n >= Size THEN 0 ELSE n) \in Cells
        <3>1. 0 < Size
            BY <2>3 DEF Cells
        <3> QED BY <2>3, <3>1 DEF Cells
    <2>7. offs' \in Cells
        BY <1>1, <2>5, <2>6
    <2> QED BY <1>1, <2>7 DEF Position
<1> QED BY <1>3, <1>5, <1>6, <1>7, <1>8, <1>9 DEF Numbers

-----------------------------------------------------------------------------
(***************************************************************************)
(* Tracing                                                                 *)
(***************************************************************************)

(* What a trace does to the numbers of the buffers: a buffer keeps its     *)
(* own, or has one that was never given.                                   *)
Kept(i) == InUse(buf[i]) /\ buf'[i].data[1] = buf[i].data[1]
Fresh(i) ==
    buf'[i].data[1] = Hdr(Num(buf'[i])) /\ Num(buf'[i]) \in Nat
    /\ cur <= Num(buf'[i]) /\ Num(buf'[i]) < cur'

LEMMA FirstCell ==
    ASSUME NEW d, IsSeq(d), Len(d) \in Nat \ {0}, NEW from, NEW n \in Nat
    PROVE  /\ Filling(d \o Pieces(from, n)).data[1] = d[1]
           /\ Full(d \o Pieces(from, n)).data[1] = d[1]
           /\ InUse(Filling(d \o Pieces(from, n)))
           /\ InUse(Full(d \o Pieces(from, n)))
<1> DEFINE e == d \o Pieces(from, n)
<1>1. PICK S : d \in Seq(S)
    BY DEF IsSeq
<1> DEFINE T == S \cup {Log(from + i) : i \in 1..n}
           p == Pieces(from, n)
<1>2. p \in Seq(T)
    <2>1. \A i \in 1..n : Log(from + i) \in T
        OBVIOUS
    <2>2. p = [i \in 1..n |-> Log(from + i)]
        BY DEF Pieces
    <2> HIDE DEF T
    <2> QED BY <2>1, <2>2
<1>3. d \in Seq(T)
    <2>1. Len(d) \in Nat /\ d \in [1 .. Len(d) -> S]
        BY <1>1, LenProperties
    <2>2. d \in [1 .. Len(d) -> T]
        BY <2>1
    <2> QED BY <2>1, <2>2, SeqDef
<1> HIDE DEF T, p
<1>4. \A i \in 1 .. Len(d) + Len(p) : (d \o p)[i] = IF i <= Len(d) THEN d[i] ELSE p[i - Len(d)]
    BY <1>2, <1>3, ConcatProperties
<1>5. Len(p) \in Nat /\ 1 \in 1 .. Len(d) + Len(p) /\ 1 <= Len(d)
    BY <1>2, LenProperties
<1>6. e[1] = d[1]
    BY <1>4, <1>5 DEF p
<1> HIDE DEF e
<1>7. /\ Filling(e).data[1] = d[1] /\ Full(e).data[1] = d[1]
      /\ InUse(Filling(e)) /\ InUse(Full(e))
    BY <1>6 DEF Filling, Full, InUse
<1> QED BY <1>7 DEF e

(* The header of the buffer that is traced to.                             *)
LEMMA StartedHeader ==
    ASSUME IInv, BuffersNumbered
    PROVE  \/ /\ InUse(buf[w]) /\ Started(w)[1] = buf[w].data[1] /\ Number(w) = cur
           \/ /\ Started(w)[1] = Hdr(cur) /\ Number(w) = cur + 1
<1>1. CASE buf[w].state = "WRITTING"
    BY <1>1 DEF InUse, Started, Number
<1>2. CASE buf[w].state # "WRITTING"
    BY <1>2 DEF InUse, Started, Number
<1> QED BY <1>1, <1>2

LEMMA TracedHeader ==
    ASSUME IInv, BuffersNumbered, buf'[w].data[1] = Started(w)[1],
           cur' \in Nat, Number(w) <= cur'
    PROVE  Kept(w) \/ (Fresh(w) /\ Num(buf'[w]) = cur /\ Number(w) = cur + 1)
<1>1. CASE InUse(buf[w]) /\ Started(w)[1] = buf[w].data[1]
    BY <1>1 DEF Kept
<1>2. CASE Started(w)[1] = Hdr(cur) /\ Number(w) = cur + 1
    <2>1. buf'[w].data[1] = Hdr(cur)
        BY <1>2
    <2>2. Num(buf'[w]) = cur
        BY <2>1, CellKinds DEF Num
    <2>3. PICK n \in Nat, m \in Nat : n = cur /\ m = cur'
        BY DEF BuffersNumbered
    <2>4. n < m
        BY <1>2, <2>3
    <2> QED BY <1>2, <2>1, <2>2, <2>3, <2>4 DEF Fresh
<1> QED BY <1>1, <1>2, StartedHeader

Apart(i, j) ==
    InUse(buf'[i]) /\ InUse(buf'[j]) /\ Num(buf'[i]) = Num(buf'[j]) =>
        Kept(i) \/ Kept(j) \/ i = j
Traced ==
    /\ cur' \in Nat /\ cur <= cur'
    /\ \A i \in Buffers : InUse(buf[i]) => InUse(buf'[i])
    /\ \A i \in Buffers : InUse(buf'[i]) => Kept(i) \/ Fresh(i)
    /\ \A i, j \in Buffers : Apart(i, j)

LEMMA OutputTraced ==
    ASSUME IInv, BuffersNumbered, NEW n \in 1..MaxLine, Output(n)
    PROVE  Traced
<1> DEFINE d == Started(w)
           room == SECTOR - Len(d)
           rest == n - room
           next == NextBuf(w)
<1>1. IsSeq(d) /\ Len(d) \in 1 .. (SECTOR - 1) /\ Len(d) \in Nat \ {0}
    BY StartedHasRoom
<1>2. n \in Nat /\ room \in Nat /\ rest \in Int /\ (rest > 0 => rest \in Nat)
    BY <1>1, SizesAssumption
<1>3. w \in Buffers /\ next \in Buffers /\ next # w /\ buf = [i \in Buffers |-> buf[i]]
    BY NextInRing DEF IInv
<1>4. cur \in Nat /\ Number(w) \in Nat /\ cur <= Number(w)
    BY DEF BuffersNumbered, Number
<1>5. ASSUME NEW e, InUse(e), e.data[1] = d[1], cur' = Number(w),
             \A i \in Buffers : buf'[i] = IF i = w THEN e ELSE buf[i]
      PROVE  Traced
    <2>1. cur' \in Nat /\ cur <= cur' /\ Number(w) <= cur'
        BY <1>4, <1>5
    <2>2. buf'[w].data[1] = Started(w)[1]
        BY <1>3, <1>5
    <2>3. Kept(w) \/ Fresh(w)
        BY <2>1, <2>2, TracedHeader
    <2>4. \A i \in Buffers : i # w /\ InUse(buf'[i]) => Kept(i)
        BY <1>5 DEF Kept
    <2>5. \A i \in Buffers : InUse(buf[i]) => InUse(buf'[i])
        BY <1>5
    <2>6. \A i \in Buffers : InUse(buf'[i]) => Kept(i) \/ Fresh(i)
        BY <2>3, <2>4
    <2>7. ASSUME NEW i \in Buffers, NEW j \in Buffers PROVE Apart(i, j)
        <3>1. i # w => ~InUse(buf'[i]) \/ Kept(i)
            BY <2>4
        <3>2. j # w => ~InUse(buf'[j]) \/ Kept(j)
            BY <2>4
        <3> QED BY ONLY <3>1, <3>2 DEF Apart
    <2> QED BY ONLY <2>1, <2>5, <2>6, <2>7 DEF Traced
<1>6. ASSUME NEW e, InUse(e), e.data[1] = d[1], cur' = Number(w) + 1,
             NEW g, InUse(g), g.data[1] = Hdr(Number(w)),
             \A i \in Buffers : buf'[i] = IF i = next THEN g ELSE IF i = w THEN e ELSE buf[i]
      PROVE  Traced
    <2>0. buf'[w] = e /\ buf'[next] = g
        BY <1>3, <1>6
    <2>1. cur' \in Nat /\ cur <= cur' /\ Number(w) <= cur' /\ Number(w) < cur'
        BY <1>4, <1>6
    <2>2. buf'[w].data[1] = Started(w)[1]
        BY <1>6, <2>0
    <2>3. Kept(w) \/ (Fresh(w) /\ Num(buf'[w]) = cur /\ Number(w) = cur + 1)
        BY <2>1, <2>2, TracedHeader
    <2>4. Fresh(next) /\ Num(buf'[next]) = Number(w)
        <3>1. Num(g) = Number(w)
            BY <1>6, CellKinds DEF Num
        <3>2. g.data[1] = Hdr(Num(g)) /\ Num(g) \in Nat /\ cur <= Num(g) /\ Num(g) < cur'
            BY <1>4, <1>6, <2>1, <3>1
        <3> QED BY <2>0, <3>1, <3>2 DEF Fresh
    <2>5. \A i \in Buffers : i # w /\ i # next /\ InUse(buf'[i]) => Kept(i)
        BY <1>6 DEF Kept
    <2>6. \A i \in Buffers : InUse(buf[i]) => InUse(buf'[i])
        BY <1>6
    <2>7. Kept(w) \/ Num(buf'[w]) # Num(buf'[next])
        BY <1>4, <2>3, <2>4
    <2>8. \A i \in Buffers : InUse(buf'[i]) => Kept(i) \/ Fresh(i)
        BY <2>3, <2>4, <2>5
    <2>9. ASSUME NEW i \in Buffers, NEW j \in Buffers PROVE Apart(i, j)
        <3>1. i # w /\ i # next => ~InUse(buf'[i]) \/ Kept(i)
            BY <2>5
        <3>2. j # w /\ j # next => ~InUse(buf'[j]) \/ Kept(j)
            BY <2>5
        <3> HIDE DEF next
        <3> QED BY ONLY <2>7, <3>1, <3>2 DEF Apart
    <2> QED BY ONLY <2>1, <2>6, <2>8, <2>9 DEF Traced
<1>7. CASE buf' = [buf EXCEPT ![w] = Filling(d \o Pieces(logged, n))] /\ cur' = Number(w)
    <2> DEFINE e == Filling(d \o Pieces(logged, n))
    <2>1. InUse(e) /\ e.data[1] = d[1]
        BY <1>1, <1>2, FirstCell
    <2>2. \A i \in Buffers : buf'[i] = IF i = w THEN e ELSE buf[i]
        BY <1>3, <1>7
    <2> HIDE DEF e, d
    <2> QED BY <1>5, <1>7, <2>1, <2>2
<1>8. CASE buf' = [buf EXCEPT ![w] = Full(d \o Pieces(logged, room))] /\ cur' = Number(w)
    <2> DEFINE e == Full(d \o Pieces(logged, room))
    <2>1. InUse(e) /\ e.data[1] = d[1]
        BY <1>1, <1>2, FirstCell
    <2>2. \A i \in Buffers : buf'[i] = IF i = w THEN e ELSE buf[i]
        BY <1>3, <1>8
    <2> HIDE DEF e, d
    <2> QED BY <1>5, <1>8, <2>1, <2>2
<1>9. CASE /\ rest > 0 /\ cur' = Number(w) + 1
           /\ buf' = [buf EXCEPT
                ![w] = Full(d \o Pieces(logged, room)),
                ![next] = Filling(<<Hdr(Number(w))>> \o Pieces(logged + room, rest))]
    <2> DEFINE e == Full(d \o Pieces(logged, room))
               h == <<Hdr(Number(w))>>
               g == Filling(h \o Pieces(logged + room, rest))
    <2>1. InUse(e) /\ e.data[1] = d[1]
        BY <1>1, <1>2, FirstCell
    <2>2. h \in Seq({Hdr(Number(w))}) /\ Len(h) = 1 /\ h[1] = Hdr(Number(w))
        OBVIOUS
    <2>3. IsSeq(h) /\ Len(h) \in Nat \ {0}
        <3> HIDE DEF h
        <3> QED BY <2>2 DEF IsSeq
    <2>4. rest \in Nat
        BY <1>2, <1>9
    <2>5. InUse(g) /\ g.data[1] = h[1]
        <3> HIDE DEF h, rest, room
        <3> QED BY <2>3, <2>4, FirstCell
    <2>6. \A i \in Buffers : buf'[i] = IF i = next THEN g ELSE IF i = w THEN e ELSE buf[i]
        BY <1>3, <1>9
    <2>7. g.data[1] = Hdr(Number(w))
        BY <2>2, <2>5
    <2> HIDE DEF e, d, g, next
    <2> QED BY <1>6, <1>9, <2>1, <2>5, <2>6, <2>7
<1> QED BY <1>7, <1>8, <1>9 DEF Output

-----------------------------------------------------------------------------
(***************************************************************************)
(* All the steps                                                           *)
(***************************************************************************)

LEMMA OutputNumbers ==
    ASSUME IInv, IsQueue(queue), Numbers, NEW n \in 1..MaxLine, Output(n)
    PROVE  Numbers' /\ IsQueue(queue')
<1>1. /\ f' = f /\ state' = state /\ offs' = offs /\ frame' = frame
      /\ flash' = flash /\ queue' = queue /\ f \in Buffers
    BY DEF Output, flushVars, chipVars, IInv
<1>2. Traced
    BY OutputTraced DEF Numbers
<1>3. Stored' = Stored /\ NothingElse /\ IsQueue(queue')
    BY <1>1, SameChip
<1>4. Numbered(Stored, cur) /\ cur \in Nat
    BY StoredNumbered DEF Numbers, BuffersNumbered
<1>5. ChipNumbered'
    BY <1>2, <1>3, <1>4, StillNumbered DEF Numbers, Traced
<1>6. \A s \in Headers(Stored) : SeqAt(Stored, s) \in Nat /\ SeqAt(Stored, s) < cur
    BY <1>4 DEF Numbered
<1>7. ASSUME NEW i \in Buffers, InUse(buf'[i]), Kept(i)
      PROVE  /\ buf'[i].data[1] = Hdr(Num(buf'[i])) /\ Num(buf'[i]) = Num(buf[i])
             /\ Num(buf'[i]) \in Nat /\ Num(buf'[i]) < cur /\ InUse(buf[i])
    <2>1. InUse(buf[i]) /\ Num(buf'[i]) = Num(buf[i]) /\ buf'[i].data[1] = buf[i].data[1]
        BY <1>7 DEF Kept, Num
    <2>2. buf[i].data[1] = Hdr(Num(buf[i])) /\ Num(buf[i]) \in Nat /\ Num(buf[i]) < cur
        BY <2>1 DEF Numbers, BuffersNumbered
    <2> QED BY <2>1, <2>2
<1>8. ASSUME NEW i \in Buffers, InUse(buf'[i]), ~Kept(i)
      PROVE  /\ buf'[i].data[1] = Hdr(Num(buf'[i])) /\ Num(buf'[i]) \in Nat
             /\ cur <= Num(buf'[i]) /\ Num(buf'[i]) < cur'
    BY <1>2, <1>8 DEF Traced, Fresh
<1>9. BuffersNumbered'
    <2>1. cur' \in Nat /\ cur <= cur'
        BY <1>2 DEF Traced
    <2>2. ASSUME NEW i \in Buffers, InUse(buf'[i])
          PROVE  buf'[i].data[1] = Hdr(Num(buf'[i])) /\ Num(buf'[i]) \in Nat /\ Num(buf'[i]) < cur'
        <3>1. CASE Kept(i)
            <4>1. PICK a \in Nat : a = Num(buf'[i]) /\ a < cur
                BY <1>7, <2>2, <3>1
            <4>2. PICK m \in Nat : m = cur' /\ cur <= m
                BY <2>1
            <4>3. a < m
                BY <1>4, <4>1, <4>2
            <4> QED BY <1>7, <2>2, <3>1, <4>1, <4>2, <4>3
        <3>2. CASE ~Kept(i)
            BY <1>8, <2>2, <3>2
        <3> QED BY <3>1, <3>2
    <2>3. ASSUME NEW i \in Buffers, NEW j \in Buffers, InUse(buf'[i]), InUse(buf'[j]),
                 Num(buf'[i]) = Num(buf'[j])
          PROVE  i = j
        <3>1. CASE Kept(i) /\ Kept(j)
            BY <1>7, <2>3, <3>1 DEF Numbers, BuffersNumbered
        <3>2. CASE Kept(i) /\ ~Kept(j)
            BY <1>4, <1>7, <1>8, <2>3, <3>2
        <3>3. CASE ~Kept(i) /\ Kept(j)
            BY <1>4, <1>7, <1>8, <2>3, <3>3
        <3>4. CASE ~Kept(i) /\ ~Kept(j)
            BY <1>2, <2>3, <3>4 DEF Traced, Apart
        <3> QED BY <3>1, <3>2, <3>3, <3>4
    <2> QED BY <2>1, <2>2, <2>3 DEF BuffersNumbered
<1>10. ASSUME NEW i \in Buffers, NEW s \in Headers(Stored), InUse(buf'[i]),
              SeqAt(Stored, s) = Num(buf'[i])
       PROVE  InUse(buf[i]) /\ SeqAt(Stored, s) = Num(buf[i])
    <2>1. CASE Kept(i)
        BY <1>7, <1>10, <2>1
    <2>2. CASE ~Kept(i)
        BY <1>4, <1>6, <1>8, <1>10, <2>2
    <2> QED BY <2>1, <2>2
<1>11. WrittenOnce'
    <2> SUFFICES ASSUME NEW i \in Buffers, NEW s \in Headers(Stored), InUse(buf'[i]),
                        SeqAt(Stored, s) = Num(buf'[i])
                 PROVE  i = f /\ state = "WRITTING" /\ s * SECTOR = offs
        BY <1>1, <1>3 DEF WrittenOnce
    <2> QED BY <1>10 DEF Numbers, WrittenOnce
<1>12. OneInside' /\ \A c \in Callers : Inside(c)' => Inside(c)
    BY <1>1 DEF Numbers, OneInside, Inside
<1>13. Steps'
    <2> SUFFICES ASSUME NEW c \in Callers, Inside(c)' PROVE InsideOK(c)'
        BY DEF Steps
    <2>1. InsideOK(c)
        BY <1>12 DEF Numbers, Steps
    <2>2. InUse(buf[f]) => InUse(buf'[f])
        BY <1>1, <1>2 DEF Traced
    <2>3. frame[c].at = "freed" =>
             \A s \in Headers(Stored) : InUse(buf'[f]) => SeqAt(Stored, s) # Num(buf'[f])
        BY <1>1, <1>10, <2>1 DEF InsideOK
    <2> QED BY <1>1, <1>3, <2>1, <2>2, <2>3 DEF InsideOK
<1>14. Position'
    BY <1>1 DEF Numbers, Position
<1> QED BY <1>3, <1>5, <1>9, <1>11, <1>12, <1>13, <1>14 DEF Numbers

(* The greatest number of a flash.                                         *)
LEMMA GreatestHeader ==
    ASSUME NEW fl, NEW n \in Nat, Numbered(fl, n), Headers(fl) # {}
    PROVE  \E t \in Headers(fl) : \A u \in Headers(fl) : SeqAt(fl, u) <= SeqAt(fl, t)
<1> DEFINE T == {n - SeqAt(fl, u) : u \in Headers(fl)}
<1>1. \A u \in Headers(fl) : SeqAt(fl, u) \in Nat /\ SeqAt(fl, u) < n
    BY DEF Numbered
<1>2. \A m \in T : m \in Nat
    BY <1>1
<1>3. \A m : m \in T <=> \E u \in Headers(fl) : m = n - SeqAt(fl, u)
    OBVIOUS
<1>4. PICK h \in Headers(fl) : TRUE
    OBVIOUS
<1>5. n - SeqAt(fl, h) \in T
    BY <1>3, <1>4
<1> HIDE DEF T
<1>6. PICK m \in T : \A k \in T : m <= k
    BY <1>2, <1>5, LeastElement
<1>7. PICK t \in Headers(fl) : m = n - SeqAt(fl, t)
    BY <1>3, <1>6
<1>8. ASSUME NEW u \in Headers(fl) PROVE SeqAt(fl, u) <= SeqAt(fl, t)
    <2>1. n - SeqAt(fl, u) \in T
        BY <1>3
    <2>2. n - SeqAt(fl, t) <= n - SeqAt(fl, u)
        BY <1>6, <1>7, <2>1
    <2> QED BY <1>1, <2>2
<1> QED BY <1>8

LEMMA FromHeaders ==
    ASSUME NEW fl, NEW n \in Nat, Numbered(fl, n)
    PROVE  /\ GetSeqnum(fl).seqnum \in Nat
           /\ Numbered(fl, GetSeqnum(fl).seqnum)
           /\ GetSeqnum(fl).sector \in Sectors
<1>1. SECTORS \in Nat /\ SECTORS >= 2 /\ 0 \in Sectors /\ 1 \in Sectors
    BY SizesAssumption DEF Sectors
<1>2. CASE Headers(fl) = {}
    <2>1. GetSeqnum(fl).seqnum = 0 /\ GetSeqnum(fl).sector = 0
        BY <1>2 DEF GetSeqnum
    <2>2. Numbered(fl, 0)
        BY <1>2 DEF Numbered
    <2> QED BY <1>1, <2>1, <2>2
<1>3. CASE Headers(fl) # {}
    <2> DEFINE top == CHOOSE i \in Headers(fl) :
                        \A j \in Headers(fl) : SeqAt(fl, j) <= SeqAt(fl, i)
    <2>1. top \in Headers(fl) /\ \A j \in Headers(fl) : SeqAt(fl, j) <= SeqAt(fl, top)
        BY <1>3, GreatestHeader
    <2>2. /\ GetSeqnum(fl).seqnum = SeqAt(fl, top) + 1
          /\ GetSeqnum(fl).sector = IF SeqAt(fl, top) = 0 THEN 1 ELSE (top + 1) % SECTORS
        BY <1>3 DEF GetSeqnum
    <2> HIDE DEF top
    <2>3. SeqAt(fl, top) \in Nat /\ top \in Nat
        BY <2>1, HeadersAre DEF Numbered, Sectors
    <2>4. Numbered(fl, SeqAt(fl, top) + 1)
        <3>1. \A j \in Headers(fl) : SeqAt(fl, j) \in Nat /\ SeqAt(fl, j) < SeqAt(fl, top) + 1
            BY <2>1, <2>3 DEF Numbered
        <3> QED BY <3>1 DEF Numbered
    <2>5. (top + 1) % SECTORS \in Sectors
        BY <1>1, <2>3 DEF Sectors
    <2> QED BY <1>1, <2>2, <2>3, <2>4, <2>5
<1> QED BY <1>2, <1>3

LEMMA EmptyQueue ==
    /\ IsQueue(<<>>)
    /\ (queue = <<>> => Stored = flash /\ \A k \in 0 .. Len(queue) : After(k) = flash)
<1>1. <<>> \in Seq({}) /\ Len(<<>>) = 0
    BY EmptySeq
<1>2. ASSUME queue = <<>> PROVE Stored = flash /\ \A k \in 0 .. Len(queue) : After(k) = flash
    <2>1. Len(queue) = 0 /\ Len(queue) \in Nat
        BY <1>1, <1>2
    <2>2. Run(flash, queue, 0) = flash
        BY <2>1, RunSteps DEF ByStep
    <2>3. \A k \in 0 .. Len(queue) : k = 0
        BY <2>1
    <2> QED BY <2>1, <2>2, <2>3, AfterRun
<1> QED BY <1>1, <1>2 DEF IsQueue

(* Nothing is pending, nobody inside: at the start and after a restart.    *)
Quiet ==
    /\ queue = <<>> /\ cur \in Nat /\ Numbered(flash, cur) /\ offs \in Cells
    /\ state = "IDLE" /\ frame = Rest /\ \A i \in Buffers : buf[i] = Free

LEMMA QuietNumbers == Quiet => Numbers
<1> SUFFICES ASSUME Quiet PROVE Numbers
    OBVIOUS
<1> USE DEF Quiet
<1>1. Stored = flash /\ ChipNumbered
    BY EmptyQueue DEF ChipNumbered
<1>2. \A i \in Buffers : ~InUse(buf[i])
    BY DEF InUse, Free
<1>3. BuffersNumbered /\ WrittenOnce
    BY <1>2 DEF BuffersNumbered, WrittenOnce
<1>4. frame = [c \in Callers |-> frame[c]] /\ \A c \in Callers : frame[c].at \in {"loop", "out"}
    BY DEF Rest
<1>5. OneInside /\ Steps
    BY <1>4 DEF OneInside, Steps, Inside
<1> QED BY <1>1, <1>3, <1>5 DEF Numbers, Position

LEMMA QuietNext == Quiet' => Numbers'
<1>1. Quiet => Numbers
    BY QuietNumbers
<1> QED BY <1>1, PTL

LEMMA RestartNumbers ==
    ASSUME IsQueue(queue), Numbers, Restart
    PROVE  Numbers'
<1>1. /\ queue' = <<>> /\ flash' = flash /\ cur' = GetSeqnum(flash).seqnum
      /\ offs' = GetSeqnum(flash).sector * SECTOR
      /\ state' = "IDLE" /\ frame' = Rest /\ buf' = [i \in Buffers |-> Free]
    BY DEF Restart
<1>2. Numbered(flash, cur) /\ cur \in Nat
    <2>1. PICK S : queue \in Seq(S)
        BY DEF IsQueue
    <2>2. Len(queue) \in Nat /\ 0 \in 0 .. Len(queue)
        BY <2>1, LenProperties
    <2>3. After(0) = flash
        BY <2>2, AfterRun, RunSteps DEF ByStep
    <2> QED BY <2>2, <2>3 DEF Numbers, ChipNumbered, BuffersNumbered
<1>3. /\ cur' \in Nat /\ Numbered(flash, cur') /\ GetSeqnum(flash).sector \in Sectors
    BY <1>1, <1>2, FromHeaders
<1>4. offs' \in Cells
    BY <1>1, <1>3, SectorCells
<1>5. \A i \in Buffers : buf'[i] = Free
    BY <1>1
<1>6. Numbered(flash, cur)'
    BY <1>1, <1>3
<1> QED BY <1>1, <1>3, <1>4, <1>5, <1>6, QuietNext DEF Quiet

LEMMA InitNumbers == Init => NInv
<1> SUFFICES ASSUME Init PROVE NInv
    OBVIOUS
<1>1. /\ queue = <<>> /\ cur = 0 /\ offs = 0 /\ state = "IDLE" /\ frame = Rest
      /\ buf = [i \in Buffers |-> Free] /\ flash = [i \in 0 .. (Size - 1) |-> Blank]
    BY DEF Init
<1>2. Size \in Nat /\ 0 \in Cells
    <2>1. 0 \in Sectors
        BY SizesAssumption DEF Sectors
    <2>2. 0 * SECTOR = 0
        BY SizesAssumption
    <2> QED BY <2>1, <2>2, SectorCells
<1>3. Numbered(flash, cur)
    <2>1. flash = [i \in Cells |-> flash[i]] /\ \A i \in Cells : flash[i] = Blank
        BY <1>1 DEF Cells
    <2>2. \A s \in Headers(flash) : FALSE
        BY <2>1, SectorCells, HeadersAre DEF IsHdr
    <2> QED BY <2>1, <2>2 DEF Numbered
<1>4. \A i \in Buffers : buf[i] = Free
    BY <1>1
<1>5. Quiet
    BY <1>1, <1>2, <1>3, <1>4 DEF Quiet
<1> QED BY <1>1, <1>5, QuietNumbers, EmptyQueue DEF NInv

(* The queue stays a queue, whatever the callers do to each other.         *)
LEMMA NextQueue == ASSUME IsQueue(queue), [Next]_vars PROVE IsQueue(queue')
<1>1. CASE queue' = queue
    BY <1>1
<1>2. CASE queue' = <<>>
    BY <1>2, EmptyQueue
<1>3. ASSUME NEW c, NEW op, Accepted(c, op) PROVE IsQueue(queue')
    BY <1>3, Added
<1>4. CASE Drain
    BY <1>4, Executed
<1>5. ASSUME NEW c \in Callers, Flush(c) PROVE IsQueue(queue')
    <2>1. CASE Erase(c)
        BY <1>3, <1>4, <2>1 DEF Erase, Refused
    <2>2. CASE Write(c)
        BY <1>3, <1>4, <2>2 DEF Write, Refused
    <2>3. CASE EnterErase(c) \/ EnterWrite(c) \/ SetFree(c) \/ Advance(c)
        BY <1>1, <2>3 DEF EnterErase, EnterWrite, SetFree, Advance, chipVars
    <2> QED BY <1>5, <2>1, <2>2, <2>3 DEF Flush
<1>6. CASE \E n \in 1..MaxLine : Output(n)
    BY <1>1, <1>6 DEF Output, chipVars
<1>7. CASE FlushAll \/ CrashStart \/ CrashEnd
    BY <1>1, <1>7 DEF FlushAll, CrashStart, CrashEnd, chipVars
<1>8. CASE RemainDone \/ Restart
    BY <1>2, <1>8 DEF RemainDone, Restart
<1>9. CASE UNCHANGED vars
    BY <1>1, <1>9 DEF vars, chipVars
<1> QED BY <1>4, <1>5, <1>6, <1>7, <1>8, <1>9 DEF Next, Execute

LEMMA NextNumbers == IInv /\ NInv /\ [Next]_vars => NInv'
<1> SUFFICES ASSUME IInv, NInv, [Next]_vars PROVE NInv'
    OBVIOUS
<1>1. IsQueue(queue) /\ IsQueue(queue')
    BY NextQueue DEF NInv
<1> SUFFICES ASSUME Calm' PROVE Numbers'
    BY <1>1 DEF NInv
<1>2. Calm
    <2>1. upset \subseteq upset' \/ upset' = upset
        BY DEF Next, Output, Flush, EnterErase, Enter, Erase, EnterWrite, Write, SetFree,
           Advance, RemainDone, FlushAll, CrashStart, CrashEnd, Execute, Restart,
           ghostVars, vars
    <2> QED BY <2>1 DEF Calm
<1>3. Numbers /\ OneInside
    BY <1>2 DEF NInv, Numbers
<1>4. CASE \E n \in 1..MaxLine : Output(n)
    BY <1>1, <1>3, <1>4, OutputNumbers
<1>5. ASSUME NEW c \in Callers, Flush(c) PROVE Numbers'
    <2>1. CASE EnterErase(c)
        BY <1>1, <1>3, <2>1, EnterEraseNumbers
    <2>2. CASE Erase(c)
        BY <1>1, <1>3, <2>2, EraseNumbers
    <2>3. CASE EnterWrite(c)
        BY <1>1, <1>3, <2>3, EnterWriteNumbers
    <2>4. CASE Write(c)
        BY <1>1, <1>3, <2>4, WriteNumbers
    <2>5. CASE SetFree(c)
        BY <1>1, <1>3, <2>5, SetFreeNumbers
    <2>6. CASE Advance(c)
        BY <1>1, <1>3, <2>6, AdvanceNumbers
    <2> QED BY <1>5, <2>1, <2>2, <2>3, <2>4, <2>5, <2>6 DEF Flush
<1>6. ASSUME buf' = buf, f' = f, cur' = cur, state' = state, offs' = offs,
             \/ Drain
             \/ flash' = Stored /\ queue' = <<>>
             \/ flash' = flash /\ queue' = queue,
             \/ frame' = frame
             \/ frame' = Rest
             \/ \E at \in {"loop", "out"} : Go("remain", at, 0)
      PROVE  Numbers'
    <2>1. Stored' = Stored /\ NothingElse
        BY <1>1, <1>6, Executed, AllExecuted, SameChip
    <2>2. /\ frame' = [c \in Callers |-> frame'[c]]
          /\ \A c \in Callers : frame'[c] = frame[c] \/ frame'[c].at \in {"loop", "out"}
        <3>1. CASE frame' = frame
            BY <1>3, <3>1 DEF OneInside
        <3>2. CASE frame' = Rest
            BY <3>2 DEF Rest
        <3>3. ASSUME NEW at \in {"loop", "out"}, Go("remain", at, 0)
              PROVE  /\ frame' = [c \in Callers |-> frame'[c]]
                     /\ \A c \in Callers : frame'[c] = frame[c] \/ frame'[c].at \in {"loop", "out"}
            <4>1. "remain" \in Callers
                BY DEF Callers
            <4>2. /\ frame' = [c \in Callers |-> frame'[c]]
                  /\ frame'["remain"] = [at |-> at, b |-> 0]
                  /\ \A c \in Callers \ {"remain"} : frame'[c] = frame[c]
                BY <1>3, <3>3, <4>1, GoFrame
            <4>3. frame'["remain"].at = at
                BY <4>2
            <4> QED BY <4>2, <4>3
        <3> QED BY <1>6, <3>1, <3>2, <3>3
    <2> QED BY <1>1, <1>3, <1>6, <2>1, <2>2, LeavingNumbers
<1>7. CASE RemainDone
    BY <1>6, <1>7 DEF RemainDone, logVars
<1>8. CASE FlushAll \/ CrashStart \/ CrashEnd
    BY <1>6, <1>8 DEF FlushAll, CrashStart, CrashEnd, logVars, chipVars
<1>9. CASE Execute
    BY <1>6, <1>9 DEF Execute, logVars, flushVars
<1>10. CASE Restart
    BY <1>1, <1>3, <1>10, RestartNumbers
<1>11. CASE UNCHANGED vars
    BY <1>6, <1>11 DEF vars, logVars, flushVars, chipVars
<1> QED BY <1>4, <1>5, <1>7, <1>8, <1>9, <1>10, <1>11 DEF Next

LEMMA NumbersImply == NInv => NumbersUnique
BY StoredNumbered DEF NInv, NumbersUnique, Calm, Numbers, Numbered

(* What log_dump_init goes by, _get_seqnum: after any crashes, power cuts  *)
(* and refused calls no number is on two sectors of the flash, and none is *)
(* as high as the next one, as long as the flush at switching off and the  *)
(* hook are not in _log_dump_flush at once.                                *)
THEOREM AlwaysNumbersUnique == Spec => []NumbersUnique
<1>1. IInv /\ NInv /\ [Next]_vars => (IInv /\ NInv)'
    BY NextInv, NextNumbers
<1> QED BY <1>1, InitInv, InitNumbers, NumbersImply, PTL DEF Spec

-----------------------------------------------------------------------------
(***************************************************************************)
(* The ring of buffers, from the one to be flushed next                    *)
(***************************************************************************)

(* How far behind buffer i buffer j is.                                    *)
Dist(i, j) == IF i <= j THEN j - i ELSE j - i + COUNT

LEMMA RingNext ==
    ASSUME NEW i \in Buffers
    PROVE  /\ i \in Nat /\ i < COUNT /\ COUNT \in Nat /\ COUNT >= 2
           /\ NextBuf(i) = IF i + 1 = COUNT THEN 0 ELSE i + 1
BY SizesAssumption, SMT DEF NextBuf, Buffers

LEMMA DistFacts ==
    ASSUME NEW i \in Buffers, NEW j \in Buffers
    PROVE  /\ Dist(i, j) \in Nat /\ Dist(i, j) < COUNT
           /\ Dist(i, j) = 0 <=> i = j
           /\ NextBuf(j) # i => Dist(i, NextBuf(j)) = Dist(i, j) + 1
           /\ i # j => Dist(NextBuf(i), j) = Dist(i, j) - 1
           /\ Dist(NextBuf(i), i) = COUNT - 1
<1>1. /\ i \in Nat /\ i < COUNT /\ j \in Nat /\ j < COUNT /\ COUNT \in Nat /\ COUNT >= 2
      /\ NextBuf(i) = IF i + 1 = COUNT THEN 0 ELSE i + 1
      /\ NextBuf(j) = IF j + 1 = COUNT THEN 0 ELSE j + 1
    BY RingNext
<1> QED BY ONLY <1>1 DEF Dist

LEMMA SameDist ==
    ASSUME NEW i \in Buffers, NEW j \in Buffers, NEW k \in Buffers, Dist(i, j) = Dist(i, k)
    PROVE  j = k
<1>1. /\ i \in Nat /\ i < COUNT /\ j \in Nat /\ j < COUNT /\ k \in Nat /\ k < COUNT
      /\ COUNT \in Nat
    BY RingNext
<1> QED BY <1>1 DEF Dist

-----------------------------------------------------------------------------
(***************************************************************************)
(* The cells of a sector                                                   *)
(***************************************************************************)

Cell(s, j) == s * SECTOR + j - 1
Places == 1 .. SECTOR

LEMMA CellsApart ==
    ASSUME NEW s \in Sectors, NEW j \in Places
    PROVE  /\ Cell(s, j) \in Cells /\ Cell(s, 1) = s * SECTOR
           /\ \A t \in Sectors, k \in Places : Cell(s, j) = Cell(t, k) => s = t /\ j = k
<1>1. SECTOR \in Nat /\ s \in Nat /\ j \in Nat /\ 1 <= j /\ j <= SECTOR
    BY SizesAssumption DEF Sectors, Places
<1>2. PICK a \in Nat : a = s * SECTOR /\ a + SECTOR <= Size /\ Size \in Nat
    BY SectorCells DEF Cells
<1>3. Cell(s, j) \in Cells
    <2>1. a + j - 1 \in 0 .. (Size - 1)
        BY <1>1, <1>2
    <2> QED BY <1>2, <2>1 DEF Cell, Cells
<1>4. Cell(s, 1) = s * SECTOR
    <2>1. a + 1 - 1 = a
        BY <1>2
    <2> QED BY <1>2, <2>1 DEF Cell
<1>5. ASSUME NEW t \in Sectors, NEW k \in Places, Cell(s, j) = Cell(t, k)
      PROVE  s = t /\ j = k
    <2>1. t \in Nat /\ k \in Nat /\ 1 <= k /\ k <= SECTOR
        BY <1>1 DEF Sectors, Places
    <2>2. PICK b \in Nat : b = t * SECTOR
        BY SectorCells DEF Cells
    <2>3. a + j - 1 = b + k - 1
        BY <1>2, <1>5, <2>2 DEF Cell
    <2>4. ~(s < t)
        <3> SUFFICES ASSUME s < t PROVE FALSE
            OBVIOUS
        <3>1. s * SECTOR + SECTOR <= t * SECTOR
            BY <1>1, <2>1, Spacing
        <3>2. a + SECTOR <= b
            BY <1>2, <2>2, <3>1
        <3> QED BY <1>1, <2>1, <2>3, <3>2
    <2>5. ~(t < s)
        <3> SUFFICES ASSUME t < s PROVE FALSE
            OBVIOUS
        <3>1. t * SECTOR + SECTOR <= s * SECTOR
            BY <1>1, <2>1, Spacing
        <3>2. b + SECTOR <= a
            BY <1>2, <2>2, <3>1
        <3> QED BY <1>1, <2>1, <2>3, <3>2
    <2>6. s = t
        BY <1>1, <2>1, <2>4, <2>5
    <2>7. a = b
        BY <1>2, <2>2, <2>6
    <2> QED BY <1>1, <2>1, <2>3, <2>6, <2>7
<1> QED BY <1>3, <1>4, <1>5

(* What an operation on sector s does to the cells of all sectors.         *)
Elsewhere(fl, gl, s) ==
    \A t \in Sectors : t # s => \A j \in Places : gl[Cell(t, j)] = fl[Cell(t, j)]

OnTo(fl, gl, s, cells, n) ==
    \A j \in Places :
        gl[Cell(s, j)] =
            IF j \notin 1 .. n THEN fl[Cell(s, j)]
            ELSE IF cells[j] = Blank \/ fl[Cell(s, j)] \in {Blank, cells[j]}
                 THEN cells[j] ELSE Bad

LEMMA ProgramCells ==
    ASSUME NEW fl, fl = [i \in Cells |-> fl[i]], NEW s \in Sectors,
           NEW op, op.at = s * SECTOR,
           NEW n \in Places, DOMAIN op.cells = 1 .. n
    PROVE  /\ Elsewhere(fl, Program(fl, op), s)
           /\ OnTo(fl, Program(fl, op), s, op.cells, n)
<1> DEFINE g == Program(fl, op)
<1>1. DOMAIN fl = Cells
    OBVIOUS
<1>2. g = [i \in Cells |->
        LET k == i - op.at + 1
        IN  IF k \notin 1 .. n THEN fl[i]
            ELSE IF op.cells[k] = Blank \/ fl[i] \in {Blank, op.cells[k]}
                 THEN op.cells[k] ELSE Bad]
    BY <1>1 DEF Program
<1> HIDE DEF g
<1>3. PICK a \in Nat : a = op.at /\ a = s * SECTOR
    BY SectorCells DEF Cells
<1>4. \A j \in Places : Cell(s, j) \in Cells /\ Cell(s, j) - op.at + 1 = j
    <2> TAKE j \in Places
    <2>1. Cell(s, j) = a + j - 1 /\ j \in Int
        BY <1>3, SizesAssumption DEF Cell, Places
    <2>2. Cell(s, j) \in Cells
        BY CellsApart
    <2> QED BY <1>3, <2>1, <2>2
<1>5. ASSUME NEW j \in Places
      PROVE  g[Cell(s, j)] =
                IF j \notin 1 .. n THEN fl[Cell(s, j)]
                ELSE IF op.cells[j] = Blank \/ fl[Cell(s, j)] \in {Blank, op.cells[j]}
                     THEN op.cells[j] ELSE Bad
    <2>1. PICK i \in Cells : i = Cell(s, j) /\ i - op.at + 1 = j
        BY <1>4
    <2> QED BY <1>2, <2>1
<1>6. ASSUME NEW t \in Sectors, t # s, NEW j \in Places PROVE g[Cell(t, j)] = fl[Cell(t, j)]
    <2>1. PICK i \in Cells : i = Cell(t, j)
        BY CellsApart
    <2>2. i - op.at + 1 \notin 1 .. n
        <3> SUFFICES ASSUME i - a + 1 \in 1 .. n PROVE FALSE
            BY <1>3
        <3>1. PICK k \in Places : k = i - a + 1
            BY SizesAssumption DEF Places
        <3>2. i \in Nat
            BY <2>1 DEF Cells
        <3>3. i = a + k - 1
            BY <1>3, <3>1, <3>2
        <3>4. i = Cell(s, k)
            BY <1>3, <3>3 DEF Cell
        <3>5. Cell(s, k) = Cell(t, j)
            BY <2>1, <3>4
        <3>6. \A u \in Sectors, l \in Places : Cell(s, k) = Cell(u, l) => s = u /\ k = l
            BY CellsApart
        <3> QED BY <1>6, <3>5, <3>6
    <2> QED BY <1>2, <2>1, <2>2
<1> QED BY <1>5, <1>6 DEF Elsewhere, OnTo, g

-----------------------------------------------------------------------------
(***************************************************************************)
(* What is on a sector                                                     *)
(***************************************************************************)

(* The sector at a position: blank, blank but for a part of a text, and    *)
(* with all of it.                                                         *)
Blanked(fl, at) == \A j \in Places : fl[at + j - 1] = Blank
Partly(fl, at, d) ==
    \A j \in Places : fl[at + j - 1] = Blank \/ (j \in DOMAIN d /\ fl[at + j - 1] = d[j])
Whole(fl, at, d) == \A j \in DOMAIN d : fl[at + j - 1] = d[j]

LEMMA ErasedCells ==
    ASSUME NEW fl, fl = [i \in Cells |-> fl[i]], NEW s \in Sectors,
           NEW op, op.at = s * SECTOR, op.cells = [i \in 1 .. SECTOR |-> Blank]
    PROVE  Elsewhere(fl, Program(fl, op), s) /\ Blanked(Program(fl, op), s * SECTOR)
<1>1. SECTOR \in Places /\ DOMAIN op.cells = 1 .. SECTOR
    BY SizesAssumption DEF Places
<1>2. PICK g : g = Program(fl, op)
    OBVIOUS
<1>3. Elsewhere(fl, g, s) /\ OnTo(fl, g, s, op.cells, SECTOR)
    BY <1>1, <1>2, ProgramCells
<1>4. \A j \in Places : op.cells[j] = Blank /\ j \in 1 .. SECTOR
    BY DEF Places
<1>5. \A j \in Places : g[s * SECTOR + j - 1] = Blank
    BY <1>3, <1>4 DEF Cell, OnTo
<1> QED BY <1>2, <1>3, <1>5 DEF Blanked

LEMMA WrittenCells ==
    ASSUME NEW fl, fl = [i \in Cells |-> fl[i]], NEW s \in Sectors,
           NEW d, NEW n \in Places, DOMAIN d = 1 .. n, Partly(fl, s * SECTOR, d),
           NEW op, op.at = s * SECTOR, op.cells = d
    PROVE  /\ Elsewhere(fl, Program(fl, op), s)
           /\ Partly(Program(fl, op), s * SECTOR, d)
           /\ Whole(Program(fl, op), s * SECTOR, d)
<1>1. PICK g : g = Program(fl, op)
    OBVIOUS
<1>2. Elsewhere(fl, g, s) /\ OnTo(fl, g, s, d, n)
    BY <1>1, ProgramCells
<1>3. \A j \in Places : fl[Cell(s, j)] = Blank \/ (j \in 1 .. n /\ fl[Cell(s, j)] = d[j])
    BY DEF Partly, Cell
<1>4. \A j \in Places :
          IF j \in 1 .. n THEN g[Cell(s, j)] = d[j] ELSE g[Cell(s, j)] = Blank
    BY <1>2, <1>3 DEF OnTo
<1>5. \A j \in 1 .. n : j \in Places
    BY SizesAssumption DEF Places
<1>6. Partly(g, s * SECTOR, d)
    BY <1>4 DEF Partly, Cell
<1>7. Whole(g, s * SECTOR, d)
    BY <1>4, <1>5 DEF Whole, Cell
<1> QED BY <1>1, <1>2, <1>6, <1>7

(* Piece u is on sector s, or in a buffer.                                 *)
OnSector(fl, s, u) == \E j \in Places : fl[Cell(s, j)] = Log(u)
Holds(b, u) == \E j \in DOMAIN b.data : b.data[j] = Log(u)

(* On a flash: the last piece, u, is behind the last number, n; number 0   *)
(* is in the first sector; and no piece of N is there.                     *)
Marked(fl, u, n, N) ==
    \A s \in Sectors :
        /\ OnSector(fl, s, u) => fl[s * SECTOR] = Hdr(n)
        /\ fl[s * SECTOR] = Hdr(0) => s = 0
        /\ \A v \in N : ~OnSector(fl, s, v)

LEMMA LogKinds == \A u, v : Log(u) # Blank /\ (Log(u) = Log(v) => u = v) /\ \A n : Log(u) # Hdr(n)
<1>1. ASSUME NEW u PROVE Log(u)[1] = "log" /\ Log(u)[2] = u /\ Log(u) # Blank
    BY DEF Log, Blank
<1>2. ASSUME NEW n PROVE Hdr(n)[1] = "hdr"
    BY DEF Hdr
<1> QED BY <1>1, <1>2

LEMMA ElsewhereSame ==
    ASSUME NEW fl, NEW gl, NEW s \in Sectors, Elsewhere(fl, gl, s), NEW t \in Sectors, t # s
    PROVE  /\ gl[t * SECTOR] = fl[t * SECTOR]
           /\ \A u : OnSector(gl, t, u) <=> OnSector(fl, t, u)
<1>1. 1 \in Places
    BY SizesAssumption DEF Places
<1>2. Cell(t, 1) = t * SECTOR
    BY <1>1, CellsApart
<1>3. \A j \in Places : gl[Cell(t, j)] = fl[Cell(t, j)]
    BY DEF Elsewhere
<1> QED BY <1>1, <1>2, <1>3 DEF OnSector

LEMMA ErasedMarked ==
    ASSUME NEW fl, NEW gl, NEW s \in Sectors, Elsewhere(fl, gl, s), Blanked(gl, s * SECTOR),
           NEW u, NEW n, NEW N, Marked(fl, u, n, N)
    PROVE  Marked(gl, u, n, N)
<1>1. 1 \in Places /\ Cell(s, 1) = s * SECTOR
    BY CellsApart, SizesAssumption DEF Places
<1>2. \A j \in Places : gl[Cell(s, j)] = Blank
    BY DEF Blanked, Cell
<1>3. gl[s * SECTOR] # Hdr(0) /\ \A v : ~OnSector(gl, s, v)
    BY <1>1, <1>2, CellKinds, LogKinds DEF OnSector
<1>4. ASSUME NEW t \in Sectors
      PROVE  /\ OnSector(gl, t, u) => gl[t * SECTOR] = Hdr(n)
             /\ gl[t * SECTOR] = Hdr(0) => t = 0
             /\ \A v \in N : ~OnSector(gl, t, v)
    <2>1. CASE t = s
        BY <1>3, <2>1
    <2>2. CASE t # s
        BY <2>2, ElsewhereSame DEF Marked
    <2> QED BY <2>1, <2>2
<1> QED BY <1>4 DEF Marked

LEMMA WrittenMarked ==
    ASSUME NEW fl, NEW gl, NEW s \in Sectors, Elsewhere(fl, gl, s),
           NEW d, 1 \in DOMAIN d, Partly(gl, s * SECTOR, d), Whole(gl, s * SECTOR, d),
           NEW u, NEW n, NEW N, Marked(fl, u, n, N),
           (\E j \in DOMAIN d : d[j] = Log(u)) => d[1] = Hdr(n),
           d[1] = Hdr(0) => s = 0,
           \A v \in N : \A j \in DOMAIN d : d[j] # Log(v)
    PROVE  Marked(gl, u, n, N)
<1>1. 1 \in Places /\ Cell(s, 1) = s * SECTOR
    BY CellsApart, SizesAssumption DEF Places
<1>2. \A j \in Places : gl[Cell(s, j)] = Blank \/ (j \in DOMAIN d /\ gl[Cell(s, j)] = d[j])
    BY DEF Partly, Cell
<1>3. gl[s * SECTOR] = d[1]
    <2>1. gl[s * SECTOR + 1 - 1] = d[1]
        BY DEF Whole
    <2>2. gl[Cell(s, 1)] = d[1]
        BY <2>1 DEF Cell
    <2> QED BY <1>1, <2>2
<1>4. \A v : OnSector(gl, s, v) => \E j \in DOMAIN d : d[j] = Log(v)
    BY <1>2, LogKinds DEF OnSector
<1>5. ASSUME NEW t \in Sectors
      PROVE  /\ OnSector(gl, t, u) => gl[t * SECTOR] = Hdr(n)
             /\ gl[t * SECTOR] = Hdr(0) => t = 0
             /\ \A v \in N : ~OnSector(gl, t, v)
    <2>1. CASE t = s
        BY <1>3, <1>4, <2>1
    <2>2. CASE t # s
        BY <2>2, ElsewhereSame DEF Marked
    <2> QED BY <2>1, <2>2
<1> QED BY <1>5 DEF Marked

-----------------------------------------------------------------------------
(***************************************************************************)
(* The invariant of the last piece                                         *)
(***************************************************************************)

(* The buffers in use lie behind one another from f on, numbered one after *)
(* the other up to cur, until the flush at the end has emptied them all.   *)
Filled == IF buf[w].state = "WRITTING" THEN 1 ELSE 0
Ahead == Dist(f, w) + Filled
Emptied == \A i \in Buffers : ~InUse(buf[i])
Over == mode \in {"end", "off"} /\ Emptied
Behind ==
    /\ Ahead <= cur
    /\ \A i \in Buffers : InUse(buf[i]) =>
            Dist(f, i) < Ahead /\ Num(buf[i]) = (cur - Ahead) + Dist(f, i)
    /\ cur = Ahead => offs = 0
Ring == Over \/ Behind

Modes ==
    /\ mode \in {"run", "crash", "end", "off"}
    /\ mode # "run" => frame["hook"].at = "loop"
    /\ mode # "end" => frame["remain"].at = "out"
    /\ mode = "off" => queue = <<>> /\ Emptied

(* The sector at the write position, at every step of the flush.           *)
Image ==
    /\ state = "ERASED" => Blanked(Stored, offs)
    /\ state = "WRITTING" =>
          /\ buf[f].data # <<>> /\ Partly(Stored, offs, buf[f].data)
          /\ mode \in {"run", "crash"} => f # w
    /\ \A c \in Callers : frame[c].at \in {"wrote", "freed"} =>
          Whole(Stored, offs, buf[f].data)
    /\ \A c \in Callers : frame[c].at = "freed" => ~InUse(buf[f])

(* Pieces not traced yet are nowhere; the last one is in the last buffer.  *)
NotYet == {u \in Nat : u = 0 \/ u > logged}
Texts ==
    \A i \in Buffers :
        /\ \A u \in NotYet : ~Holds(buf[i], u)
        /\ InUse(buf[i]) /\ Holds(buf[i], logged) => Num(buf[i]) = cur - 1
Marks == \A k \in 0 .. Len(queue) : Marked(After(k), logged, cur - 1, NotYet)

(* The last piece is in a buffer, or in its sector, which is not the one   *)
(* that is erased next.                                                    *)
InBuffer == \E i \in Buffers : InUse(buf[i]) /\ Holds(buf[i], logged)
Safe(s) ==
    /\ Emptied /\ OnSector(Stored, s, logged)
    /\ state = "IDLE" => offs # s * SECTOR
    /\ state = "WRITTING" => offs = s * SECTOR
Held == logged \notin lost /\ logged # 0 => InBuffer \/ \E s \in Sectors : Safe(s)

Saved == Ring /\ Modes /\ Image /\ Texts /\ Marks /\ Held
SInv == upset = {} => Saved

LEMMA SavedImplies == IInv /\ NInv /\ SInv => CrashSaved
<1> SUFFICES ASSUME IInv, NInv, SInv, mode = "off", upset = {}, logged \notin lost, logged # 0
             PROVE  logged \in OnFlash(flash)
    BY DEF CrashSaved
<1>1. Saved
    BY DEF SInv
<1>2. Emptied /\ Stored = flash
    BY <1>1, EmptyQueue DEF Saved, Modes
<1>3. PICK s \in Sectors : OnSector(flash, s, logged)
    BY <1>1, <1>2 DEF Saved, Held, InBuffer, Emptied, Safe
<1>4. PICK j \in Places : flash[Cell(s, j)] = Log(logged)
    BY <1>3 DEF OnSector
<1>5. Cell(s, j) \in Cells
    BY CellsApart
<1>6. DOMAIN flash = Cells
    <2>1. Numbered(Stored, cur)
        BY StoredNumbered DEF NInv, Numbers, Calm
    <2> QED BY <1>2, <2>1 DEF Numbered
<1>7. logged \in 1 .. logged
    BY DEF IInv
<1> QED BY <1>4, <1>5, <1>6, <1>7 DEF OnFlash

(* What is stored in the end and what power cuts can leave.                *)
LEMMA StillMarked ==
    ASSUME Marks, NothingElse, Marked(Stored', logged, cur - 1, NotYet),
           logged' = logged, cur' = cur
    PROVE  Marks'
<1>1. NotYet' = NotYet
    BY DEF NotYet
<1>2. ASSUME NEW k \in 0 .. Len(queue') PROVE Marked(After(k)', logged, cur - 1, NotYet)
    BY DEF NothingElse, Marks
<1>3. PICK n, u, N : n = cur' /\ u = logged' /\ N = NotYet'
    OBVIOUS
<1>4. ASSUME NEW k \in 0 .. Len(queue') PROVE Marked(After(k)', u, n - 1, N)
    BY <1>1, <1>2, <1>3
<1> QED BY <1>3, <1>4 DEF Marks

LEMMA StoredMarked ==
    ASSUME IsQueue(queue), Marks PROVE Marked(Stored, logged, cur - 1, NotYet)
<1>1. PICK S : queue \in Seq(S)
    BY DEF IsQueue
<1>2. Len(queue) \in 0 .. Len(queue)
    BY <1>1, LenProperties
<1>3. Stored = After(Len(queue))
    BY DEF Stored
<1> QED BY <1>2, <1>3 DEF Marks

(* Steps that leave the buffers, what is stored and where the flush is.    *)
Leaves ==
    /\ buf' = buf /\ w' = w /\ f' = f /\ cur' = cur /\ offs' = offs
    /\ logged' = logged /\ lost' = lost
Onward ==
    /\ mode \in {"end", "off"} => mode' \in {"end", "off"}
    /\ mode' \in {"run", "crash"} => mode \in {"run", "crash"}

LEMMA RingStays == ASSUME Ring, Leaves, Onward PROVE Ring'
<1>1. CASE Over
    BY <1>1 DEF Leaves, Onward, Over, Emptied, Ring
<1>2. CASE Behind
    BY <1>2 DEF Leaves, Behind, Ahead, Filled, Ring
<1> QED BY <1>1, <1>2 DEF Ring

LEMMA TextsStay == ASSUME Texts, Leaves PROVE Texts'
BY DEF Texts, Leaves, NotYet

LEMMA StillSaved ==
    ASSUME IsQueue(queue), Saved, Leaves, Onward, state' = state,
           Stored' = Stored, NothingElse, Modes',
           \A c \in Callers : frame'[c].at \in {"wrote", "freed"} =>
                frame[c].at = frame'[c].at
    PROVE  Saved'
<1>1. Ring' /\ Texts'
    BY RingStays, TextsStay DEF Saved
<1>2. Image'
    BY DEF Saved, Image, Leaves, Onward
<1>3. Marks'
    BY StoredMarked, StillMarked DEF Saved, Leaves
<1>4. Held'
    BY DEF Saved, Held, InBuffer, Safe, Emptied, Leaves
<1> QED BY <1>1, <1>2, <1>3, <1>4 DEF Saved

-----------------------------------------------------------------------------
(***************************************************************************)
(* The modes, and the callers of the flush                                 *)
(***************************************************************************)

(* The hook flushes while the device runs, the notifier at its end.        *)
LEMMA WhoFlushes ==
    ASSUME Modes, OneInside, NEW c \in Callers, NEW at, at # "out", At(c, at)
    PROVE  /\ c = "hook" => mode = "run"
           /\ c = "remain" => mode = "end"
           /\ mode \in {"run", "end"}
<1>1. c = "hook" => mode = "run"
    BY DEF At, Runs, HookRuns
<1>2. c = "remain" => mode = "end"
    BY DEF At, Modes
<1> QED BY <1>1, <1>2 DEF Callers

LEMMA GoAt ==
    ASSUME NEW c \in Callers, NEW at, NEW b, Go(c, at, b), OneInside
    PROVE  frame'[c].at = at /\ \A d \in Callers \ {c} : frame'[d] = frame[d]
<1>1. frame'[c] = [at |-> at, b |-> b] /\ \A d \in Callers \ {c} : frame'[d] = frame[d]
    BY GoFrame
<1> QED BY <1>1

LEMMA FlushModes ==
    ASSUME Modes, OneInside, NEW c \in Callers, NEW at, at # "out", At(c, at),
           NEW to, NEW b, Go(c, to, b), mode' = mode
    PROVE  Modes' /\ Onward
<1>1. /\ c = "hook" => mode = "run"
      /\ c = "remain" => mode = "end"
      /\ mode \in {"run", "end"}
    BY WhoFlushes
<1>2. \A d \in Callers \ {c} : frame'[d] = frame[d]
    BY GoAt
<1>3. "hook" \in Callers /\ "remain" \in Callers
    BY DEF Callers
<1>4. mode # "run" => frame'["hook"].at = "loop"
    BY <1>1, <1>2, <1>3 DEF Modes, Callers
<1>5. mode # "end" => frame'["remain"].at = "out"
    BY <1>1, <1>2, <1>3 DEF Modes, Callers
<1> QED BY <1>1, <1>4, <1>5 DEF Modes, Onward

LEMMA EnterEraseSaved ==
    ASSUME IsQueue(queue), Numbers, Saved, NEW c \in Callers, EnterErase(c)
    PROVE  Saved'
<1>1. /\ Leaves /\ state' = state /\ flash' = flash /\ queue' = queue /\ mode' = mode
      /\ At(c, "loop") /\ Go(c, "erase", f)
    BY DEF EnterErase, Enter, logVars, chipVars, Leaves
<1>2. Modes' /\ Onward
    BY <1>1, FlushModes DEF Saved, Numbers
<1>3. Stored' = Stored /\ NothingElse
    BY <1>1, SameChip
<1>4. \A d \in Callers : frame'[d].at \in {"wrote", "freed"} => frame[d].at = frame'[d].at
    <2>1. frame'[c].at = "erase" /\ \A d \in Callers \ {c} : frame'[d] = frame[d]
        BY <1>1, GoAt DEF Numbers
    <2> QED BY <2>1
<1> QED BY <1>1, <1>2, <1>3, <1>4, StillSaved

LEMMA EnterWriteSaved ==
    ASSUME IInv, IsQueue(queue), Numbers, Saved, NEW c \in Callers, EnterWrite(c)
    PROVE  Saved'
<1>1. /\ Leaves /\ state' = "WRITTING" /\ flash' = flash /\ queue' = queue /\ mode' = mode
      /\ At(c, "loop") /\ Go(c, "write", f)
      /\ state \in {"ERASED", "WRITTING"} /\ buf[f].state \in Mask(c) /\ buf[f].data # <<>>
    BY DEF EnterWrite, Enter, logVars, chipVars, Leaves
<1>2. Modes' /\ Onward
    BY <1>1, FlushModes DEF Saved, Numbers
<1>3. Stored' = Stored /\ NothingElse
    BY <1>1, SameChip
<1>4. Ring' /\ Texts' /\ Marks'
    BY <1>1, <1>2, <1>3, RingStays, TextsStay, StoredMarked, StillMarked DEF Saved, Leaves
<1>5. InUse(buf[f]) /\ f \in Buffers /\ w \in Buffers
    BY <1>1 DEF Mask, InUse, IInv
<1>6. \A d \in Callers : frame'[d].at \in {"wrote", "freed"} => frame[d] = frame'[d]
    <2>1. frame'[c].at = "write" /\ \A d \in Callers \ {c} : frame'[d] = frame[d]
        BY <1>1, GoAt DEF Numbers
    <2> QED BY <2>1
<1>7. Partly(Stored, offs, buf[f].data)
    BY <1>1 DEF Saved, Image, Blanked, Partly
<1>8. mode \in {"run", "crash"} => f # w
    <2> SUFFICES ASSUME mode \in {"run", "crash"}, f = w PROVE FALSE
        OBVIOUS
    <2>1. c = "hook"
        BY <1>1, WhoFlushes DEF Saved, Numbers, Callers
    <2>2. buf[w].state = "WRITTEN"
        BY <1>1, <2>1 DEF Mask
    <2>3. Behind
        BY DEF Saved, Ring, Over
    <2>4. Dist(f, w) < Ahead /\ Ahead = Dist(f, w) + 0
        BY <1>5, <2>2, <2>3 DEF Behind, Ahead, Filled
    <2>5. Dist(f, w) \in Nat
        BY <1>5, DistFacts
    <2> QED BY <2>4, <2>5
<1>9. Image'
    <2>1. /\ buf'[f'].data # <<>> /\ Partly(Stored', offs', buf'[f'].data)
          /\ mode' \in {"run", "crash"} => f' # w'
        BY <1>1, <1>3, <1>7, <1>8 DEF Leaves
    <2>2. \A d \in Callers : frame'[d].at \in {"wrote", "freed"} =>
                Whole(Stored', offs', buf'[f'].data)
        BY <1>1, <1>3, <1>6 DEF Saved, Image, Leaves
    <2>3. \A d \in Callers : frame'[d].at = "freed" => ~InUse(buf'[f'])
        BY <1>1, <1>6 DEF Saved, Image, Leaves
    <2> QED BY <1>1, <2>1, <2>2, <2>3 DEF Image
<1>10. Held'
    <2>1. \A s : ~Safe(s)
        BY <1>5 DEF Safe, Emptied
    <2>2. logged \notin lost /\ logged # 0 => InBuffer
        BY <2>1 DEF Saved, Held
    <2> QED BY <1>1, <2>2 DEF Held, InBuffer, Leaves
<1> QED BY <1>2, <1>4, <1>9, <1>10 DEF Saved

LEMMA RefusedSaved ==
    ASSUME IsQueue(queue), Numbers, Saved, NEW c \in Callers, NEW at, at # "out", At(c, at),
           Refused(c), Go(c, "loop", 0), Leaves, state' = state, mode' = mode
    PROVE  Saved'
<1>1. Stored' = Stored /\ NothingElse
    BY Executed DEF Refused
<1>2. Modes' /\ Onward
    BY FlushModes DEF Saved, Numbers
<1>3. \A d \in Callers : frame'[d].at \in {"wrote", "freed"} => frame[d].at = frame'[d].at
    <2>1. frame'[c].at = "loop" /\ \A d \in Callers \ {c} : frame'[d] = frame[d]
        BY GoAt DEF Numbers
    <2> QED BY <2>1
<1> QED BY <1>1, <1>2, <1>3, StillSaved

LEMMA RemainDoneSaved == ASSUME IsQueue(queue), Numbers, Saved, RemainDone PROVE Saved'
<1>1. /\ Leaves /\ state' = state /\ flash' = Stored /\ queue' = <<>>
      /\ mode' = (IF mode = "end" THEN "off" ELSE mode)
      /\ At("remain", "loop") /\ Go("remain", "out", 0)
      /\ \A i \in Buffers : buf[i].state = "FREE"
    BY DEF RemainDone, logVars, ghostVars, Leaves
<1>2. "remain" \in Callers /\ "hook" \in Callers
    BY DEF Callers
<1>3. mode = "end" /\ mode' = "off"
    BY <1>1, <1>2, WhoFlushes DEF Saved, Numbers
<1>4. Stored' = Stored /\ NothingElse
    BY <1>1, AllExecuted
<1>5. frame'["remain"].at = "out" /\ \A d \in Callers \ {"remain"} : frame'[d] = frame[d]
    BY <1>1, <1>2, GoAt DEF Numbers
<1>6. Modes'
    BY <1>1, <1>2, <1>3, <1>5 DEF Saved, Modes, Emptied, InUse, Leaves
<1>7. \A d \in Callers : frame'[d].at \in {"wrote", "freed"} => frame[d].at = frame'[d].at
    BY <1>5
<1> QED BY <1>1, <1>3, <1>4, <1>6, <1>7, StillSaved DEF Onward

LEMMA CrashStartSaved == ASSUME IsQueue(queue), Numbers, Saved, CrashStart PROVE Saved'
<1>1. /\ Leaves /\ state' = state /\ flash' = flash /\ queue' = queue
      /\ mode = "run" /\ mode' = "crash" /\ frame' = Rest
    BY DEF CrashStart, logVars, chipVars, ghostVars, Leaves
<1>2. Stored' = Stored /\ NothingElse
    BY <1>1, SameChip
<1>3. /\ frame'["hook"].at = "loop" /\ frame'["remain"].at = "out"
      /\ \A d \in Callers : frame'[d].at \notin {"wrote", "freed"}
    BY <1>1 DEF Rest, Callers
<1>4. Modes'
    BY <1>1, <1>3 DEF Modes
<1> QED BY <1>1, <1>2, <1>3, <1>4, StillSaved DEF Onward

LEMMA CrashEndSaved == ASSUME IsQueue(queue), Numbers, Saved, CrashEnd PROVE Saved'
<1>1. /\ Leaves /\ state' = state /\ flash' = flash /\ queue' = queue
      /\ mode = "crash" /\ mode' = "end" /\ Go("remain", "loop", 0)
    BY DEF CrashEnd, logVars, chipVars, ghostVars, Leaves
<1>2. Stored' = Stored /\ NothingElse
    BY <1>1, SameChip
<1>3. "remain" \in Callers /\ "hook" \in Callers
    BY DEF Callers
<1>4. frame'["remain"].at = "loop" /\ \A d \in Callers \ {"remain"} : frame'[d] = frame[d]
    BY <1>1, <1>3, GoAt DEF Numbers
<1>5. Modes'
    BY <1>1, <1>3, <1>4 DEF Saved, Modes
<1>6. \A d \in Callers : frame'[d].at \in {"wrote", "freed"} => frame[d].at = frame'[d].at
    BY <1>4
<1> QED BY <1>1, <1>2, <1>5, <1>6, StillSaved DEF Onward

LEMMA ExecuteSaved == ASSUME IsQueue(queue), Saved, Execute PROVE Saved'
<1>1. Leaves /\ state' = state /\ mode' = mode /\ mode = "run" /\ frame' = frame
    BY DEF Execute, logVars, flushVars, ghostVars, Leaves
<1>2. Stored' = Stored /\ NothingElse
    BY Executed DEF Execute
<1>3. Modes'
    BY <1>1 DEF Saved, Modes
<1> QED BY <1>1, <1>2, <1>3, StillSaved DEF Onward

LEMMA StutterSaved == ASSUME IsQueue(queue), Saved, UNCHANGED vars PROVE Saved'
<1>1. /\ Leaves /\ state' = state /\ mode' = mode /\ frame' = frame
      /\ flash' = flash /\ queue' = queue
    BY DEF vars, logVars, flushVars, chipVars, ghostVars, Leaves
<1>2. Stored' = Stored /\ NothingElse
    BY <1>1, SameChip
<1>3. Modes'
    BY <1>1 DEF Saved, Modes, Emptied, Leaves
<1> QED BY <1>1, <1>2, <1>3, StillSaved DEF Onward

-----------------------------------------------------------------------------
(***************************************************************************)
(* Erasing, writing and going on keep the last piece                       *)
(***************************************************************************)

(* What an accepted operation leaves in the sector at the position.        *)
Erased(s) == Elsewhere(Stored, Stored', s) /\ Blanked(Stored', offs)
Written(s, d) ==
    Elsewhere(Stored, Stored', s) /\ Partly(Stored', offs, d) /\ Whole(Stored', offs, d)

LEMMA EraseAccepted ==
    ASSUME IsQueue(queue), Numbers, NEW c \in Callers, Inside(c), frame[c].at = "erase",
           Accepted(c, EraseOp)
    PROVE  \E s \in Sectors : offs = s * SECTOR /\ Erased(s)
<1>1. Stored' = Program(Stored, EraseOp)
    BY Added
<1>2. offs % SECTOR = 0
    BY DEF Numbers, Steps, InsideOK
<1>3. PICK s \in Sectors : offs = s * SECTOR
    BY <1>2, AtSector DEF Numbers, Position
<1>4. EraseOp.at = s * SECTOR /\ EraseOp.cells = [i \in 1 .. SECTOR |-> Blank]
    BY <1>3 DEF EraseOp
<1>5. Stored = [i \in Cells |-> Stored[i]]
    BY StoredNumbered DEF Numbers, Numbered
<1>6. /\ Elsewhere(Stored, Program(Stored, EraseOp), s)
      /\ Blanked(Program(Stored, EraseOp), s * SECTOR)
    BY <1>4, <1>5, ErasedCells
<1> QED BY <1>1, <1>3, <1>6 DEF Erased

LEMMA EraseSaved ==
    ASSUME IInv, IsQueue(queue), Numbers, Saved, NEW c \in Callers, Erase(c)
    PROVE  Saved'
<1>1. /\ Leaves /\ Go(c, "loop", 0) /\ At(c, "erase") /\ mode' = mode
      /\ Inside(c) /\ frame[c].at = "erase"
    BY AtInside DEF Erase, logVars, ghostVars, Leaves
<1>2. CASE Refused(c) /\ state' = state
    BY <1>1, <1>2, RefusedSaved
<1>3. CASE Accepted(c, EraseOp) /\ state' = "ERASED"
    <2>1. Stored' = Program(Stored, EraseOp) /\ NothingElse
        BY <1>3, Added
    <2>2. state = "IDLE"
        BY <1>1 DEF Numbers, Steps, InsideOK
    <2>3. PICK s \in Sectors : offs = s * SECTOR /\ Erased(s)
        BY <1>1, <1>3, EraseAccepted
    <2>4. Elsewhere(Stored, Stored', s) /\ Blanked(Stored', offs)
        BY <2>3 DEF Erased
    <2>5. Modes' /\ Onward
        BY <1>1, FlushModes DEF Saved, Numbers
    <2>6. Ring' /\ Texts'
        BY <1>1, <2>5, RingStays, TextsStay DEF Saved
    <2>7. \A d \in Callers : frame'[d].at \notin {"wrote", "freed"}
        <3>1. frame'[c].at = "loop" /\ \A d \in Callers \ {c} : frame'[d] = frame[d]
            BY <1>1, GoAt DEF Numbers
        <3>2. \A d \in Callers \ {c} : ~Inside(d)
            BY <1>1, OthersOutside DEF Numbers
        <3> QED BY <3>1, <3>2 DEF Inside
    <2>8. Image'
        BY <1>1, <1>3, <2>4, <2>7 DEF Image, Leaves
    <2>9. Marks'
        <3>1. Marked(Stored, logged, cur - 1, NotYet)
            BY StoredMarked DEF Saved
        <3>2. PICK gl : gl = Stored'
            OBVIOUS
        <3>3. Marked(gl, logged, cur - 1, NotYet)
            BY <2>3, <2>4, <3>1, <3>2, ErasedMarked
        <3> QED BY <1>1, <2>1, <3>2, <3>3, StillMarked DEF Saved, Leaves
    <2>10. Held'
        <3>1. CASE \E t \in Sectors : Safe(t)
            <4>1. PICK t \in Sectors : Safe(t)
                BY <3>1
            <4>2. t # s
                BY <2>2, <2>3, <4>1 DEF Safe
            <4>3. OnSector(Stored', t, logged)
                BY <2>4, <4>1, <4>2, ElsewhereSame DEF Safe
            <4>4. Safe(t)'
                BY <1>1, <1>3, <4>1, <4>3 DEF Safe, Emptied, Leaves
            <4> QED BY <4>4 DEF Held
        <3>2. CASE ~ \E t \in Sectors : Safe(t)
            BY <1>1, <3>2 DEF Saved, Held, InBuffer, Leaves
        <3> QED BY <3>1, <3>2
    <2> QED BY <2>5, <2>6, <2>8, <2>9, <2>10 DEF Saved
<1> QED BY <1>2, <1>3 DEF Erase

(* A buffer in use has its header first and not more than a sector.        *)
LEMMA BufferCells ==
    ASSUME IInv, NEW i \in Buffers, InUse(buf[i])
    PROVE  \E n \in Places : DOMAIN buf[i].data = 1 .. n /\ n = Len(buf[i].data)
<1>1. PICK S : buf[i] \in [state : {"FREE", "WRITTING", "WRITTEN"}, data : Seq(S)]
    BY DEF IInv, IsBuffer
<1>2. Lengths(buf[i])
    BY DEF IInv
<1>3. buf[i].data \in Seq(S) /\ buf[i].state \in {"FREE", "WRITTING", "WRITTEN"}
    BY <1>1
<1>4. DOMAIN buf[i].data = 1 .. Len(buf[i].data)
    BY <1>3, LenProperties
<1>5. Len(buf[i].data) \in Places
    BY <1>2, <1>3, SizesAssumption DEF Lengths, InUse, Places
<1> QED BY <1>4, <1>5

LEMMA WriteAccepted ==
    ASSUME IInv, IsQueue(queue), Numbers, Image, NEW c \in Callers, Inside(c),
           frame[c].at = "write", Accepted(c, WriteOp(frame[c].b))
    PROVE  \E s \in Sectors : offs = s * SECTOR /\ Written(s, buf[f].data)
<1>1. /\ frame[c].b = f /\ state = "WRITTING" /\ InUse(buf[f]) /\ offs % SECTOR = 0
      /\ f \in Buffers
    BY DEF Numbers, Steps, InsideOK, Position, IInv
<1>2. Stored' = Program(Stored, WriteOp(f))
    BY <1>1, Added
<1>3. PICK s \in Sectors : offs = s * SECTOR
    BY <1>1, AtSector DEF Numbers, Position
<1>4. PICK d : d = buf[f].data
    OBVIOUS
<1>5. PICK n \in Places : DOMAIN d = 1 .. n
    BY <1>1, <1>4, BufferCells
<1>6. WriteOp(f).at = s * SECTOR /\ WriteOp(f).cells = d
    BY <1>3, <1>4 DEF WriteOp
<1>7. Stored = [i \in Cells |-> Stored[i]]
    BY StoredNumbered DEF Numbers, Numbered
<1>8. Partly(Stored, s * SECTOR, d)
    BY <1>1, <1>3, <1>4 DEF Image
<1>9. /\ Elsewhere(Stored, Program(Stored, WriteOp(f)), s)
      /\ Partly(Program(Stored, WriteOp(f)), s * SECTOR, d)
      /\ Whole(Program(Stored, WriteOp(f)), s * SECTOR, d)
    BY <1>5, <1>6, <1>7, <1>8, WrittenCells
<1> QED BY <1>2, <1>3, <1>4, <1>9 DEF Written

LEMMA WriteSaved ==
    ASSUME IInv, IsQueue(queue), Numbers, Saved, NEW c \in Callers, Write(c)
    PROVE  Saved'
<1>1. /\ Leaves /\ At(c, "write") /\ mode' = mode /\ state' = state
      /\ Inside(c) /\ frame[c].at = "write"
    BY AtInside DEF Write, logVars, ghostVars, Leaves
<1>2. CASE Refused(c) /\ Go(c, "loop", 0)
    BY <1>1, <1>2, RefusedSaved
<1>3. CASE Accepted(c, WriteOp(frame[c].b)) /\ Go(c, "wrote", frame[c].b)
    <2>1. /\ frame[c].b = f /\ state = "WRITTING" /\ InUse(buf[f]) /\ offs % SECTOR = 0
          /\ f \in Buffers
        BY <1>1 DEF Numbers, Steps, InsideOK, Position, IInv
    <2>2. NothingElse
        BY <1>3, Added
    <2>3. PICK s \in Sectors : offs = s * SECTOR /\ Written(s, buf[f].data)
        BY <1>1, <1>3, WriteAccepted DEF Saved
    <2>4. PICK d : d = buf[f].data
        OBVIOUS
    <2>5. PICK n \in Places : DOMAIN d = 1 .. n
        BY <2>1, <2>4, BufferCells
    <2>6. Elsewhere(Stored, Stored', s) /\ Partly(Stored', offs, d) /\ Whole(Stored', offs, d)
        BY <2>3, <2>4 DEF Written
    <2>7. Modes' /\ Onward
        BY <1>1, <1>3, FlushModes DEF Saved, Numbers
    <2>8. Ring' /\ Texts'
        BY <1>1, <2>7, RingStays, TextsStay DEF Saved
    <2>9. \A e \in Callers : frame'[e].at # "freed"
        <3>1. frame'[c].at = "wrote" /\ \A e \in Callers \ {c} : frame'[e] = frame[e]
            BY <1>1, <1>3, GoAt DEF Numbers
        <3>2. \A e \in Callers \ {c} : ~Inside(e)
            BY <1>1, OthersOutside DEF Numbers
        <3> QED BY <3>1, <3>2 DEF Inside
    <2>10. Image'
        BY <1>1, <2>1, <2>4, <2>6, <2>9 DEF Saved, Image, Leaves
    <2>11. d[1] = Hdr(Num(buf[f])) /\ Num(buf[f]) \in Nat
        BY <2>1, <2>4 DEF Numbers, BuffersNumbered
    <2>12. (\E j \in DOMAIN d : d[j] = Log(logged)) => d[1] = Hdr(cur - 1)
        BY <2>1, <2>4, <2>11 DEF Saved, Texts, Holds
    <2>13. d[1] = Hdr(0) => s = 0
        <3> SUFFICES ASSUME d[1] = Hdr(0) PROVE s = 0
            OBVIOUS
        <3>1. Num(buf[f]) = 0
            BY <2>11, CellKinds
        <3>2. Behind
            BY <2>1 DEF Saved, Ring, Over, Emptied
        <3>3. Num(buf[f]) = (cur - Ahead) + Dist(f, f) /\ Dist(f, f) = 0
            BY <2>1, <3>2, DistFacts DEF Behind
        <3>4. Dist(f, w) \in Nat /\ cur \in Nat
            BY <2>1, DistFacts DEF IInv, Numbers, BuffersNumbered
        <3>5. cur = Ahead
            BY <3>1, <3>3, <3>4 DEF Ahead, Filled
        <3>6. s * SECTOR = 0 * SECTOR /\ 0 \in Sectors
            BY <2>3, <3>2, <3>5, SizesAssumption DEF Behind, Sectors
        <3> QED BY <3>6, SectorOnce
    <2>14. \A v \in NotYet : \A j \in DOMAIN d : d[j] # Log(v)
        BY <2>1, <2>4 DEF Saved, Texts, Holds
    <2>15. Marks'
        <3>1. Marked(Stored, logged, cur - 1, NotYet)
            BY StoredMarked DEF Saved
        <3>2. PICK gl : gl = Stored'
            OBVIOUS
        <3>3. 1 \in DOMAIN d
            BY <2>5 DEF Places
        <3>4. PICK m, N : m = cur - 1 /\ N = NotYet
            OBVIOUS
        <3>5. Elsewhere(Stored, gl, s) /\ Partly(gl, s * SECTOR, d) /\ Whole(gl, s * SECTOR, d)
            BY <2>3, <2>6, <3>2
        <3>6. Marked(gl, logged, m, N)
            BY <2>12, <2>13, <2>14, <3>1, <3>3, <3>4, <3>5, WrittenMarked
        <3> QED BY <1>1, <2>2, <3>2, <3>4, <3>6, StillMarked DEF Saved, Leaves
    <2>16. Held'
        <3>1. \A t : ~Safe(t)
            BY <2>1 DEF Safe, Emptied
        <3> QED BY <1>1, <3>1 DEF Saved, Held, InBuffer, Leaves
    <2> QED BY <2>7, <2>8, <2>10, <2>15, <2>16 DEF Saved
<1> QED BY <1>2, <1>3 DEF Write

(* When the text of the buffer at f is the last, the others are empty.     *)
LEMMA LastInRing ==
    ASSUME IInv, Numbers, Saved, InUse(buf[f]), Holds(buf[f], logged)
    PROVE  \A i \in Buffers : InUse(buf[i]) => i = f
<1>1. f \in Buffers /\ w \in Buffers /\ cur \in Nat
    BY DEF IInv, Numbers, BuffersNumbered
<1>2. Behind
    BY <1>1 DEF Saved, Ring, Over, Emptied
<1>3. Num(buf[f]) = cur - 1
    BY <1>1 DEF Saved, Texts
<1>4. Num(buf[f]) = (cur - Ahead) + Dist(f, f) /\ Dist(f, f) = 0 /\ Ahead \in Nat
    BY <1>1, <1>2, DistFacts DEF Behind, Ahead, Filled
<1>5. Ahead = 1
    BY <1>1, <1>3, <1>4
<1>6. ASSUME NEW i \in Buffers, InUse(buf[i]) PROVE i = f
    <2>1. Dist(f, i) < 1
        BY <1>2, <1>5, <1>6 DEF Behind
    <2>2. Dist(f, i) \in Nat /\ (Dist(f, i) = 0 <=> f = i)
        BY <1>1, DistFacts
    <2> QED BY <2>1, <2>2
<1> QED BY <1>6

LEMMA SetFreeSaved ==
    ASSUME IInv, IsQueue(queue), Numbers, Saved, NEW c \in Callers, SetFree(c)
    PROVE  Saved'
<1>1. /\ w' = w /\ f' = f /\ cur' = cur /\ offs' = offs /\ state' = state /\ mode' = mode
      /\ logged' = logged /\ lost' = lost
      /\ flash' = flash /\ queue' = queue
      /\ buf' = [buf EXCEPT ![frame[c].b].state = "FREE"] /\ Go(c, "freed", frame[c].b)
      /\ At(c, "wrote") /\ Inside(c) /\ frame[c].at = "wrote"
    BY AtInside DEF SetFree, chipVars, ghostVars
<1>2. frame[c].b = f /\ state = "WRITTING" /\ f \in Buffers /\ w \in Buffers
      /\ offs % SECTOR = 0
    BY <1>1 DEF Numbers, Steps, InsideOK, IInv, Position
<1>3. Stored' = Stored /\ NothingElse
    BY <1>1, SameChip
<1>4. /\ \A i \in Buffers : i # f => buf'[i] = buf[i]
      /\ ~InUse(buf'[f]) /\ buf'[f].data = buf[f].data /\ buf'[f].state = "FREE"
    <2>1. buf = [i \in Buffers |-> buf[i]]
        BY DEF IInv
    <2>2. \A i \in Buffers : i # f => buf'[i] = buf[i]
        BY <1>1, <1>2, <2>1
    <2>3. PICK S : buf[f] \in [state : {"FREE", "WRITTING", "WRITTEN"}, data : Seq(S)]
        BY <1>2 DEF IInv, IsBuffer
    <2>4. buf'[f] = [buf[f] EXCEPT !.state = "FREE"]
        BY <1>1, <1>2, <2>1
    <2>5. buf'[f].state = "FREE" /\ buf'[f].data = buf[f].data
        BY <2>3, <2>4
    <2> QED BY <2>2, <2>5 DEF InUse
<1>5. \A i \in Buffers : buf'[i].data = buf[i].data
                         /\ (InUse(buf'[i]) => i # f /\ buf'[i] = buf[i])
    BY <1>4
<1>6. Modes' /\ mode \in {"run", "end"}
    <2>1. Modes' /\ mode \in {"run", "end"}
        BY <1>1, FlushModes, WhoFlushes DEF Saved, Numbers
    <2> QED BY <2>1
<1>7. ASSUME \A i \in Buffers : InUse(buf[i]) => i = f
      PROVE  Emptied'
    BY <1>5, <1>7 DEF Emptied
<1>8. Ring'
    <2>1. CASE Over
        BY <1>1, <1>5, <2>1 DEF Over, Emptied, Ring
    <2>2. CASE Behind /\ f = w /\ buf[w].state = "WRITTING"
        <3>1. mode = "end"
            BY <1>2, <1>6, <2>2 DEF Saved, Image
        <3>2. Ahead = 1
            BY <1>2, <2>2, DistFacts DEF Ahead, Filled
        <3>3. ASSUME NEW i \in Buffers, InUse(buf[i]) PROVE i = f
            <4>1. Dist(f, i) < 1
                BY <2>2, <3>2, <3>3 DEF Behind
            <4>2. Dist(f, i) \in Nat /\ (Dist(f, i) = 0 <=> f = i)
                BY <1>2, DistFacts
            <4> QED BY <4>1, <4>2
        <3> QED BY <1>1, <1>7, <3>1, <3>3 DEF Ring, Over
    <2>3. CASE Behind /\ ~(f = w /\ buf[w].state = "WRITTING")
        <3>1. Filled' = Filled
            BY <1>1, <1>2, <1>4, <2>3 DEF Filled
        <3>2. Ahead' = Ahead
            BY <1>1, <3>1 DEF Ahead
        <3>3. Behind'
            BY <1>1, <1>5, <2>3, <3>2 DEF Behind
        <3> QED BY <3>3 DEF Ring
    <2> QED BY <2>1, <2>2, <2>3 DEF Saved, Ring
<1>9. Image'
    <2>1. \A d \in Callers : frame'[d].at \in {"wrote", "freed"} =>
                Whole(Stored', offs', buf'[f'].data)
        <3>1. Whole(Stored, offs, buf[f].data)
            BY <1>1 DEF Saved, Image
        <3> QED BY <1>1, <1>3, <1>4, <3>1
    <2>2. \A d \in Callers : frame'[d].at = "freed" => ~InUse(buf'[f'])
        BY <1>1, <1>4
    <2>3. /\ buf'[f'].data # <<>> /\ Partly(Stored', offs', buf'[f'].data)
          /\ mode' \in {"run", "crash"} => f' # w'
        BY <1>1, <1>2, <1>3, <1>4 DEF Saved, Image
    <2> QED BY <1>1, <1>2, <2>1, <2>2, <2>3 DEF Image
<1>10. Texts'
    BY <1>1, <1>5 DEF Saved, Texts, Holds, NotYet
<1>11. Marks'
    BY <1>1, <1>3, StoredMarked, StillMarked DEF Saved
<1>12. Held'
    <2> SUFFICES ASSUME logged \notin lost, logged # 0
                 PROVE  InBuffer' \/ \E s \in Sectors : Safe(s)'
        BY <1>1 DEF Held
    <2>1. CASE \E i \in Buffers \ {f} : InUse(buf[i]) /\ Holds(buf[i], logged)
        BY <1>1, <1>4, <2>1 DEF InBuffer, Holds
    <2>2. CASE InUse(buf[f]) /\ Holds(buf[f], logged)
        <3>1. Emptied'
            BY <1>7, <2>2, LastInRing
        <3>2. PICK s \in Sectors : offs = s * SECTOR
            BY <1>2, AtSector DEF Numbers, Position
        <3>3. PICK j \in DOMAIN buf[f].data : buf[f].data[j] = Log(logged)
            BY <2>2 DEF Holds
        <3>4. j \in Places
            BY <1>2, <2>2, BufferCells, SizesAssumption DEF Places
        <3>5. Stored[offs + j - 1] = Log(logged)
            BY <1>1, <3>3 DEF Saved, Image, Whole
        <3>6. OnSector(Stored, s, logged)
            BY <3>2, <3>4, <3>5 DEF OnSector, Cell
        <3>7. Safe(s)'
            BY <1>1, <1>2, <1>3, <3>1, <3>2, <3>6 DEF Safe
        <3> QED BY <3>7
    <2>3. CASE \E s \in Sectors : Safe(s)
        <3>1. PICK s \in Sectors : Safe(s)
            BY <2>3
        <3>2. Safe(s)'
            BY <1>1, <1>3, <1>5, <3>1 DEF Safe, Emptied
        <3> QED BY <3>2
    <2> QED BY <2>1, <2>2, <2>3 DEF Saved, Held, InBuffer
<1> QED BY <1>6, <1>8, <1>9, <1>10, <1>11, <1>12 DEF Saved

(* Behind what was written the position is another one.                    *)
LEMMA MovesOn ==
    ASSUME NEW at \in Cells, NEW s \in Sectors, at = s * SECTOR, NEW n \in Places
    PROVE  (IF at + n >= Size THEN 0 ELSE at + n) # s * SECTOR
<1>1. at \in Nat /\ n \in Nat /\ n >= 1 /\ n <= SECTOR /\ SECTOR \in Nat /\ SECTORS \in Nat
      /\ SECTORS >= 2 /\ SECTOR >= 2
    BY SizesAssumption DEF Cells, Places
<1>2. CASE at + n >= Size
    <2> SUFFICES ASSUME at = 0 PROVE FALSE
        BY <1>2
    <2>1. 1 \in Sectors /\ 1 * SECTOR = SECTOR
        BY <1>1 DEF Sectors
    <2>2. SECTOR + SECTOR <= Size /\ Size \in Nat
        BY <2>1, SectorCells
    <2> QED BY <1>1, <1>2, <2>2
<1>3. CASE ~(at + n >= Size)
    BY <1>1, <1>3
<1> QED BY <1>2, <1>3

LEMMA AdvanceSaved ==
    ASSUME IInv, IsQueue(queue), Numbers, Saved, NEW c \in Callers, Advance(c)
    PROVE  Saved'
<1> DEFINE to == offs + Len(buf[frame[c].b].data)
<1>1. /\ buf' = buf /\ w' = w /\ f' = NextBuf(f) /\ cur' = cur /\ state' = "IDLE"
      /\ mode' = mode /\ logged' = logged /\ lost' = lost
      /\ flash' = flash /\ queue' = queue
      /\ offs' = (IF to >= Size THEN 0 ELSE to) /\ Go(c, "loop", 0)
      /\ At(c, "freed") /\ Inside(c) /\ frame[c].at = "freed"
    BY AtInside DEF Advance, chipVars, ghostVars
<1>2. frame[c].b = f /\ state = "WRITTING" /\ f \in Buffers /\ w \in Buffers
      /\ offs \in Cells /\ offs % SECTOR = 0 /\ cur \in Nat
    BY <1>1 DEF Numbers, Steps, InsideOK, IInv, Position, BuffersNumbered
<1>3. Stored' = Stored /\ NothingElse
    BY <1>1, SameChip
<1>4. ~InUse(buf[f]) /\ buf[f].data # <<>> /\ (mode \in {"run", "crash"} => f # w)
    BY <1>1, <1>2 DEF Saved, Image
<1>5. Modes' /\ mode \in {"run", "end"}
    <2>1. Modes' /\ mode \in {"run", "end"}
        BY <1>1, FlushModes, WhoFlushes DEF Saved, Numbers
    <2> QED BY <2>1
<1>6. Ring'
    <2>1. CASE Over
        BY <1>1, <2>1 DEF Over, Emptied, Ring
    <2>2. CASE Behind /\ f = w
        <3>1. mode = "end"
            BY <1>4, <1>5, <2>2
        <3>2. Ahead = 0
            BY <1>2, <1>4, <2>2, DistFacts DEF Ahead, Filled, InUse
        <3>3. Emptied
            BY <1>2, <2>2, <3>2, DistFacts DEF Behind, Emptied
        <3> QED BY <1>1, <3>1, <3>3 DEF Ring, Over, Emptied
    <2>3. CASE Behind /\ f # w
        <3>1. Dist(f', w) = Dist(f, w) - 1 /\ Dist(f, w) \in Nat
            BY <1>1, <1>2, <2>3, DistFacts
        <3>2. Filled' = Filled /\ Filled \in {0, 1}
            BY <1>1 DEF Filled
        <3>3. Ahead' = Ahead - 1 /\ Ahead \in Int /\ Ahead <= cur
            BY <1>1, <2>3, <3>1, <3>2 DEF Ahead, Behind
        <3>4. ASSUME NEW i \in Buffers, InUse(buf[i])
              PROVE  Dist(f', i) < Ahead' /\ Num(buf[i]) = (cur - Ahead') + Dist(f', i)
            <4>1. Dist(f', i) = Dist(f, i) - 1 /\ Dist(f, i) \in Nat
                BY <1>1, <1>2, <1>4, <3>4, DistFacts
            <4>2. Dist(f, i) < Ahead /\ Num(buf[i]) = (cur - Ahead) + Dist(f, i)
                BY <2>3, <3>4 DEF Behind
            <4> QED BY <1>2, <3>3, <4>1, <4>2
        <3>5. Ahead' <= cur /\ cur # Ahead'
            BY <1>2, <3>3
        <3> QED BY <1>1, <3>4, <3>5 DEF Behind, Ring
    <2> QED BY <2>1, <2>2, <2>3 DEF Saved, Ring
<1>7. \A d \in Callers : frame'[d].at \notin {"wrote", "freed"}
    <2>1. frame'[c].at = "loop" /\ \A d \in Callers \ {c} : frame'[d] = frame[d]
        BY <1>1, GoAt DEF Numbers
    <2>2. \A d \in Callers \ {c} : ~Inside(d)
        BY <1>1, OthersOutside DEF Numbers
    <2> QED BY <2>1, <2>2 DEF Inside
<1>8. Image'
    BY <1>1, <1>7 DEF Image
<1>9. Texts'
    BY <1>1 DEF Saved, Texts, NotYet
<1>10. Marks'
    BY <1>1, <1>3, StoredMarked, StillMarked DEF Saved
<1>11. Held'
    <2> SUFFICES ASSUME logged \notin lost, logged # 0
                 PROVE  InBuffer' \/ \E s \in Sectors : Safe(s)'
        BY <1>1 DEF Held
    <2>1. CASE InBuffer
        BY <1>1, <2>1 DEF InBuffer
    <2>2. CASE \E s \in Sectors : Safe(s)
        <3>1. PICK s \in Sectors : Safe(s)
            BY <2>2
        <3>2. offs = s * SECTOR
            BY <1>2, <3>1 DEF Safe
        <3>3. PICK n \in Places : n = Len(buf[f].data)
            <4>1. PICK S : buf[f] \in [state : {"FREE", "WRITTING", "WRITTEN"}, data : Seq(S)]
                BY <1>2 DEF IInv, IsBuffer
            <4>2. buf[f].data \in Seq(S) /\ Lengths(buf[f])
                BY <1>2, <4>1 DEF IInv
            <4>3. Len(buf[f].data) \in Nat /\ Len(buf[f].data) # 0
                BY <1>4, <4>2, EmptySeq, LenProperties
            <4> QED BY <4>2, <4>3, SizesAssumption DEF Lengths, Places
        <3>4. (IF offs + n >= Size THEN 0 ELSE offs + n) # s * SECTOR
            BY <1>2, <3>2, MovesOn
        <3>5. offs' # s * SECTOR
            BY <1>1, <1>2, <3>3, <3>4
        <3>6. Safe(s)'
            BY <1>1, <1>3, <3>1, <3>5 DEF Safe, Emptied
        <3> QED BY <3>6
    <2> QED BY <2>1, <2>2 DEF Saved, Held
<1> QED BY <1>5, <1>6, <1>8, <1>9, <1>10, <1>11 DEF Saved

-----------------------------------------------------------------------------
(***************************************************************************)
(* Tracing: the last piece is in the last buffer                           *)
(***************************************************************************)

Has(d, u) == \E j \in DOMAIN d : d[j] = Log(u)

LEMMA PiecesBehind ==
    ASSUME NEW d, IsSeq(d), NEW from \in Nat, NEW n \in Nat, NEW u
    PROVE  Has(d \o Pieces(from, n), u) <=> Has(d, u) \/ u \in (from + 1) .. (from + n)
<1> DEFINE p == Pieces(from, n)
           e == d \o p
<1>1. PICK S : d \in Seq(S)
    BY DEF IsSeq
<1> DEFINE T == S \cup {Log(from + i) : i \in 1..n}
<1>2. p \in Seq(T) /\ Len(p) = n /\ \A i \in 1..n : p[i] = Log(from + i)
    <2>1. \A i \in 1..n : Log(from + i) \in T
        OBVIOUS
    <2>2. p = [i \in 1..n |-> Log(from + i)]
        BY DEF Pieces
    <2> HIDE DEF T
    <2> QED BY <2>1, <2>2
<1>3. d \in Seq(T) /\ Len(d) \in Nat /\ DOMAIN d = 1 .. Len(d)
    <2>1. Len(d) \in Nat /\ d \in [1 .. Len(d) -> S]
        BY <1>1, LenProperties
    <2>2. d \in [1 .. Len(d) -> T]
        BY <2>1
    <2> QED BY <2>1, <2>2, SeqDef
<1> HIDE DEF T, p
<1>4. /\ d \o p \in Seq(T) /\ Len(d \o p) = Len(d) + n
      /\ \A i \in 1 .. Len(d) + n : (d \o p)[i] = IF i <= Len(d) THEN d[i] ELSE p[i - Len(d)]
    BY <1>2, <1>3, ConcatProperties
<1>5. DOMAIN e = 1 .. Len(d) + n
    BY <1>4, LenProperties
<1> HIDE DEF e
<1>6. ASSUME Has(d, u) PROVE Has(e, u)
    <2>1. PICK j \in DOMAIN d : d[j] = Log(u)
        BY <1>6 DEF Has
    <2>2. j \in 1 .. Len(d) + n /\ j <= Len(d)
        BY <1>3
    <2>3. e[j] = Log(u)
        BY <1>4, <2>1, <2>2 DEF e
    <2> QED BY <1>5, <2>2, <2>3 DEF Has
<1>7. ASSUME u \in (from + 1) .. (from + n) PROVE Has(e, u)
    <2>1. PICK i \in 1 .. n : u = from + i
        <3>1. u - from \in 1 .. n /\ u = from + (u - from)
            BY <1>7
        <3> QED BY <3>1
    <2>2. PICK j \in 1 .. Len(d) + n : j - Len(d) = i /\ ~(j <= Len(d))
        <3>1. Len(d) + i \in 1 .. Len(d) + n /\ (Len(d) + i) - Len(d) = i /\ ~(Len(d) + i <= Len(d))
            BY <1>3
        <3> QED BY <3>1
    <2>3. e[j] = Log(u)
        BY <1>2, <1>4, <2>1, <2>2 DEF e
    <2> QED BY <1>5, <2>3 DEF Has
<1>8. ASSUME Has(e, u) PROVE Has(d, u) \/ u \in (from + 1) .. (from + n)
    <2>1. PICK j \in 1 .. Len(d) + n : e[j] = Log(u)
        BY <1>5, <1>8 DEF Has
    <2>2. CASE j <= Len(d)
        <3>1. j \in DOMAIN d /\ d[j] = Log(u)
            BY <1>3, <1>4, <2>1, <2>2 DEF e
        <3> QED BY <3>1 DEF Has
    <2>3. CASE ~(j <= Len(d))
        <3>1. PICK i \in 1 .. n : i = j - Len(d)
            BY <1>3, <2>3
        <3>2. Log(u) = Log(from + i)
            BY <1>2, <1>4, <2>1, <2>3, <3>1 DEF e
        <3>3. u = from + i
            BY <3>2, LogKinds
        <3> QED BY <3>3
    <2> QED BY <2>2, <2>3
<1> QED BY <1>6, <1>7, <1>8 DEF e, p

LEMMA StartedText ==
    ASSUME NEW u, Has(Started(w), u) PROVE Holds(buf[w], u)
<1>1. CASE buf[w].state = "WRITTING"
    BY <1>1 DEF Started, Has, Holds
<1>2. CASE buf[w].state # "WRITTING"
    <2>1. Started(w) = <<Hdr(cur)>>
        BY <1>2 DEF Started
    <2>2. DOMAIN <<Hdr(cur)>> = 1 .. 1 /\ <<Hdr(cur)>>[1] = Hdr(cur)
        OBVIOUS
    <2>3. \A j \in 1 .. 1 : j = 1
        OBVIOUS
    <2>4. Hdr(cur) = Log(u)
        BY <2>1, <2>2, <2>3 DEF Has
    <2> QED BY <2>4, LogKinds
<1> QED BY <1>1, <1>2

(* What a trace may do to the buffers: the last piece goes to the last.    *)
Grown ==
    /\ logged' \in Nat /\ logged < logged'
    /\ \A i \in Buffers : \A u : Holds(buf'[i], u) => Holds(buf[i], u) \/ u \in (logged + 1) .. logged'
    /\ \E i \in Buffers : InUse(buf'[i]) /\ Holds(buf'[i], logged')
    /\ \A i \in Buffers : InUse(buf'[i]) /\ Holds(buf'[i], logged') => Num(buf'[i]) = cur' - 1
    /\ state = "WRITTING" => buf'[f] = buf[f] /\ f # w'

LEMMA GrownSaved ==
    ASSUME IInv, IsQueue(queue), Numbers, Saved, Behind', Grown,
           f' = f, UNCHANGED <<flushVars, chipVars, mode>>, mode # "off"
    PROVE  Saved'
<1>1. /\ state' = state /\ offs' = offs /\ frame' = frame /\ mode' = mode
      /\ flash' = flash /\ queue' = queue
    BY DEF flushVars, chipVars
<1>2. Stored' = Stored /\ NothingElse
    BY <1>1, SameChip
<1>3. logged \in Nat
    BY DEF IInv
<1>4. \A u \in NotYet' : u \in NotYet /\ u \notin (logged + 1) .. logged'
    BY <1>3 DEF NotYet, Grown
<1>5. logged' \in NotYet
    BY <1>3 DEF NotYet, Grown
<1>6. Texts'
    BY <1>4 DEF Saved, Texts, Grown
<1>7. Marks'
    <2>1. ASSUME NEW k \in 0 .. Len(queue') PROVE Marked(After(k)', logged, cur - 1, NotYet)
        BY <1>2, StoredMarked DEF NothingElse, Saved, Marks
    <2>2. PICK m, u, N : m = cur' - 1 /\ u = logged' /\ N = NotYet'
        OBVIOUS
    <2>3. u \in NotYet /\ \A v \in N : v \in NotYet
        BY <1>4, <1>5, <2>2
    <2>4. ASSUME NEW k \in 0 .. Len(queue') PROVE Marked(After(k)', u, m, N)
        BY <2>1, <2>3 DEF Marked
    <2> QED BY <2>2, <2>4 DEF Marks
<1>8. Held'
    BY DEF Held, InBuffer, Grown
<1>9. Image'
    <2>1. \A c \in Callers : frame[c].at \in {"wrote", "freed"} => state = "WRITTING"
        BY DEF Numbers, Steps, Inside, InsideOK
    <2>2. state = "WRITTING" => buf'[f'] = buf[f]
        BY DEF Grown
    <2>3. state' = "ERASED" => Blanked(Stored', offs')
        BY <1>1, <1>2 DEF Saved, Image
    <2>4. state' = "WRITTING" =>
              /\ buf'[f'].data # <<>> /\ Partly(Stored', offs', buf'[f'].data)
              /\ mode' \in {"run", "crash"} => f' # w'
        BY <1>1, <1>2, <2>2 DEF Saved, Image, Grown
    <2>5. \A c \in Callers : frame'[c].at \in {"wrote", "freed"} =>
              Whole(Stored', offs', buf'[f'].data)
        BY <1>1, <1>2, <2>1, <2>2 DEF Saved, Image
    <2>6. \A c \in Callers : frame'[c].at = "freed" => ~InUse(buf'[f'])
        BY <1>1, <2>1, <2>2 DEF Saved, Image
    <2> QED BY <2>3, <2>4, <2>5, <2>6 DEF Image
<1>10. Modes'
    BY <1>1 DEF Saved, Modes
<1> QED BY <1>6, <1>7, <1>8, <1>9, <1>10 DEF Saved, Ring

(* The number of the buffer that is traced to continues the row.           *)
Base == cur - Ahead
LEMMA NewNumber ==
    ASSUME IInv, BuffersNumbered, Behind, NEW e, e.data[1] = Started(w)[1]
    PROVE  /\ Num(e) = Base + Dist(f, w) /\ Base \in Nat /\ Dist(f, w) \in Nat
           /\ Number(w) = Base + Dist(f, w) + 1 /\ Ahead <= Dist(f, w) + 1
<1>1. w \in Buffers /\ f \in Buffers /\ cur \in Nat /\ Dist(f, w) \in Nat
    BY DistFacts DEF IInv, BuffersNumbered
<1>2. Base \in Nat
    BY <1>1 DEF Base, Behind, Ahead, Filled
<1>3. CASE buf[w].state = "WRITTING"
    <2>1. InUse(buf[w]) /\ Started(w) = buf[w].data /\ Number(w) = cur
        BY <1>3 DEF InUse, Started, Number
    <2>2. Num(e) = Num(buf[w])
        BY <2>1 DEF Num
    <2>3. Num(buf[w]) = Base + Dist(f, w)
        BY <1>1, <2>1 DEF Behind, Base
    <2>4. Ahead = Dist(f, w) + 1
        BY <1>3 DEF Ahead, Filled
    <2> QED BY <1>1, <1>2, <2>1, <2>2, <2>3, <2>4 DEF Base
<1>4. CASE buf[w].state # "WRITTING"
    <2>1. Started(w)[1] = Hdr(cur) /\ Number(w) = cur + 1
        BY <1>4 DEF Started, Number
    <2>2. Num(e) = cur
        BY <2>1, CellKinds DEF Num
    <2>3. Ahead = Dist(f, w)
        BY <1>1, <1>4 DEF Ahead, Filled
    <2> QED BY <1>1, <1>2, <2>1, <2>2, <2>3 DEF Base
<1> QED BY <1>3, <1>4

LEMMA GrownRing ==
    ASSUME IInv, BuffersNumbered, Behind, f' = f, offs' = offs,
           NEW a \in Nat, a = Ahead', Ahead <= a, cur' = Base + a,
           \A i \in Buffers : InUse(buf'[i]) =>
                \/ buf'[i] = buf[i]
                \/ Dist(f, i) < a /\ Num(buf'[i]) = Base + Dist(f, i)
    PROVE  Behind'
<1>1. w \in Buffers /\ f \in Buffers /\ cur \in Nat /\ Dist(f, w) \in Nat
    BY DistFacts DEF IInv, BuffersNumbered
<1>2. Base \in Nat /\ Ahead \in Nat /\ cur = Base + Ahead
    BY <1>1 DEF Base, Behind, Ahead, Filled
<1>3. PICK m \in Nat : m = cur' /\ m - a = Base
    BY <1>2
<1>4. ASSUME NEW i \in Buffers, InUse(buf'[i])
      PROVE  Dist(f, i) < a /\ Num(buf'[i]) = (m - a) + Dist(f, i)
    <2>1. CASE buf'[i] = buf[i]
        <3>1. Dist(f, i) < Ahead /\ Num(buf[i]) = Base + Dist(f, i) /\ Dist(f, i) \in Nat
            BY <1>1, <1>4, <2>1, DistFacts DEF Behind, Base
        <3> QED BY <1>2, <1>3, <2>1, <3>1
    <2>2. CASE Dist(f, i) < a /\ Num(buf'[i]) = Base + Dist(f, i)
        BY <1>3, <2>2
    <2> QED BY <1>4, <2>1, <2>2
<1>5. PICK b \in Nat : b = Base /\ m = b + a
    BY <1>2, <1>3
<1>6. a <= m
    <2>1. a \in Nat /\ b \in Nat /\ m = b + a
        BY <1>5
    <2> QED BY ONLY <2>1
<1>7. m = a => offs = 0
    <2>1. /\ a \in Nat /\ b \in Nat /\ m = b + a /\ cur = b + Ahead
          /\ cur \in Nat /\ Ahead \in Nat
        BY <1>1, <1>2, <1>5
    <2>2. m = a => cur = Ahead
        BY ONLY <2>1
    <2> QED BY <2>2 DEF Behind
<1> QED BY <1>3, <1>4, <1>6, <1>7 DEF Behind

LEMMA OutputSaved ==
    ASSUME IInv, IsQueue(queue), Numbers, Saved, NEW n \in 1..MaxLine, Output(n),
           upset = {}, upset' = {}
    PROVE  Saved'
<1> DEFINE d == Started(w)
           room == SECTOR - Len(d)
           rest == n - room
           next == NextBuf(w)
<1>1. IsSeq(d) /\ Len(d) \in 1 .. (SECTOR - 1) /\ Len(d) \in Nat \ {0}
    BY StartedHasRoom
<1>2. n \in Nat /\ n >= 1 /\ room \in Nat /\ room >= 1 /\ rest \in Int /\ n = room + rest
    BY <1>1, SizesAssumption
<1>3. w \in Buffers /\ next \in Buffers /\ next # w /\ buf = [i \in Buffers |-> buf[i]]
      /\ f \in Buffers /\ logged \in Nat
    BY NextInRing DEF IInv
<1>4. /\ f' = f /\ UNCHANGED <<flushVars, chipVars, mode>>
      /\ mode \in {"run", "crash"} /\ logged' = logged + n /\ logged' \in Nat /\ logged < logged'
    BY <1>2, <1>3 DEF Output
<1>5. Behind /\ BuffersNumbered
    BY <1>4 DEF Saved, Ring, Over, Numbers
<1>6. state = "WRITTING" => f # w
    BY <1>4 DEF Saved, Image
<1>7. offs' = offs
    BY <1>4 DEF flushVars
<1>8. /\ Base \in Nat /\ Dist(f, w) \in Nat /\ Number(w) = Base + Dist(f, w) + 1
      /\ Ahead <= Dist(f, w) + 1
    <2>1. PICK e : e.data[1] = Started(w)[1]
        <3>1. [data |-> d].data[1] = d[1]
            OBVIOUS
        <3> QED BY <3>1
    <2> QED BY <1>5, <2>1, NewNumber
<1>9. next # f => Dist(f, next) = Dist(f, w) + 1
    BY <1>3, DistFacts
<1>10. \A u : Has(d, u) => Holds(buf[w], u)
    BY StartedText
<1>11. \A i \in Buffers : ~Holds(buf[i], logged')
    BY <1>4 DEF Saved, Texts, NotYet
<1> HIDE DEF d, room, rest, next
<1>12. ASSUME NEW e, InUse(e), e.data[1] = d[1],
              \A u : Holds(e, u) <=> Has(d, u) \/ u \in (logged + 1) .. logged',
              cur' = Number(w), \A i \in Buffers : buf'[i] = IF i = w THEN e ELSE buf[i],
              \/ w' = w /\ e.state = "WRITTING"
              \/ w' = next /\ next # f
       PROVE  Saved'
    <2>1. Num(e) = Base + Dist(f, w)
        BY <1>5, <1>12, NewNumber DEF d
    <2>2. buf'[w] = e /\ \A i \in Buffers : i # w => buf'[i] = buf[i]
        BY <1>3, <1>12
    <2>3. Ahead' = Dist(f, w) + 1
        <3>1. CASE w' = w /\ e.state = "WRITTING"
            BY <1>4, <2>2, <3>1 DEF Ahead, Filled
        <3>2. CASE w' = next /\ next # f
            <4>1. buf'[next] = buf[next] /\ buf[next].state # "WRITTING"
                BY <1>3, <2>2 DEF IInv, OnlyWriterFills
            <4>2. Filled' = 0
                BY <3>2, <4>1 DEF Filled
            <4>3. Dist(f, next) \in Nat
                BY <1>3, DistFacts
            <4> QED BY <1>4, <1>9, <3>2, <4>2, <4>3 DEF Ahead
        <3> QED BY <1>12, <3>1, <3>2
    <2>4. PICK a \in Nat : a = Dist(f, w) + 1
        BY <1>8
    <2>5. a = Ahead' /\ Ahead <= a /\ cur' = Base + a /\ Dist(f, w) < a /\ cur' - 1 = Num(e)
        BY <1>8, <1>12, <2>1, <2>3, <2>4
    <2>6. Behind'
        BY <1>4, <1>5, <1>7, <2>1, <2>2, <2>5, GrownRing
    <2>7. Grown
        <3>1. Holds(e, logged')
            BY <1>4, <1>3, <1>12
        <3>2. state = "WRITTING" => buf'[f] = buf[f] /\ f # w'
            BY <1>3, <1>6, <1>12, <2>2
        <3>3. \A i \in Buffers : \A u : Holds(buf'[i], u) =>
                    Holds(buf[i], u) \/ u \in (logged + 1) .. logged'
            BY <1>10, <1>12, <2>2
        <3>4. \A i \in Buffers : Holds(buf'[i], logged') => i = w
            BY <1>11, <2>2
        <3> QED BY <1>3, <1>4, <1>12, <2>2, <2>5, <3>1, <3>2, <3>3, <3>4 DEF Grown
    <2> QED BY <1>4, <2>6, <2>7, GrownSaved
<1>13. ASSUME NEW e, InUse(e), e.data[1] = d[1],
              \A u : Holds(e, u) <=> Has(d, u) \/ u \in (logged + 1) .. (logged + room),
              NEW g, g.state = "WRITTING", g.data[1] = Hdr(Number(w)),
              \A u : Holds(g, u) <=> u \in (logged + room + 1) .. logged',
              cur' = Number(w) + 1, rest > 0, w' = next, next # f,
              \A i \in Buffers : buf'[i] = IF i = next THEN g ELSE IF i = w THEN e ELSE buf[i]
       PROVE  Saved'
    <2>1. Num(e) = Base + Dist(f, w) /\ Num(g) = Number(w)
        BY <1>5, <1>13, NewNumber, CellKinds DEF d, Num
    <2>2. /\ buf'[w] = e /\ buf'[next] = g
          /\ \A i \in Buffers : i # w /\ i # next => buf'[i] = buf[i]
        BY <1>3, <1>13
    <2>3. Ahead' = Dist(f, w) + 2
        <3>1. Filled' = 1
            BY <1>13, <2>2 DEF Filled
        <3> QED BY <1>4, <1>8, <1>9, <1>13, <3>1 DEF Ahead
    <2>4. PICK a \in Nat : a = Dist(f, w) + 2
        BY <1>8
    <2>5. /\ a = Ahead' /\ Ahead <= a /\ cur' = Base + a /\ Dist(f, w) < a
          /\ cur' - 1 = Num(g) /\ Dist(f, next) < a /\ Num(g) = Base + Dist(f, next)
        <3>1. PICK b \in Nat, k \in Nat : b = Base /\ k = Dist(f, w)
            BY <1>8
        <3>2. /\ Number(w) = b + k + 1 /\ Dist(f, next) = k + 1 /\ a = k + 2
              /\ Ahead <= k + 1 /\ Num(g) = b + k + 1 /\ cur' = b + k + 2
            BY <1>8, <1>9, <1>13, <2>1, <2>4, <3>1
        <3>3. Ahead \in Int
            BY <1>8 DEF Ahead, Filled
        <3> QED BY <2>3, <2>4, <3>1, <3>2, <3>3
    <2>6. Behind'
        <3>1. \A i \in Buffers : InUse(buf'[i]) =>
                \/ buf'[i] = buf[i]
                \/ Dist(f, i) < a /\ Num(buf'[i]) = Base + Dist(f, i)
            BY <2>1, <2>2, <2>5
        <3> QED BY <1>4, <1>5, <1>7, <2>5, <3>1, GrownRing
    <2>7. Grown
        <3>1. logged' \in (logged + room + 1) .. logged' /\ logged' \notin (logged + 1) .. (logged + room)
            BY <1>2, <1>3, <1>4, <1>13
        <3>2. Holds(g, logged') /\ ~Holds(e, logged')
            BY <1>3, <1>10, <1>11, <1>13, <3>1
        <3>3. state = "WRITTING" => buf'[f] = buf[f] /\ f # w'
            BY <1>3, <1>6, <1>13, <2>2
        <3>4. \A u : /\ u \in (logged + room + 1) .. logged' => u \in (logged + 1) .. logged'
                     /\ u \in (logged + 1) .. (logged + room) => u \in (logged + 1) .. logged'
            BY <1>2, <1>3, <1>4, <1>13
        <3>5. \A i \in Buffers : \A u : Holds(buf'[i], u) =>
                    Holds(buf[i], u) \/ u \in (logged + 1) .. logged'
            BY <1>10, <1>13, <2>2, <3>4
        <3>6. \A i \in Buffers : Holds(buf'[i], logged') => i = next
            BY <1>11, <2>2, <3>2
        <3>7. InUse(buf'[next])
            BY <1>13, <2>2 DEF InUse
        <3> QED BY <1>3, <1>4, <2>2, <2>5, <3>2, <3>3, <3>5, <3>6, <3>7 DEF Grown
    <2> QED BY <1>4, <2>6, <2>7, GrownSaved
<1>14. ASSUME NEW m \in Nat
       PROVE  /\ InUse(Filling(d \o Pieces(logged, m))) /\ InUse(Full(d \o Pieces(logged, m)))
              /\ Filling(d \o Pieces(logged, m)).data[1] = d[1]
              /\ Full(d \o Pieces(logged, m)).data[1] = d[1]
              /\ Filling(d \o Pieces(logged, m)).state = "WRITTING"
              /\ \A u : Holds(Filling(d \o Pieces(logged, m)), u)
                            <=> Has(d, u) \/ u \in (logged + 1) .. (logged + m)
              /\ \A u : Holds(Full(d \o Pieces(logged, m)), u)
                            <=> Has(d, u) \/ u \in (logged + 1) .. (logged + m)
    <2> DEFINE x == d \o Pieces(logged, m)
    <2>1. \A u : Has(x, u) <=> Has(d, u) \/ u \in (logged + 1) .. (logged + m)
        BY <1>1, <1>3, PiecesBehind
    <2>2. /\ InUse(Filling(x)) /\ InUse(Full(x))
          /\ Filling(x).data[1] = d[1] /\ Full(x).data[1] = d[1]
        BY <1>1, FirstCell
    <2> HIDE DEF x
    <2>3. \A u : (Holds(Filling(x), u) <=> Has(x, u)) /\ (Holds(Full(x), u) <=> Has(x, u))
        BY DEF Holds, Has, Filling, Full
    <2>4. Filling(x).state = "WRITTING"
        BY DEF Filling
    <2>5. /\ InUse(Filling(x)) /\ InUse(Full(x))
          /\ Filling(x).data[1] = d[1] /\ Full(x).data[1] = d[1]
          /\ Filling(x).state = "WRITTING"
          /\ \A u : Holds(Filling(x), u) <=> Has(d, u) \/ u \in (logged + 1) .. (logged + m)
          /\ \A u : Holds(Full(x), u) <=> Has(d, u) \/ u \in (logged + 1) .. (logged + m)
        BY <2>1, <2>2, <2>3, <2>4
    <2> QED BY <2>5 DEF x
<1>15. CASE /\ n < room /\ cur' = Number(w) /\ w' = w
            /\ buf' = [buf EXCEPT ![w] = Filling(d \o Pieces(logged, n))]
    <2> DEFINE e == Filling(d \o Pieces(logged, n))
    <2>1. /\ InUse(e) /\ e.data[1] = d[1] /\ e.state = "WRITTING"
          /\ \A u : Holds(e, u) <=> Has(d, u) \/ u \in (logged + 1) .. (logged + n)
        BY <1>2, <1>14
    <2>2. \A i \in Buffers : buf'[i] = IF i = w THEN e ELSE buf[i]
        BY <1>3, <1>15
    <2> HIDE DEF e
    <2> QED BY <1>4, <1>12, <1>15, <2>1, <2>2
<1>16. CASE /\ n >= room /\ rest = 0 /\ next # f /\ cur' = Number(w) /\ w' = next
            /\ buf' = [buf EXCEPT ![w] = Full(d \o Pieces(logged, room))]
    <2> DEFINE e == Full(d \o Pieces(logged, room))
    <2>1. /\ InUse(e) /\ e.data[1] = d[1]
          /\ \A u : Holds(e, u) <=> Has(d, u) \/ u \in (logged + 1) .. (logged + room)
        BY <1>2, <1>14
    <2>2. \A i \in Buffers : buf'[i] = IF i = w THEN e ELSE buf[i]
        BY <1>3, <1>16
    <2>3. logged' = logged + room
        BY <1>2, <1>4, <1>16
    <2> HIDE DEF e
    <2> QED BY <1>12, <1>16, <2>1, <2>2, <2>3
<1>17. CASE /\ rest > 0 /\ next # f /\ cur' = Number(w) + 1 /\ w' = next
            /\ buf' = [buf EXCEPT
                 ![w] = Full(d \o Pieces(logged, room)),
                 ![next] = Filling(<<Hdr(Number(w))>> \o Pieces(logged + room, rest))]
    <2> DEFINE e == Full(d \o Pieces(logged, room))
               h == <<Hdr(Number(w))>>
               g == Filling(h \o Pieces(logged + room, rest))
    <2>1. /\ InUse(e) /\ e.data[1] = d[1]
          /\ \A u : Holds(e, u) <=> Has(d, u) \/ u \in (logged + 1) .. (logged + room)
        BY <1>2, <1>14
    <2>2. h \in Seq({Hdr(Number(w))}) /\ Len(h) = 1 /\ h[1] = Hdr(Number(w)) /\ DOMAIN h = 1 .. 1
        OBVIOUS
    <2>3. IsSeq(h) /\ Len(h) \in Nat \ {0} /\ \A u : ~Has(h, u)
        <3> HIDE DEF h
        <3>1. \A u : Hdr(Number(w)) # Log(u)
            BY LogKinds
        <3>2. \A j \in DOMAIN h : j = 1
            BY <2>2
        <3> QED BY <2>2, <3>1, <3>2 DEF IsSeq, Has
    <2>4. rest \in Nat /\ logged + room \in Nat /\ logged + room + rest = logged'
        BY <1>2, <1>3, <1>4, <1>17
    <2>5. PICK x, y : x = h \o Pieces(logged + room, rest) /\ y = logged + room
        OBVIOUS
    <2>6. /\ g.data[1] = Hdr(Number(w)) /\ g.state = "WRITTING"
          /\ \A u : Holds(g, u) <=> u \in (logged + room + 1) .. logged'
        <3> HIDE DEF h
        <3>1. Filling(x).data[1] = h[1]
            BY <2>3, <2>4, <2>5, FirstCell
        <3>2. \A u : Has(x, u) <=> u \in (y + 1) .. (y + rest)
            BY <2>3, <2>4, <2>5, PiecesBehind
        <3>3. \A u : Holds(Filling(x), u) <=> Has(x, u)
            BY DEF Holds, Has, Filling
        <3>4. Filling(x).state = "WRITTING"
            BY DEF Filling
        <3> QED BY <2>2, <2>4, <2>5, <3>1, <3>2, <3>3, <3>4
    <2>7. \A i \in Buffers : buf'[i] = IF i = next THEN g ELSE IF i = w THEN e ELSE buf[i]
        BY <1>3, <1>17
    <2> HIDE DEF e, g
    <2> QED BY <1>13, <1>17, <2>1, <2>6, <2>7
<1> QED BY <1>15, <1>16, <1>17 DEF Output, d, room, rest, next

-----------------------------------------------------------------------------
(***************************************************************************)
(* Starting again                                                          *)
(***************************************************************************)

(* Every cell is in a sector.                                              *)
LEMMA CellOf ==
    ASSUME NEW i \in Cells
    PROVE  \E s \in Sectors, j \in Places : i = Cell(s, j)
<1>1. SECTOR \in Nat /\ SECTOR >= 2 /\ SECTORS \in Nat /\ SECTORS >= 2 /\ i \in Nat
    BY SizesAssumption DEF Cells
<1>2. PICK s \in Nat, r \in Nat : i = s * SECTOR + r /\ r < SECTOR
    <2>1. /\ i = (SECTOR * (i \div SECTOR)) + (i % SECTOR) /\ i \div SECTOR \in Nat
          /\ i % SECTOR \in 0 .. SECTOR - 1
        BY <1>1
    <2>2. PICK q \in Nat, r \in Nat : q = i \div SECTOR /\ r = i % SECTOR /\ r < SECTOR
        BY <1>1, <2>1
    <2>3. SECTOR * q = q * SECTOR
        BY <1>1
    <2> QED BY <2>1, <2>2, <2>3
<1>3. PICK a \in Nat : a = s * SECTOR
    BY <1>1
<1>4. s < SECTORS
    <2> SUFFICES ASSUME SECTORS <= s PROVE FALSE
        BY <1>1
    <2>1. SECTORS * SECTOR = Size /\ Size \in Nat
        BY <1>1 DEF Size
    <2>2. SECTORS = s \/ SECTORS < s
        BY <1>1
    <2>3. i < Size
        BY <1>1, <2>1 DEF Cells
    <2>4. CASE SECTORS = s
        BY <1>1, <1>2, <1>3, <2>1, <2>3, <2>4
    <2>5. CASE SECTORS < s
        <3>1. SECTORS * SECTOR + SECTOR <= s * SECTOR
            BY <1>1, <2>5, Spacing
        <3> QED BY <1>1, <1>2, <1>3, <2>1, <2>3, <3>1
    <2> QED BY <2>2, <2>4, <2>5
<1>5. s \in Sectors
    BY <1>1, <1>4 DEF Sectors
<1>6. PICK j \in Places : j = r + 1
    BY <1>1, <1>2 DEF Places
<1>7. i = Cell(s, j)
    <2>1. i = a + j - 1
        BY <1>2, <1>3, <1>6
    <2> QED BY <1>3, <2>1 DEF Cell
<1> QED BY <1>5, <1>7

(* After a restart the log goes on behind the last piece.                  *)
LEMMA GoesOn ==
    ASSUME NEW fl, NEW n \in Nat, Numbered(fl, n), NEW u, NEW N, Marked(fl, u, n - 1, N)
    PROVE  /\ GetSeqnum(fl).seqnum = 0 => GetSeqnum(fl).sector = 0
           /\ Marked(fl, u, GetSeqnum(fl).seqnum - 1, N)
           /\ \A s \in Sectors : OnSector(fl, s, u) => GetSeqnum(fl).sector # s
<1>1. SECTORS \in Nat /\ SECTORS >= 2
    BY SizesAssumption
<1>2. ASSUME NEW s \in Sectors, OnSector(fl, s, u)
      PROVE  s \in Headers(fl) /\ SeqAt(fl, s) = n - 1 /\ fl[s * SECTOR] = Hdr(n - 1)
    BY <1>2, HeadersAre, CellKinds DEF Marked, SeqAt
<1>3. CASE Headers(fl) = {}
    <2>1. GetSeqnum(fl).seqnum = 0 /\ GetSeqnum(fl).sector = 0
        BY <1>3 DEF GetSeqnum
    <2>2. \A s \in Sectors : ~OnSector(fl, s, u)
        BY <1>2, <1>3
    <2> QED BY <2>1, <2>2 DEF Marked
<1>4. CASE Headers(fl) # {}
    <2> DEFINE top == CHOOSE i \in Headers(fl) :
                        \A j \in Headers(fl) : SeqAt(fl, j) <= SeqAt(fl, i)
    <2>1. top \in Headers(fl) /\ \A j \in Headers(fl) : SeqAt(fl, j) <= SeqAt(fl, top)
        BY <1>4, GreatestHeader
    <2>2. /\ GetSeqnum(fl).seqnum = SeqAt(fl, top) + 1
          /\ GetSeqnum(fl).sector = IF SeqAt(fl, top) = 0 THEN 1 ELSE (top + 1) % SECTORS
        BY <1>4 DEF GetSeqnum
    <2> HIDE DEF top
    <2>3. SeqAt(fl, top) \in Nat /\ SeqAt(fl, top) < n /\ top \in Sectors
          /\ fl[top * SECTOR] = Hdr(SeqAt(fl, top))
        BY <2>1, HeadersAre DEF Numbered
    <2>4. ASSUME NEW s \in Sectors, OnSector(fl, s, u)
          PROVE  top = s /\ SeqAt(fl, top) = n - 1
        <3>1. SeqAt(fl, top) = n - 1
            BY <1>2, <2>1, <2>3, <2>4
        <3> QED BY <1>2, <2>1, <2>4, <3>1 DEF Numbered
    <2>5. GetSeqnum(fl).seqnum # 0
        BY <2>2, <2>3
    <2>6. Marked(fl, u, GetSeqnum(fl).seqnum - 1, N)
        <3>1. \A s \in Sectors : OnSector(fl, s, u) => GetSeqnum(fl).seqnum - 1 = n - 1
            BY <2>2, <2>3, <2>4
        <3> QED BY <3>1 DEF Marked
    <2>7. GetSeqnum(fl).sector # top
        <3>1. CASE SeqAt(fl, top) = 0
            <4>1. top = 0
                BY <2>3, <3>1 DEF Marked
            <4> QED BY <2>2, <3>1, <4>1
        <3>2. CASE SeqAt(fl, top) # 0
            <4>1. (top + 1) % SECTORS # top
                BY <1>1, <2>3, SMT DEF Sectors
            <4> QED BY <2>2, <3>2, <4>1
        <3> QED BY <3>1, <3>2
    <2> QED BY <2>4, <2>5, <2>6, <2>7
<1> QED BY <1>3, <1>4

(* Nothing is pending, and what is on the flash is behind.                 *)
Afresh ==
    /\ queue = <<>> /\ cur \in Nat /\ state = "IDLE" /\ frame = Rest /\ mode = "run"
    /\ w = 0 /\ f = 0 /\ \A i \in Buffers : buf[i] = Free
    /\ cur = 0 => offs = 0
    /\ Marked(flash, logged, cur - 1, NotYet)
    /\ logged \notin lost /\ logged # 0 =>
            \E s \in Sectors : OnSector(flash, s, logged) /\ offs # s * SECTOR

LEMMA AfreshSaved == Afresh => Saved
<1> SUFFICES ASSUME Afresh PROVE Saved
    OBVIOUS
<1> USE DEF Afresh
<1>1. Stored = flash /\ \A k \in 0 .. Len(queue) : After(k) = flash
    BY EmptyQueue
<1>2. 0 \in Buffers
    BY SizesAssumption DEF Buffers
<1>3. ASSUME NEW i \in Buffers
      PROVE  ~InUse(buf[i]) /\ buf[i].state # "WRITTING" /\ \A u : ~Holds(buf[i], u)
    <2>1. Free.state = "FREE" /\ Free.data = <<>>
        BY DEF Free
    <2>2. DOMAIN <<>> = {}
        OBVIOUS
    <2> QED BY <2>1, <2>2 DEF InUse, Holds
<1>4. Emptied
    BY <1>3 DEF Emptied
<1>5. Ring
    <2>1. Ahead = 0
        BY <1>2, <1>3, DistFacts DEF Ahead, Filled
    <2> QED BY <1>3, <2>1 DEF Ring, Behind
<1>6. /\ frame["hook"].at = "loop" /\ frame["remain"].at = "out"
      /\ \A c \in Callers : frame[c].at \notin {"wrote", "freed"}
    BY DEF Rest, Callers
<1>7. Modes
    BY <1>6 DEF Modes
<1>8. Image
    BY <1>6 DEF Image
<1>9. Texts
    BY <1>3 DEF Texts
<1>10. Marks
    BY <1>1 DEF Marks
<1>11. Held
    BY <1>1, <1>4 DEF Held, Safe
<1> QED BY <1>5, <1>7, <1>8, <1>9, <1>10, <1>11 DEF Saved

LEMMA AfreshNext == Afresh' => Saved'
<1>1. Afresh => Saved
    BY AfreshSaved
<1> QED BY <1>1, PTL

LEMMA RestartSaved ==
    ASSUME IInv, IsQueue(queue), Numbers, Saved, Restart
    PROVE  Saved'
<1>1. /\ queue' = <<>> /\ flash' = flash /\ cur' = GetSeqnum(flash).seqnum
      /\ offs' = GetSeqnum(flash).sector * SECTOR /\ logged' = logged
      /\ lost' = lost \cup ((1..logged) \ OnFlash(flash))
      /\ state' = "IDLE" /\ frame' = Rest /\ mode' = "run"
      /\ w' = 0 /\ f' = 0 /\ buf' = [i \in Buffers |-> Free]
    BY DEF Restart
<1>2. /\ Numbered(flash, cur) /\ cur \in Nat
      /\ Marked(flash, logged, cur - 1, NotYet)
    <2>1. PICK S : queue \in Seq(S)
        BY DEF IsQueue
    <2>2. Len(queue) \in Nat /\ 0 \in 0 .. Len(queue)
        BY <2>1, LenProperties
    <2>3. After(0) = flash
        BY <2>2, AfterRun, RunSteps DEF ByStep
    <2> QED BY <2>2, <2>3 DEF Numbers, ChipNumbered, BuffersNumbered, Saved, Marks
<1>3. PICK n, s : n = GetSeqnum(flash).seqnum /\ s = GetSeqnum(flash).sector
    OBVIOUS
<1>4. n \in Nat /\ s \in Sectors
    BY <1>2, <1>3, FromHeaders
<1>5. /\ n = 0 => s = 0
      /\ Marked(flash, logged, n - 1, NotYet)
      /\ \A t \in Sectors : OnSector(flash, t, logged) => s # t
    BY <1>2, <1>3, GoesOn
<1>6. cur' = n /\ offs' = s * SECTOR
    BY <1>1, <1>3
<1>7. cur' = 0 => offs' = 0
    <2>1. 0 * SECTOR = 0
        BY SizesAssumption
    <2> QED BY <1>5, <1>6, <2>1
<1>8. Marked(flash, logged, cur - 1, NotYet)'
    <2>1. NotYet' = NotYet
        BY <1>1 DEF NotYet
    <2> QED BY <1>1, <1>5, <1>6, <2>1
<1>9. logged' \notin lost' /\ logged' # 0 =>
          \E t \in Sectors : OnSector(flash', t, logged') /\ offs' # t * SECTOR
    <2> SUFFICES ASSUME logged \notin lost', logged # 0
                 PROVE  \E t \in Sectors : OnSector(flash, t, logged) /\ offs' # t * SECTOR
        BY <1>1
    <2>1. logged \in 1 .. logged
        BY DEF IInv
    <2>2. PICK i \in Cells : flash[i] = Log(logged)
        <3>1. logged \in OnFlash(flash)
            BY <1>1, <2>1
        <3>2. DOMAIN flash = Cells
            BY <1>2 DEF Numbered
        <3> QED BY <3>1, <3>2 DEF OnFlash
    <2>3. PICK t \in Sectors, j \in Places : i = Cell(t, j)
        BY CellOf
    <2>4. OnSector(flash, t, logged)
        BY <2>2, <2>3 DEF OnSector
    <2>5. s * SECTOR # t * SECTOR
        BY <1>4, <1>5, <2>4, SectorOnce
    <2> QED BY <1>6, <2>4, <2>5
<1>10. \A i \in Buffers : buf'[i] = Free
    BY <1>1
<1> QED BY <1>1, <1>4, <1>6, <1>7, <1>8, <1>9, <1>10, AfreshNext DEF Afresh

LEMMA InitSaved == Init => SInv
<1> SUFFICES ASSUME Init PROVE SInv
    OBVIOUS
<1>1. /\ queue = <<>> /\ cur = 0 /\ offs = 0 /\ state = "IDLE" /\ frame = Rest
      /\ mode = "run" /\ w = 0 /\ f = 0 /\ logged = 0
      /\ buf = [i \in Buffers |-> Free] /\ flash = [i \in 0 .. (Size - 1) |-> Blank]
    BY DEF Init
<1>2. \A i \in Cells : flash[i] = Blank
    BY <1>1 DEF Cells
<1>3. ASSUME NEW s \in Sectors
      PROVE  flash[s * SECTOR] = Blank /\ \A u : ~OnSector(flash, s, u)
    <2>1. \A j \in Places : Cell(s, j) \in Cells
        BY CellsApart
    <2> QED BY <1>2, <2>1, SectorCells, LogKinds DEF OnSector
<1>4. Marked(flash, logged, cur - 1, NotYet)
    BY <1>3, CellKinds DEF Marked
<1>5. \A i \in Buffers : buf[i] = Free
    BY <1>1
<1>6. Afresh
    BY <1>1, <1>4, <1>5 DEF Afresh
<1> QED BY <1>6, AfreshSaved DEF SInv

LEMMA NextSaved == IInv /\ NInv /\ SInv /\ [Next]_vars => SInv'
<1> SUFFICES ASSUME IInv, NInv, SInv, [Next]_vars, upset' = {} PROVE Saved'
    BY DEF SInv
<1>1. upset = {}
    <2>1. upset \subseteq upset' \/ upset' = upset
        BY DEF Next, Output, Flush, EnterErase, Enter, Erase, EnterWrite, Write, SetFree,
           Advance, RemainDone, FlushAll, CrashStart, CrashEnd, Execute, Restart,
           ghostVars, vars
    <2> QED BY <2>1
<1>2. Saved /\ Numbers /\ IsQueue(queue)
    BY <1>1 DEF SInv, NInv, Calm
<1>3. CASE \E n \in 1..MaxLine : Output(n)
    BY <1>1, <1>2, <1>3, OutputSaved
<1>4. ASSUME NEW c \in Callers, Flush(c) PROVE Saved'
    <2>1. CASE EnterErase(c)
        BY <1>2, <2>1, EnterEraseSaved
    <2>2. CASE Erase(c)
        BY <1>2, <2>2, EraseSaved
    <2>3. CASE EnterWrite(c)
        BY <1>2, <2>3, EnterWriteSaved
    <2>4. CASE Write(c)
        BY <1>2, <2>4, WriteSaved
    <2>5. CASE SetFree(c)
        BY <1>2, <2>5, SetFreeSaved
    <2>6. CASE Advance(c)
        BY <1>2, <2>6, AdvanceSaved
    <2> QED BY <1>4, <2>1, <2>2, <2>3, <2>4, <2>5, <2>6 DEF Flush
<1>5. CASE RemainDone
    BY <1>2, <1>5, RemainDoneSaved
<1>6. CASE FlushAll
    BY <1>6 DEF FlushAll
<1>7. CASE CrashStart
    BY <1>2, <1>7, CrashStartSaved
<1>8. CASE CrashEnd
    BY <1>2, <1>8, CrashEndSaved
<1>9. CASE Execute
    BY <1>2, <1>9, ExecuteSaved
<1>10. CASE Restart
    BY <1>2, <1>10, RestartSaved
<1>11. CASE UNCHANGED vars
    BY <1>2, <1>11, StutterSaved
<1> QED BY <1>3, <1>4, <1>5, <1>6, <1>7, <1>8, <1>9, <1>10, <1>11 DEF Next

(* What a crash leaves: when the flush at its end returns, the last piece  *)
(* that was traced is on the flash, unless the writer caught up with the   *)
(* flush or the device was being switched off, or a restart lost it.       *)
THEOREM AlwaysCrashSaved == Spec => []CrashSaved
<1>1. IInv /\ NInv /\ SInv /\ [Next]_vars => (IInv /\ NInv /\ SInv)'
    BY NextInv, NextNumbers, NextSaved
<1> QED BY <1>1, InitInv, InitNumbers, InitSaved, SavedImplies, PTL DEF Spec

-----------------------------------------------------------------------------
(***************************************************************************)
(* Nothing is written over what is not blank                               *)
(***************************************************************************)

Unspoilt(fl) == \A s \in Sectors, j \in Places : fl[Cell(s, j)] # Bad
Sound(d) == \A j \in DOMAIN d : d[j] # Bad
Clean ==
    /\ \A k \in 0 .. Len(queue) : Unspoilt(After(k))
    /\ \A i \in Buffers : Sound(buf[i].data)
UInv == upset = {} => Clean

(* Wherever the power goes, no cell was programmed over another one.       *)
NothingSpoilt ==
    upset = {} => \A k \in 0 .. Len(queue) : \A i \in Cells : After(k)[i] # Bad

LEMMA CleanImplies == UInv => NothingSpoilt
BY CellOf DEF UInv, Clean, Unspoilt, NothingSpoilt

LEMMA BadKinds == Blank # Bad /\ (\A u : Log(u) # Bad) /\ (\A n : Hdr(n) # Bad)
<1>1. Bad[1] = "bad" /\ Blank # Bad
    BY DEF Bad, Blank
<1>2. ASSUME NEW u PROVE Log(u)[1] = "log" /\ Hdr(u)[1] = "hdr"
    BY DEF Log, Hdr
<1> QED BY <1>1, <1>2

LEMMA SoundPieces ==
    ASSUME NEW d, IsSeq(d), Sound(d), NEW from, NEW n \in Nat
    PROVE  Sound(d \o Pieces(from, n))
<1> DEFINE p == Pieces(from, n)
           e == d \o p
<1>1. PICK S : d \in Seq(S)
    BY DEF IsSeq
<1> DEFINE T == S \cup {Log(from + i) : i \in 1..n}
<1>2. p \in Seq(T) /\ Len(p) = n /\ \A i \in 1..n : p[i] = Log(from + i)
    <2>1. \A i \in 1..n : Log(from + i) \in T
        OBVIOUS
    <2>2. p = [i \in 1..n |-> Log(from + i)]
        BY DEF Pieces
    <2> HIDE DEF T
    <2> QED BY <2>1, <2>2
<1>3. d \in Seq(T) /\ Len(d) \in Nat /\ DOMAIN d = 1 .. Len(d)
    <2>1. Len(d) \in Nat /\ d \in [1 .. Len(d) -> S]
        BY <1>1, LenProperties
    <2>2. d \in [1 .. Len(d) -> T]
        BY <2>1
    <2> QED BY <2>1, <2>2, SeqDef
<1> HIDE DEF T, p
<1>4. /\ d \o p \in Seq(T) /\ Len(d \o p) = Len(d) + n
      /\ \A i \in 1 .. Len(d) + n : (d \o p)[i] = IF i <= Len(d) THEN d[i] ELSE p[i - Len(d)]
    BY <1>2, <1>3, ConcatProperties
<1>5. DOMAIN e = 1 .. Len(d) + n
    BY <1>4, LenProperties
<1>6. ASSUME NEW j \in 1 .. Len(d) + n PROVE (d \o p)[j] # Bad
    <2>1. CASE j <= Len(d)
        BY <1>3, <1>4, <2>1 DEF Sound
    <2>2. CASE ~(j <= Len(d))
        <3>1. j - Len(d) \in 1 .. n
            BY <1>3, <2>2
        <3> QED BY <1>2, <1>4, <2>2, <3>1, BadKinds
    <2> QED BY <2>1, <2>2
<1> QED BY <1>5, <1>6 DEF Sound, p

(* A trace puts headers and pieces into the buffers.                       *)
LEMMA OutputClean ==
    ASSUME IInv, NEW n \in 1..MaxLine, Output(n), \A i \in Buffers : Sound(buf[i].data)
    PROVE  \A i \in Buffers : Sound(buf'[i].data)
<1> DEFINE d == Started(w)
           room == SECTOR - Len(d)
           rest == n - room
           next == NextBuf(w)
<1>1. IsSeq(d) /\ Len(d) \in 1 .. (SECTOR - 1)
    BY StartedHasRoom
<1>2. n \in Nat /\ room \in Nat /\ rest \in Int
    BY <1>1, SizesAssumption
<1>3. w \in Buffers /\ next \in Buffers /\ next # w /\ buf = [i \in Buffers |-> buf[i]]
    BY NextInRing DEF IInv
<1>4. ASSUME NEW m PROVE IsSeq(<<Hdr(m)>>) /\ Sound(<<Hdr(m)>>)
    <2>1. <<Hdr(m)>> \in Seq({Hdr(m)}) /\ DOMAIN <<Hdr(m)>> = 1 .. 1 /\ <<Hdr(m)>>[1] = Hdr(m)
        OBVIOUS
    <2>2. \A j \in 1 .. 1 : j = 1
        OBVIOUS
    <2> QED BY <2>1, <2>2, BadKinds DEF IsSeq, Sound
<1>5. Sound(d)
    <2>1. CASE buf[w].state = "WRITTING"
        BY <1>3, <2>1 DEF Started
    <2>2. CASE buf[w].state # "WRITTING"
        BY <1>4, <2>2 DEF Started
    <2> QED BY <2>1, <2>2
<1>6. ASSUME NEW x, Sound(x) PROVE Sound(Filling(x).data) /\ Sound(Full(x).data)
    BY <1>6 DEF Filling, Full
<1>7. ASSUME NEW m \in Nat
      PROVE  /\ Sound(Filling(d \o Pieces(logged, m)).data)
             /\ Sound(Full(d \o Pieces(logged, m)).data)
    <2>1. Sound(d \o Pieces(logged, m))
        BY <1>1, <1>5, SoundPieces
    <2> QED BY <1>6, <2>1
<1> HIDE DEF d, room, rest, next
<1>8. CASE \/ buf' = [buf EXCEPT ![w] = Filling(d \o Pieces(logged, n))]
           \/ buf' = [buf EXCEPT ![w] = Full(d \o Pieces(logged, room))]
    BY <1>2, <1>3, <1>7, <1>8
<1>9. CASE /\ rest > 0
           /\ buf' = [buf EXCEPT
                ![w] = Full(d \o Pieces(logged, room)),
                ![next] = Filling(<<Hdr(Number(w))>> \o Pieces(logged + room, rest))]
    <2>1. rest \in Nat
        BY <1>2, <1>9
    <2>2. PICK h : h = <<Hdr(Number(w))>> /\ IsSeq(h) /\ Sound(h)
        BY <1>4
    <2>3. Sound(h \o Pieces(logged + room, rest))
        BY <2>1, <2>2, SoundPieces
    <2>4. Sound(Filling(<<Hdr(Number(w))>> \o Pieces(logged + room, rest)).data)
        BY <1>6, <2>2, <2>3
    <2> QED BY <1>2, <1>3, <1>7, <1>9, <2>4
<1> QED BY <1>8, <1>9 DEF Output, d, room, rest, next

(* What is stored stays clean when the sector that changes is.             *)
LEMMA SectorUnspoilt ==
    ASSUME NEW fl, NEW gl, NEW s \in Sectors, Elsewhere(fl, gl, s), Unspoilt(fl),
           \A j \in Places : gl[s * SECTOR + j - 1] # Bad
    PROVE  Unspoilt(gl)
<1>1. \A j \in Places : gl[Cell(s, j)] # Bad
    BY DEF Cell
<1> QED BY <1>1 DEF Elsewhere, Unspoilt

LEMMA StoredUnspoilt ==
    ASSUME IsQueue(queue), Clean PROVE Unspoilt(Stored)
<1>1. PICK S : queue \in Seq(S)
    BY DEF IsQueue
<1>2. Len(queue) \in 0 .. Len(queue)
    BY <1>1, LenProperties
<1>3. Stored = After(Len(queue))
    BY DEF Stored
<1> QED BY <1>2, <1>3 DEF Clean

LEMMA StillClean ==
    ASSUME Clean, NothingElse, Unspoilt(Stored'), \A i \in Buffers : Sound(buf'[i].data)
    PROVE  Clean'
<1>1. ASSUME NEW k \in 0 .. Len(queue') PROVE Unspoilt(After(k)')
    BY DEF NothingElse, Clean
<1> QED BY <1>1 DEF Clean

LEMMA NextClean == IInv /\ NInv /\ SInv /\ UInv /\ [Next]_vars => UInv'
<1> SUFFICES ASSUME IInv, NInv, SInv, UInv, [Next]_vars, upset' = {} PROVE Clean'
    BY DEF UInv
<1>1. upset = {}
    <2>1. upset \subseteq upset' \/ upset' = upset
        BY DEF Next, Output, Flush, EnterErase, Enter, Erase, EnterWrite, Write, SetFree,
           Advance, RemainDone, FlushAll, CrashStart, CrashEnd, Execute, Restart,
           ghostVars, vars
    <2> QED BY <2>1
<1>2. Saved /\ Numbers /\ IsQueue(queue) /\ Clean
    BY <1>1 DEF SInv, NInv, UInv, Calm
<1>3. Unspoilt(Stored) /\ \A i \in Buffers : Sound(buf[i].data)
    BY <1>2, StoredUnspoilt DEF Clean
<1>4. ASSUME \/ Drain
             \/ flash' = Stored /\ queue' = <<>>
             \/ flash' = flash /\ queue' = queue,
             \A i \in Buffers : Sound(buf'[i].data)
      PROVE  Clean'
    <2>1. Stored' = Stored /\ NothingElse
        BY <1>2, <1>4, Executed, AllExecuted, SameChip
    <2> QED BY <1>2, <1>3, <1>4, <2>1, StillClean
<1>5. CASE \E n \in 1..MaxLine : Output(n)
    <2>1. PICK n \in 1..MaxLine : Output(n)
        BY <1>5
    <2>2. flash' = flash /\ queue' = queue
        BY <2>1 DEF Output, chipVars
    <2> QED BY <1>3, <1>4, <2>1, <2>2, OutputClean
<1>6. ASSUME NEW c \in Callers, Flush(c) PROVE Clean'
    <2>1. CASE EnterErase(c) \/ EnterWrite(c) \/ Advance(c)
        BY <1>3, <1>4, <2>1 DEF EnterErase, EnterWrite, Advance, logVars, chipVars
    <2>2. CASE Refused(c) /\ buf' = buf
        BY <1>3, <1>4, <2>2 DEF Refused
    <2>3. CASE Erase(c)
        <3>1. Inside(c) /\ frame[c].at = "erase" /\ buf' = buf
            BY <2>3, AtInside DEF Erase, logVars
        <3>2. CASE Accepted(c, EraseOp)
            <4>1. PICK s \in Sectors : offs = s * SECTOR /\ Erased(s)
                BY <1>2, <3>1, <3>2, EraseAccepted
            <4>2. PICK gl : gl = Stored'
                OBVIOUS
            <4>3. Elsewhere(Stored, gl, s) /\ \A j \in Places : gl[s * SECTOR + j - 1] # Bad
                BY <4>1, <4>2, BadKinds DEF Erased, Blanked
            <4>4. Unspoilt(gl)
                BY <1>3, <4>3, SectorUnspoilt
            <4>5. NothingElse
                BY <1>2, <3>2, Added
            <4> QED BY <1>2, <1>3, <3>1, <4>2, <4>4, <4>5, StillClean
        <3> QED BY <2>2, <2>3, <3>1, <3>2 DEF Erase
    <2>4. CASE Write(c)
        <3>1. Inside(c) /\ frame[c].at = "write" /\ buf' = buf
            BY <2>4, AtInside DEF Write, logVars
        <3>2. CASE Accepted(c, WriteOp(frame[c].b))
            <4>1. PICK s \in Sectors : offs = s * SECTOR /\ Written(s, buf[f].data)
                BY <1>2, <3>1, <3>2, WriteAccepted DEF Saved
            <4>2. PICK gl : gl = Stored'
                OBVIOUS
            <4>3. Sound(buf[f].data)
                BY <1>3 DEF IInv
            <4>4. Elsewhere(Stored, gl, s) /\ \A j \in Places : gl[s * SECTOR + j - 1] # Bad
                BY <4>1, <4>2, <4>3, BadKinds DEF Written, Partly, Sound
            <4>5. Unspoilt(gl)
                BY <1>3, <4>4, SectorUnspoilt
            <4>6. NothingElse
                BY <1>2, <3>2, Added
            <4> QED BY <1>2, <1>3, <3>1, <4>2, <4>5, <4>6, StillClean
        <3> QED BY <2>2, <2>4, <3>1, <3>2 DEF Write
    <2>5. CASE SetFree(c)
        <3>1. /\ buf' = [buf EXCEPT ![frame[c].b].state = "FREE"] /\ f \in Buffers
              /\ frame[c].b = f /\ buf = [i \in Buffers |-> buf[i]]
              /\ flash' = flash /\ queue' = queue
            BY <1>2, <2>5, AtInside DEF SetFree, chipVars, Numbers, Steps, InsideOK, IInv
        <3>2. PICK S : buf[f] \in [state : {"FREE", "WRITTING", "WRITTEN"}, data : Seq(S)]
            BY <3>1 DEF IInv, IsBuffer
        <3>3. buf'[f] = [buf[f] EXCEPT !.state = "FREE"] /\ \A i \in Buffers \ {f} : buf'[i] = buf[i]
            BY <3>1
        <3>4. buf'[f].data = buf[f].data
            BY <3>2, <3>3
        <3> QED BY <1>3, <1>4, <3>1, <3>3, <3>4
    <2> QED BY <1>6, <2>1, <2>3, <2>4, <2>5 DEF Flush
<1>7. CASE RemainDone \/ FlushAll \/ CrashStart \/ CrashEnd \/ Execute
    BY <1>3, <1>4, <1>7 DEF RemainDone, FlushAll, CrashStart, CrashEnd, Execute, logVars,
       chipVars
<1>8. CASE Restart
    <2>1. flash' = flash /\ queue' = <<>> /\ buf' = [i \in Buffers |-> Free]
        BY <1>8 DEF Restart
    <2>2. Free.data = <<>> /\ DOMAIN <<>> = {}
        BY DEF Free
    <2>3. \A i \in Buffers : Sound(buf'[i].data)
        BY <2>1, <2>2 DEF Sound
    <2>4. \A k \in 0 .. Len(queue') : After(k)' = flash
        <3>1. (queue = <<>> => \A k \in 0 .. Len(queue) : After(k) = flash)'
            BY EmptyQueue, PTL
        <3> QED BY <2>1, <3>1
    <2>5. Unspoilt(flash)
        <3>1. PICK S : queue \in Seq(S)
            BY <1>2 DEF IsQueue
        <3>2. Len(queue) \in Nat /\ 0 \in 0 .. Len(queue)
            BY <3>1, LenProperties
        <3>3. After(0) = flash
            BY <3>2, AfterRun, RunSteps DEF ByStep
        <3> QED BY <1>2, <3>2, <3>3 DEF Clean
    <2> QED BY <2>3, <2>4, <2>5 DEF Clean
<1>9. CASE UNCHANGED vars
    BY <1>3, <1>4, <1>9 DEF vars, logVars, chipVars
<1> QED BY <1>5, <1>6, <1>7, <1>8, <1>9 DEF Next

LEMMA InitClean == Init => UInv
<1> SUFFICES ASSUME Init PROVE Clean
    BY DEF UInv
<1>1. /\ queue = <<>> /\ buf = [i \in Buffers |-> Free]
      /\ flash = [i \in 0 .. (Size - 1) |-> Blank]
    BY DEF Init
<1>2. \A k \in 0 .. Len(queue) : After(k) = flash
    BY <1>1, EmptyQueue
<1>3. Unspoilt(flash)
    <2>1. \A i \in Cells : flash[i] = Blank
        BY <1>1 DEF Cells
    <2> QED BY <2>1, CellsApart, BadKinds DEF Unspoilt
<1>4. \A i \in Buffers : Sound(buf[i].data)
    <2>1. Free.data = <<>> /\ DOMAIN <<>> = {}
        BY DEF Free
    <2> QED BY <1>1, <2>1 DEF Sound
<1> QED BY <1>2, <1>3, <1>4 DEF Clean

(* At every point where power may go: a buffer goes to a sector erased for *)
(* it, or over the same text, whatever was refused, cut short or done at a *)
(* crash, so that no cell is spoilt, as long as the writer never caught up *)
(* with the flush and two callers were never in it at once.                *)
THEOREM AlwaysNothingSpoilt == Spec => []NothingSpoilt
<1>1. IInv /\ NInv /\ SInv /\ UInv /\ [Next]_vars => (IInv /\ NInv /\ SInv /\ UInv)'
    BY NextInv, NextNumbers, NextSaved, NextClean
<1> QED BY <1>1, InitInv, InitNumbers, InitSaved, InitClean, CleanImplies, PTL DEF Spec

-----------------------------------------------------------------------------
(***************************************************************************)
(* The order of the log on a flash                                         *)
(***************************************************************************)

(* How far behind sector s sector t is, and the sector behind a sector.    *)
Way(s, t) == IF s <= t THEN t - s ELSE t - s + SECTORS
NextSector(s) == IF s + 1 = SECTORS THEN 0 ELSE s + 1

LEMMA WayFacts ==
    ASSUME NEW s \in Sectors, NEW t \in Sectors
    PROVE  /\ Way(s, t) \in Nat /\ Way(s, t) < SECTORS /\ (Way(s, t) = 0 <=> s = t)
           /\ s # t => Way(t, s) = SECTORS - Way(s, t)
           /\ NextSector(t) # s => Way(s, NextSector(t)) = Way(s, t) + 1
           /\ NextSector(t) \in Sectors /\ NextSector(t) # t /\ Way(t, NextSector(t)) = 1
<1>1. /\ s \in Nat /\ s < SECTORS /\ t \in Nat /\ t < SECTORS
      /\ SECTORS \in Nat /\ SECTORS >= 2
    BY SizesAssumption DEF Sectors
<1>2. NextSector(t) \in Nat /\ NextSector(t) < SECTORS
    BY <1>1 DEF NextSector
<1>3. NextSector(t) \in Sectors
    BY <1>1, <1>2 DEF Sectors
<1>4. /\ Way(s, t) \in Nat /\ Way(s, t) < SECTORS /\ (Way(s, t) = 0 <=> s = t)
      /\ s # t => Way(t, s) = SECTORS - Way(s, t)
    BY ONLY <1>1 DEF Way
<1>5. NextSector(t) # s => Way(s, NextSector(t)) = Way(s, t) + 1
    BY ONLY <1>1 DEF Way, NextSector
<1>6. NextSector(t) # t /\ Way(t, NextSector(t)) = 1
    BY ONLY <1>1 DEF Way, NextSector
<1> QED BY <1>3, <1>4, <1>5, <1>6

(* A sector is blank, or has its header first and pieces behind it.        *)
IsLog(c) == c # Blank /\ c = Log(c[2]) /\ c[2] \in Nat
IsBlank(fl, s) == \A j \in Places : fl[Cell(s, j)] = Blank
Headed(fl, s) ==
    /\ IsHdr(fl[s * SECTOR])
    /\ \A j \in Places \ {1} : fl[Cell(s, j)] = Blank \/ IsLog(fl[Cell(s, j)])
Textual(fl) == \A s \in Sectors : IsBlank(fl, s) \/ Headed(fl, s)

(* The numbers of the sectors go up by one from a sector to the next.      *)
Rowed(fl) ==
    \A s, t \in Headers(fl) :
        SeqAt(fl, s) <= SeqAt(fl, t) => Way(s, t) = SeqAt(fl, t) - SeqAt(fl, s)

(* Piece u is in cell j of the text numbered m, of a sector or a buffer.   *)
Entry(fl, b, m, j, u) ==
    \/ \E s \in Sectors : fl[s * SECTOR] = Hdr(m) /\ fl[Cell(s, j)] = Log(u)
    \/ \E i \in Buffers : /\ InUse(b[i]) /\ b[i].data[1] = Hdr(m)
                          /\ j \in DOMAIN b[i].data /\ b[i].data[j] = Log(u)
(* Pieces go up with the numbers of their texts, and with their cells.     *)
Sooner(m, j, n, k) == m < n \/ (m = n /\ j < k)
Sorted(fl, b) ==
    \A m, n, u, v \in Nat, j, k \in Places :
        Entry(fl, b, m, j, u) /\ Entry(fl, b, n, k, v) /\ Sooner(m, j, n, k) => u < v
Includes(fl, b, gl, c) ==
    \A m, u \in Nat, j \in Places : Entry(gl, c, m, j, u) => Entry(fl, b, m, j, u)

LEMMA FewerSorted ==
    ASSUME NEW fl, NEW b, NEW gl, NEW c, Sorted(fl, b), Includes(fl, b, gl, c)
    PROVE  Sorted(gl, c)
BY DEF Sorted, Includes

LEMMA AllIncluded ==
    ASSUME NEW fl, NEW b, NEW gl, NEW c,
           \A s \in Sectors, m \in Nat, j \in Places, u \in Nat :
              gl[s * SECTOR] = Hdr(m) /\ gl[Cell(s, j)] = Log(u) => Entry(fl, b, m, j, u),
           \A i \in Buffers : InUse(c[i]) => InUse(b[i]) /\ c[i].data = b[i].data
    PROVE  Includes(fl, b, gl, c)
<1>1. ASSUME NEW m \in Nat, NEW u \in Nat, NEW j \in Places, Entry(gl, c, m, j, u)
      PROVE  Entry(fl, b, m, j, u)
    <2>1. CASE \E s \in Sectors : gl[s * SECTOR] = Hdr(m) /\ gl[Cell(s, j)] = Log(u)
        BY <2>1
    <2>2. CASE \E i \in Buffers : /\ InUse(c[i]) /\ c[i].data[1] = Hdr(m)
                                  /\ j \in DOMAIN c[i].data /\ c[i].data[j] = Log(u)
        <3>1. PICK i \in Buffers : /\ InUse(c[i]) /\ c[i].data[1] = Hdr(m)
                                   /\ j \in DOMAIN c[i].data /\ c[i].data[j] = Log(u)
            BY <2>2
        <3>2. InUse(b[i]) /\ c[i].data = b[i].data
            BY <3>1
        <3> QED BY <3>1, <3>2 DEF Entry
    <2> QED BY <1>1, <2>1, <2>2 DEF Entry
<1> QED BY <1>1 DEF Includes

(* What an erase and a write leave of the headers.                         *)
LEMMA FirstPlace == 1 \in Places /\ \A s \in Sectors : Cell(s, 1) = s * SECTOR
BY CellsApart, SizesAssumption DEF Places

LEMMA BlankSector ==
    ASSUME NEW fl, NEW s \in Sectors, IsBlank(fl, s)
    PROVE  /\ s \notin Headers(fl) /\ fl[s * SECTOR] = Blank
           /\ \A u : ~OnSector(fl, s, u) /\ \A m : fl[s * SECTOR] # Hdr(m)
<1>1. fl[s * SECTOR] = Blank
    BY FirstPlace DEF IsBlank
<1>2. \A u : ~OnSector(fl, s, u)
    BY LogKinds DEF IsBlank, OnSector
<1> QED BY <1>1, <1>2, HeadersAre, CellKinds

LEMMA BlankedSector ==
    ASSUME NEW fl, NEW s \in Sectors
    PROVE  Blanked(fl, s * SECTOR) <=> IsBlank(fl, s)
BY DEF Blanked, IsBlank, Cell

LEMMA OtherHeaders ==
    ASSUME NEW fl, NEW gl, NEW s \in Sectors, Elsewhere(fl, gl, s), NEW t \in Sectors, t # s
    PROVE  /\ t \in Headers(gl) <=> t \in Headers(fl)
           /\ SeqAt(gl, t) = SeqAt(fl, t)
BY ElsewhereSame, HeadersAre DEF SeqAt

LEMMA OtherTexts ==
    ASSUME NEW fl, NEW gl, NEW s \in Sectors, Elsewhere(fl, gl, s), NEW t \in Sectors, t # s,
           IsBlank(fl, t) \/ Headed(fl, t)
    PROVE  IsBlank(gl, t) \/ Headed(gl, t)
<1>1. \A j \in Places : gl[Cell(t, j)] = fl[Cell(t, j)]
    BY DEF Elsewhere
<1>2. gl[t * SECTOR] = fl[t * SECTOR]
    BY ElsewhereSame
<1> QED BY <1>1, <1>2 DEF IsBlank, Headed

LEMMA OtherEntries ==
    ASSUME NEW fl, NEW gl, NEW s \in Sectors, Elsewhere(fl, gl, s), NEW t \in Sectors, t # s,
           NEW b, NEW m \in Nat, NEW j \in Places, NEW u \in Nat,
           gl[t * SECTOR] = Hdr(m), gl[Cell(t, j)] = Log(u)
    PROVE  Entry(fl, b, m, j, u)
<1>1. gl[Cell(t, j)] = fl[Cell(t, j)] /\ gl[t * SECTOR] = fl[t * SECTOR]
    BY ElsewhereSame DEF Elsewhere
<1> QED BY <1>1 DEF Entry

LEMMA ErasedOrder ==
    ASSUME NEW fl, NEW gl, NEW s \in Sectors, Elsewhere(fl, gl, s), IsBlank(gl, s),
           Textual(fl), Rowed(fl), NEW b, Sorted(fl, b)
    PROVE  Textual(gl) /\ Rowed(gl) /\ Sorted(gl, b)
<1>1. Textual(gl)
    BY OtherTexts DEF Textual
<1>2. s \notin Headers(gl) /\ \A m : gl[s * SECTOR] # Hdr(m)
    BY BlankSector
<1>3. \A t \in Headers(gl) : t \in Headers(fl) /\ SeqAt(gl, t) = SeqAt(fl, t)
    BY <1>2, OtherHeaders, HeadersAre
<1>4. Rowed(gl)
    BY <1>3 DEF Rowed
<1>5. Includes(fl, b, gl, b)
    <2>1. ASSUME NEW t \in Sectors, NEW m \in Nat, NEW j \in Places, NEW u \in Nat,
                 gl[t * SECTOR] = Hdr(m), gl[Cell(t, j)] = Log(u)
          PROVE  Entry(fl, b, m, j, u)
        BY <1>2, <2>1, OtherEntries
    <2> QED BY <2>1, AllIncluded
<1> QED BY <1>1, <1>4, <1>5, FewerSorted

(* The text of a buffer.                                                   *)
IsText(d, m) ==
    /\ 1 \in DOMAIN d /\ d[1] = Hdr(m)
    /\ \A j \in DOMAIN d \ {1} : IsLog(d[j])

(* The sectors are numbered down to n from sector o backwards.             *)
Trails(fl, o, n) ==
    \A s \in Headers(fl) : s # o =>
        SeqAt(fl, s) < n /\ Way(s, o) = n - SeqAt(fl, s)

LEMMA WrittenText ==
    ASSUME NEW gl, NEW o \in Sectors, NEW d, NEW m \in Nat, IsText(d, m),
           Partly(gl, o * SECTOR, d), Whole(gl, o * SECTOR, d)
    PROVE  /\ gl[o * SECTOR] = Hdr(m) /\ o \in Headers(gl) /\ SeqAt(gl, o) = m /\ Headed(gl, o)
           /\ \A j \in Places : gl[Cell(o, j)] = Blank \/ (j \in DOMAIN d /\ gl[Cell(o, j)] = d[j])
           /\ \A j \in DOMAIN d : gl[Cell(o, j)] = d[j]
<1>1. /\ \A j \in Places : gl[Cell(o, j)] = Blank \/ (j \in DOMAIN d /\ gl[Cell(o, j)] = d[j])
      /\ \A j \in DOMAIN d : gl[Cell(o, j)] = d[j]
    BY DEF Partly, Whole, Cell
<1>2. gl[o * SECTOR] = Hdr(m)
    BY <1>1, FirstPlace DEF IsText
<1>3. o \in Headers(gl) /\ SeqAt(gl, o) = m
    BY <1>2, HeadersAre, CellKinds DEF SeqAt
<1>4. Headed(gl, o)
    BY <1>1, <1>2, CellKinds DEF Headed, IsText
<1> QED BY <1>1, <1>2, <1>3, <1>4

LEMMA WrittenOrder ==
    ASSUME NEW fl, NEW gl, NEW o \in Sectors, Elsewhere(fl, gl, o),
           NEW d, NEW m \in Nat, IsText(d, m),
           Partly(gl, o * SECTOR, d), Whole(gl, o * SECTOR, d),
           NEW N \in Nat, Numbered(fl, N),
           Trails(fl, o, m), Textual(fl), Rowed(fl), NEW b, Sorted(fl, b),
           NEW i \in Buffers, InUse(b[i]), b[i].data = d
    PROVE  Textual(gl) /\ Rowed(gl) /\ Sorted(gl, b) /\ Trails(gl, o, m)
<1>1. gl[o * SECTOR] = Hdr(m) /\ o \in Headers(gl) /\ SeqAt(gl, o) = m /\ Headed(gl, o)
    BY WrittenText
<1>2. Textual(gl)
    BY <1>1, OtherTexts DEF Textual
<1>3. \A t \in Headers(gl) : t # o => t \in Headers(fl) /\ SeqAt(gl, t) = SeqAt(fl, t)
                                     /\ SeqAt(fl, t) \in Nat
    BY OtherHeaders, HeadersAre DEF Numbered
<1>4. Trails(gl, o, m)
    BY <1>3 DEF Trails
<1>5. ASSUME NEW s \in Headers(gl), NEW t \in Headers(gl), SeqAt(gl, s) <= SeqAt(gl, t)
      PROVE  Way(s, t) = SeqAt(gl, t) - SeqAt(gl, s)
    <2>0. s \in Sectors /\ t \in Sectors
        BY HeadersAre
    <2>1. CASE s # o /\ t # o
        BY <1>3, <1>5, <2>1 DEF Rowed
    <2>2. CASE s # o /\ t = o
        BY <1>1, <1>4, <2>2 DEF Trails
    <2>3. CASE s = o /\ t = o
        BY <1>1, <2>0, <2>3, WayFacts
    <2>4. CASE s = o /\ t # o
        <3>1. SeqAt(gl, t) < m /\ SeqAt(gl, t) \in Nat
            BY <1>3, <1>4, <2>4 DEF Trails
        <3> QED BY <1>1, <1>5, <2>4, <3>1
    <2> QED BY <2>1, <2>2, <2>3, <2>4
<1>6. Rowed(gl)
    BY <1>5 DEF Rowed
<1>7. Includes(fl, b, gl, b)
    <2>1. ASSUME NEW t \in Sectors, NEW n \in Nat, NEW j \in Places, NEW u \in Nat,
                 gl[t * SECTOR] = Hdr(n), gl[Cell(t, j)] = Log(u)
          PROVE  Entry(fl, b, n, j, u)
        <3>1. CASE t = o
            <4>1. n = m
                BY <1>1, <2>1, <3>1, CellKinds
            <4>2. j \in DOMAIN d /\ d[j] = Log(u)
                BY <2>1, <3>1, WrittenText, LogKinds
            <4> QED BY <4>1, <4>2 DEF Entry, IsText
        <3>2. CASE t # o
            BY <2>1, <3>2, OtherEntries
        <3> QED BY <3>1, <3>2
    <2> QED BY <2>1, AllIncluded
<1> QED BY <1>2, <1>4, <1>6, <1>7, FewerSorted

-----------------------------------------------------------------------------
(***************************************************************************)
(* The invariant of the order                                              *)
(***************************************************************************)

(* A buffer in use has its header first and pieces behind it.              *)
Shaped(b) == \A i \in Buffers : InUse(b[i]) => \A j \in DOMAIN b[i].data \ {1} : IsLog(b[i].data[j])
ChipOrdered ==
    \A k \in 0 .. Len(queue) :
        Textual(After(k)) /\ Rowed(After(k)) /\ Sorted(After(k), buf)

(* The numbers on the flash are smaller than those of the buffers, but for *)
(* the one that is being written; and they go down from the position.      *)
Beyond == IF state = "WRITTING" THEN Base + 1 ELSE Base
Under(fl, n) == \A s \in Headers(fl) : SeqAt(fl, s) < n
Low == ~Over => \A k \in 0 .. Len(queue) : Under(After(k), Beyond)
Placed ==
    ~Over => \E o \in Sectors :
        /\ offs = o * SECTOR /\ Trails(Stored, o, Base)
        /\ state # "IDLE" /\ o \in Headers(Stored) => SeqAt(Stored, o) = Base

(* What is going to be written is not on the flash, and fills the sector.  *)
Unwritten ==
    mode = "run" /\ state = "WRITTING" /\ frame["hook"].at \notin {"wrote", "freed"} =>
        Blanked(Stored, offs)
FullText == state = "WRITTING" /\ f # w => Len(buf[f].data) = SECTOR

(* Behind a piece that is kept, those missing are lost with the power.     *)
Keeps(fl, b, u) ==
    \/ \E s \in Sectors : OnSector(fl, s, u)
    \/ \E i \in Buffers : InUse(b[i]) /\ Holds(b[i], u)
NoGap(fl, b, n, L) ==
    \A u, x \in 1 .. n : Keeps(fl, b, u) /\ u <= x => Keeps(fl, b, x) \/ x \in L
Gapless == mode = "run" => NoGap(Stored, buf, logged, lost)

Ordered == Shaped(buf) /\ ChipOrdered /\ Low /\ Placed /\ Unwritten /\ FullText /\ Gapless
OInv == upset = {} => Ordered

LEMMA LastOfQueue ==
    ASSUME IsQueue(queue)
    PROVE  Len(queue) \in 0 .. Len(queue) /\ Stored = After(Len(queue))
<1>1. PICK S : queue \in Seq(S)
    BY DEF IsQueue
<1> QED BY <1>1, LenProperties DEF Stored

LEMMA StoredOrdered ==
    ASSUME IsQueue(queue), ChipOrdered
    PROVE  Textual(Stored) /\ Rowed(Stored) /\ Sorted(Stored, buf)
BY LastOfQueue DEF ChipOrdered

LEMMA StillChip ==
    ASSUME ChipOrdered, NothingElse, Textual(Stored'), Rowed(Stored'), Sorted(Stored', buf'),
           \A k \in 0 .. Len(queue) : Sorted(After(k), buf')
    PROVE  ChipOrdered'
<1>1. PICK c : c = buf'
    OBVIOUS
<1>2. ASSUME NEW k \in 0 .. Len(queue')
      PROVE  Textual(After(k)') /\ Rowed(After(k)') /\ Sorted(After(k)', c)
    BY <1>1 DEF NothingElse, ChipOrdered
<1> QED BY <1>1, <1>2 DEF ChipOrdered

(* Base and Beyond are numbers where they are spoken of.                   *)
LEMMA BaseNat ==
    ASSUME IInv, Numbers, Saved, ~Over
    PROVE  /\ Behind /\ Base \in Nat /\ Beyond \in Nat /\ Ahead \in Nat /\ cur = Base + Ahead
           /\ cur \in Nat
<1>1. w \in Buffers /\ f \in Buffers /\ cur \in Nat /\ Dist(f, w) \in Nat
    BY DistFacts DEF IInv, Numbers, BuffersNumbered
<1>2. Behind
    BY DEF Saved, Ring
<1>3. Ahead \in Nat /\ Ahead <= cur
    BY <1>1, <1>2 DEF Ahead, Filled, Behind
<1> QED BY <1>1, <1>2, <1>3 DEF Base, Beyond

LEMMA HigherUnder ==
    ASSUME NEW fl, NEW N \in Nat, Numbered(fl, N), NEW n \in Int, NEW m \in Int, n <= m, Under(fl, n)
    PROVE  Under(fl, m)
BY DEF Under, Numbered

LEMMA StillLow ==
    ASSUME IInv, Numbers, Saved, Low, NothingElse, ~Over' => ~Over, Beyond' \in Int,
           ~Over' => Beyond <= Beyond' /\ Under(Stored', Beyond')
    PROVE  Low'
<1> SUFFICES ASSUME ~Over' PROVE \A k \in 0 .. Len(queue') : Under(After(k)', Beyond')
    BY DEF Low
<1>1. PICK n \in Int : n = Beyond'
    OBVIOUS
<1>2. ~Over /\ Beyond \in Nat /\ Beyond <= n /\ cur \in Nat
    BY <1>1, BaseNat
<1>3. ASSUME NEW j \in 0 .. Len(queue) PROVE Under(After(j), n)
    BY <1>2, HigherUnder DEF Low, Numbers, ChipNumbered
<1>4. ASSUME NEW k \in 0 .. Len(queue') PROVE Under(After(k)', n)
    BY <1>1, <1>3 DEF NothingElse
<1> QED BY <1>1, <1>4

LEMMA StoredLow ==
    ASSUME IsQueue(queue), Low, ~Over PROVE Under(Stored, Beyond)
BY LastOfQueue DEF Low

(* Steps that leave the buffers, what is stored and where the flush is:    *)
(* the state may go on to the write.                                       *)
LEMMA StillOrdered ==
    ASSUME IInv, IsQueue(queue), Numbers, Saved, Ordered, Leaves, Onward,
           Stored' = Stored, NothingElse,
           state' = state \/ (state' = "WRITTING" /\ state # "IDLE" /\ FullText'),
           Unwritten', mode' = "run" => mode = "run"
    PROVE  Ordered'
<1>1. buf' = buf /\ f' = f /\ w' = w /\ cur' = cur /\ offs' = offs /\ logged' = logged /\ lost' = lost
    BY DEF Leaves
<1>2. Base' = Base /\ Shaped(buf)'
    BY <1>1 DEF Base, Ahead, Filled, Ordered, Shaped
<1>3. ~Over' => ~Over
    BY <1>1 DEF Over, Emptied, Onward
<1>4. ChipOrdered'
    BY <1>1, StoredOrdered, StillChip DEF Ordered, ChipOrdered
<1>5. Base \in Int
    <2>1. w \in Buffers /\ f \in Buffers /\ cur \in Nat /\ Dist(f, w) \in Nat
        BY DistFacts DEF IInv, Numbers, BuffersNumbered
    <2> QED BY <2>1 DEF Base, Ahead, Filled
<1>6. PICK p \in Int, q \in Int : p = Beyond /\ q = Beyond' /\ p <= q
    <2>1. Beyond \in Int /\ Beyond' \in Int /\ Beyond <= Beyond'
        BY <1>2, <1>5 DEF Beyond
    <2> QED BY <2>1
<1>7. ~Over => Under(Stored, q)
    BY <1>6, BaseNat, StoredLow, StoredNumbered, HigherUnder DEF Ordered, Numbers
<1>8. Low'
    BY <1>3, <1>6, <1>7, StillLow DEF Ordered
<1>9. Placed'
    BY <1>1, <1>2, <1>3 DEF Ordered, Placed
<1>10. FullText'
    BY <1>1 DEF Ordered, FullText
<1>11. Gapless'
    BY <1>1 DEF Ordered, Gapless
<1> QED BY <1>2, <1>4, <1>8, <1>9, <1>10, <1>11 DEF Ordered

LEMMA StillUnwritten ==
    ASSUME Unwritten, Stored' = Stored, offs' = offs, state' = state,
           mode' = "run" => mode = "run",
           mode' = "run" /\ frame'["hook"].at \notin {"wrote", "freed"} =>
                frame["hook"].at \notin {"wrote", "freed"}
    PROVE  Unwritten'
BY DEF Unwritten

(* A caller that goes to another point leaves the order as it is.          *)
LEMMA GoneOrdered ==
    ASSUME IInv, IsQueue(queue), Numbers, Saved, Ordered, Leaves, state' = state, mode' = mode,
           NEW c \in Callers, NEW at, at # "out", At(c, at), at \notin {"wrote", "freed"},
           NEW to, NEW b, Go(c, to, b), Stored' = Stored, NothingElse
    PROVE  Ordered'
<1>1. Onward
    BY FlushModes DEF Saved, Numbers
<1>2. frame[c].at = at /\ \A d \in Callers \ {c} : frame'[d] = frame[d]
    BY GoAt DEF At, Numbers
<1>3. "hook" \in Callers
    BY DEF Callers
<1>4. Unwritten'
    BY <1>2, <1>3, StillUnwritten DEF Ordered, Leaves
<1> QED BY <1>1, <1>4, StillOrdered

LEMMA EnterEraseOrdered ==
    ASSUME IInv, IsQueue(queue), Numbers, Saved, Ordered, NEW c \in Callers, EnterErase(c)
    PROVE  Ordered'
<1>1. /\ Leaves /\ state' = state /\ flash' = flash /\ queue' = queue /\ mode' = mode
      /\ At(c, "loop") /\ Go(c, "erase", f)
    BY DEF EnterErase, Enter, logVars, chipVars, Leaves
<1>2. Stored' = Stored /\ NothingElse
    BY <1>1, SameChip
<1> QED BY <1>1, <1>2, GoneOrdered

LEMMA EnterWriteOrdered ==
    ASSUME IInv, IsQueue(queue), Numbers, Saved, Ordered, NEW c \in Callers, EnterWrite(c)
    PROVE  Ordered'
<1>1. /\ Leaves /\ state' = "WRITTING" /\ flash' = flash /\ queue' = queue /\ mode' = mode
      /\ At(c, "loop") /\ Go(c, "write", f)
      /\ state \in {"ERASED", "WRITTING"} /\ buf[f].state \in Mask(c) /\ buf[f].data # <<>>
    BY DEF EnterWrite, Enter, logVars, chipVars, Leaves
<1>2. Stored' = Stored /\ NothingElse
    BY <1>1, SameChip
<1>3. Onward
    BY <1>1, FlushModes DEF Saved, Numbers
<1>4. frame[c].at = "loop" /\ \A d \in Callers \ {c} : frame'[d] = frame[d]
    BY <1>1, GoAt DEF At, Numbers
<1>5. mode = "run" /\ frame'["hook"].at \notin {"wrote", "freed"} =>
            frame["hook"].at \notin {"wrote", "freed"}
    <2>1. "hook" \in Callers
        BY DEF Callers
    <2> QED BY <1>4, <2>1
<1>6. Unwritten'
    BY <1>1, <1>2, <1>5 DEF Unwritten, Ordered, Saved, Image, Leaves
<1>7. FullText'
    <2> SUFFICES ASSUME f # w PROVE Len(buf[f].data) = SECTOR
        BY <1>1 DEF FullText, Leaves
    <2>1. f \in Buffers /\ buf[f].state # "WRITTING" /\ Lengths(buf[f])
        BY DEF IInv, OnlyWriterFills
    <2>2. buf[f].state = "WRITTEN"
        BY <1>1, <2>1 DEF Mask
    <2> QED BY <2>1, <2>2 DEF Lengths
<1>8. state # "IDLE"
    BY <1>1
<1> QED BY <1>1, <1>2, <1>3, <1>6, <1>7, <1>8, StillOrdered

LEMMA RefusedOrdered ==
    ASSUME IInv, IsQueue(queue), Numbers, Saved, Ordered, NEW c \in Callers,
           NEW at, at # "out", at \notin {"wrote", "freed"}, At(c, at),
           Refused(c), Go(c, "loop", 0), Leaves, state' = state, mode' = mode
    PROVE  Ordered'
<1>1. Stored' = Stored /\ NothingElse
    BY Executed DEF Refused
<1> QED BY <1>1, GoneOrdered

LEMMA RemainDoneOrdered ==
    ASSUME IInv, IsQueue(queue), Numbers, Saved, Ordered, RemainDone PROVE Ordered'
<1>1. /\ Leaves /\ state' = state /\ flash' = Stored /\ queue' = <<>>
      /\ mode' = (IF mode = "end" THEN "off" ELSE mode)
      /\ At("remain", "loop")
    BY DEF RemainDone, logVars, ghostVars, Leaves
<1>2. "remain" \in Callers
    BY DEF Callers
<1>3. mode = "end" /\ mode' = "off"
    BY <1>1, <1>2, WhoFlushes DEF Saved, Numbers
<1>4. Stored' = Stored /\ NothingElse
    BY <1>1, AllExecuted
<1> QED BY <1>1, <1>3, <1>4, StillOrdered DEF Onward, Unwritten

LEMMA CrashStartOrdered ==
    ASSUME IInv, IsQueue(queue), Numbers, Saved, Ordered, CrashStart PROVE Ordered'
<1>1. /\ Leaves /\ state' = state /\ flash' = flash /\ queue' = queue
      /\ mode = "run" /\ mode' = "crash"
    BY DEF CrashStart, logVars, chipVars, ghostVars, Leaves
<1>2. Stored' = Stored /\ NothingElse
    BY <1>1, SameChip
<1> QED BY <1>1, <1>2, StillOrdered DEF Onward, Unwritten

LEMMA CrashEndOrdered ==
    ASSUME IInv, IsQueue(queue), Numbers, Saved, Ordered, CrashEnd PROVE Ordered'
<1>1. /\ Leaves /\ state' = state /\ flash' = flash /\ queue' = queue
      /\ mode = "crash" /\ mode' = "end"
    BY DEF CrashEnd, logVars, chipVars, ghostVars, Leaves
<1>2. Stored' = Stored /\ NothingElse
    BY <1>1, SameChip
<1> QED BY <1>1, <1>2, StillOrdered DEF Onward, Unwritten

LEMMA ExecuteOrdered ==
    ASSUME IInv, IsQueue(queue), Numbers, Saved, Ordered, Execute PROVE Ordered'
<1>1. Leaves /\ state' = state /\ mode' = mode /\ frame' = frame
    BY DEF Execute, logVars, flushVars, ghostVars, Leaves
<1>2. Stored' = Stored /\ NothingElse
    BY Executed DEF Execute
<1>3. Unwritten'
    BY <1>1, <1>2, StillUnwritten DEF Ordered, Leaves
<1> QED BY <1>1, <1>2, <1>3, StillOrdered DEF Onward

LEMMA StutterOrdered ==
    ASSUME IInv, IsQueue(queue), Numbers, Saved, Ordered, UNCHANGED vars PROVE Ordered'
<1>1. /\ Leaves /\ state' = state /\ mode' = mode /\ frame' = frame
      /\ flash' = flash /\ queue' = queue
    BY DEF vars, logVars, flushVars, chipVars, ghostVars, Leaves
<1>2. Stored' = Stored /\ NothingElse
    BY <1>1, SameChip
<1>3. Unwritten'
    BY <1>1, <1>2, StillUnwritten DEF Ordered, Leaves
<1> QED BY <1>1, <1>2, <1>3, StillOrdered DEF Onward

-----------------------------------------------------------------------------
(***************************************************************************)
(* Erasing and writing keep the order                                      *)
(***************************************************************************)

(* The sector that is erased next is the one of the smallest number.       *)
LEMMA OldestSector ==
    ASSUME NEW fl, NEW N \in Nat, Numbered(fl, N), NEW o \in Sectors, NEW n \in Nat,
           Rowed(fl), Trails(fl, o, n), Under(fl, n), o \in Headers(fl),
           NEW t \in Headers(fl), t # o
    PROVE  SeqAt(fl, o) < SeqAt(fl, t)
<1>1. SeqAt(fl, o) \in Nat /\ SeqAt(fl, t) \in Nat /\ SeqAt(fl, o) < n
    BY DEF Numbered, Under
<1>2. Way(t, o) = n - SeqAt(fl, t)
    BY DEF Trails
<1>3. SeqAt(fl, t) <= SeqAt(fl, o) => Way(t, o) = SeqAt(fl, o) - SeqAt(fl, t)
    BY DEF Rowed
<1> QED BY <1>1, <1>2, <1>3

(* A piece on a sector or in a buffer is an entry of its text.             *)
LEMMA SectorEntry ==
    ASSUME NEW fl, NEW N \in Nat, Numbered(fl, N), Textual(fl), NEW b,
           NEW s \in Sectors, NEW u, OnSector(fl, s, u)
    PROVE  /\ s \in Headers(fl) /\ SeqAt(fl, s) \in Nat
           /\ \E j \in Places : Entry(fl, b, SeqAt(fl, s), j, u)
<1>1. PICK j \in Places : fl[Cell(s, j)] = Log(u)
    BY DEF OnSector
<1>2. ~IsBlank(fl, s)
    BY BlankSector
<1>3. s \in Headers(fl)
    BY <1>2, HeadersAre DEF Textual, Headed
<1>4. fl[s * SECTOR] = Hdr(SeqAt(fl, s)) /\ SeqAt(fl, s) \in Nat
    BY <1>3 DEF Numbered
<1> QED BY <1>1, <1>3, <1>4 DEF Entry

LEMMA BufferEntry ==
    ASSUME IInv, BuffersNumbered, NEW fl, NEW i \in Buffers, InUse(buf[i]),
           NEW u, Holds(buf[i], u)
    PROVE  \E j \in Places : Entry(fl, buf, Num(buf[i]), j, u)
<1>1. PICK j \in DOMAIN buf[i].data : buf[i].data[j] = Log(u)
    BY DEF Holds
<1>2. j \in Places
    BY <1>1, BufferCells, SizesAssumption DEF Places
<1>3. buf[i].data[1] = Hdr(Num(buf[i]))
    BY DEF BuffersNumbered
<1> QED BY <1>1, <1>2, <1>3 DEF Entry

LEMMA BufferNumber ==
    ASSUME IInv, Behind, BuffersNumbered, NEW i \in Buffers, InUse(buf[i])
    PROVE  Num(buf[i]) = Base + Dist(f, i) /\ Num(buf[i]) \in Nat
           /\ Dist(f, i) \in Nat /\ (Dist(f, i) = 0 <=> f = i)
<1>1. Dist(f, i) \in Nat /\ (Dist(f, i) = 0 <=> f = i)
    BY DistFacts DEF IInv
<1> QED BY <1>1 DEF Behind, Base, BuffersNumbered

(* The flush stands at the start of a sector.                              *)
LEMMA SamePlace ==
    ASSUME Placed, ~Over, NEW s \in Sectors, offs = s * SECTOR
    PROVE  /\ Trails(Stored, s, Base)
           /\ state # "IDLE" /\ s \in Headers(Stored) => SeqAt(Stored, s) = Base
<1>1. PICK o \in Sectors :
        /\ offs = o * SECTOR /\ Trails(Stored, o, Base)
        /\ state # "IDLE" /\ o \in Headers(Stored) => SeqAt(Stored, o) = Base
    BY DEF Placed
<1>2. o = s
    BY <1>1, SectorOnce
<1> QED BY <1>1, <1>2

(* With a sector of the smallest number no piece is lost but the first.    *)
LEMMA ErasedGap ==
    ASSUME IInv, IsQueue(queue), Numbers, Saved, Ordered, ~Over, state = "IDLE", mode = "run",
           NEW s \in Sectors, offs = s * SECTOR,
           NEW gl, Elsewhere(Stored, gl, s), IsBlank(gl, s)
    PROVE  NoGap(gl, buf, logged, lost)
<1>1. /\ Behind /\ Base \in Nat /\ Beyond = Base /\ cur \in Nat /\ Numbered(Stored, cur)
      /\ logged \in Nat
    BY BaseNat, StoredNumbered DEF Beyond, Numbers, IInv
<1>2. Textual(Stored) /\ Rowed(Stored) /\ Sorted(Stored, buf)
    BY StoredOrdered DEF Ordered
<1>3. Under(Stored, Base) /\ Trails(Stored, s, Base)
    BY <1>1, StoredLow, SamePlace DEF Ordered
<1>4. BuffersNumbered
    BY DEF Numbers
<1> SUFFICES ASSUME NEW u \in 1 .. logged, NEW x \in 1 .. logged, Keeps(gl, buf, u), u <= x,
                    ~Keeps(gl, buf, x), x \notin lost
             PROVE  FALSE
    BY DEF NoGap
<1>5. \A t \in Sectors : \A v : OnSector(gl, t, v) => t # s /\ OnSector(Stored, t, v)
    BY BlankSector, ElsewhereSame
<1>6. Keeps(Stored, buf, u)
    BY <1>5 DEF Keeps
<1>7. Keeps(Stored, buf, x)
    BY <1>6 DEF Ordered, Gapless, NoGap
<1>8. OnSector(Stored, s, x)
    BY <1>7, ElsewhereSame DEF Keeps
<1>9. PICK m : m = SeqAt(Stored, s) /\ \E j \in Places : Entry(Stored, buf, m, j, x)
    BY <1>1, <1>2, <1>8, SectorEntry
<1>10. m \in Nat /\ s \in Headers(Stored) /\ m < Base
    BY <1>1, <1>2, <1>3, <1>8, <1>9, SectorEntry DEF Under
<1>11. \E n \in Nat, k \in Places : m < n /\ Entry(Stored, buf, n, k, u)
    <2>1. CASE \E t \in Sectors : OnSector(gl, t, u)
        <3>1. PICK t \in Sectors : t # s /\ OnSector(Stored, t, u)
            BY <1>5, <2>1
        <3>2. t \in Headers(Stored) /\ SeqAt(Stored, t) \in Nat
              /\ \E k \in Places : Entry(Stored, buf, SeqAt(Stored, t), k, u)
            BY <1>1, <1>2, <3>1, SectorEntry
        <3>3. m < SeqAt(Stored, t)
            BY <1>1, <1>2, <1>3, <1>9, <1>10, <3>1, <3>2, OldestSector
        <3> QED BY <3>2, <3>3
    <2>2. CASE \E i \in Buffers : InUse(buf[i]) /\ Holds(buf[i], u)
        <3>1. PICK i \in Buffers : InUse(buf[i]) /\ Holds(buf[i], u)
            BY <2>2
        <3>2. PICK n : n = Num(buf[i]) /\ n \in Nat /\ Base <= n
            BY <1>1, <1>4, <3>1, BufferNumber
        <3>3. PICK k \in Places : Entry(Stored, buf, n, k, u)
            BY <1>4, <3>1, <3>2, BufferEntry
        <3> QED BY <1>1, <1>10, <3>2, <3>3
    <2> QED BY <2>1, <2>2 DEF Keeps
<1>12. x < u
    BY <1>2, <1>9, <1>10, <1>11 DEF Sorted, Sooner
<1> QED BY <1>12

LEMMA EraseOrdered ==
    ASSUME IInv, IsQueue(queue), Numbers, Saved, Ordered, NEW c \in Callers, Erase(c)
    PROVE  Ordered'
<1>1. /\ Leaves /\ Go(c, "loop", 0) /\ At(c, "erase") /\ mode' = mode
      /\ Inside(c) /\ frame[c].at = "erase"
    BY AtInside DEF Erase, logVars, ghostVars, Leaves
<1>2. CASE Refused(c) /\ state' = state
    BY <1>1, <1>2, RefusedOrdered
<1>3. CASE Accepted(c, EraseOp) /\ state' = "ERASED"
    <2>1. NothingElse
        BY <1>3, Added
    <2>2. state = "IDLE"
        BY <1>1 DEF Numbers, Steps, InsideOK
    <2>3. PICK s \in Sectors : offs = s * SECTOR /\ Erased(s)
        BY <1>1, <1>3, EraseAccepted
    <2>4. PICK gl : gl = Stored'
        OBVIOUS
    <2>5. Elsewhere(Stored, gl, s) /\ IsBlank(gl, s)
        BY <1>1, <2>3, <2>4, BlankedSector DEF Erased, Leaves
    <2>6. Textual(Stored) /\ Rowed(Stored) /\ Sorted(Stored, buf)
        BY StoredOrdered DEF Ordered
    <2>7. Textual(gl) /\ Rowed(gl) /\ Sorted(gl, buf)
        BY <2>5, <2>6, ErasedOrder
    <2>8. buf' = buf /\ f' = f /\ w' = w /\ cur' = cur /\ offs' = offs
          /\ logged' = logged /\ lost' = lost
        BY <1>1 DEF Leaves
    <2>9. ChipOrdered'
        BY <2>1, <2>4, <2>7, <2>8, StillChip DEF Ordered, ChipOrdered
    <2>10. Base' = Base /\ Beyond' = Base /\ Beyond = Base /\ Shaped(buf)' /\ (Over' <=> Over)
        BY <1>1, <1>3, <2>2, <2>8 DEF Base, Beyond, Ahead, Filled, Ordered, Shaped, Over, Emptied
    <2>11. s \notin Headers(gl)
           /\ \A t \in Headers(gl) : t \in Headers(Stored) /\ SeqAt(gl, t) = SeqAt(Stored, t)
        BY <2>5, BlankSector, OtherHeaders, HeadersAre
    <2>12. ~Over => Base \in Nat /\ Under(gl, Base) /\ Trails(gl, s, Base)
        <3> SUFFICES ASSUME ~Over PROVE Base \in Nat /\ Under(gl, Base) /\ Trails(gl, s, Base)
            OBVIOUS
        <3>1. Under(Stored, Base) /\ Trails(Stored, s, Base) /\ Base \in Nat
            BY <2>3, <2>10, BaseNat, StoredLow, SamePlace DEF Ordered
        <3> QED BY <2>11, <3>1 DEF Under, Trails
    <2>13. Low'
        <3>1. PICK p : p = Base
            OBVIOUS
        <3>2. Beyond' = p /\ Beyond = p /\ p \in Int
            <4>1. w \in Buffers /\ f \in Buffers /\ cur \in Nat /\ Dist(f, w) \in Nat
                BY DistFacts DEF IInv, Numbers, BuffersNumbered
            <4>2. Base \in Int
                BY <4>1 DEF Base, Ahead, Filled
            <4> QED BY <2>10, <3>1, <4>2
        <3>3. ~Over => Under(Stored', p)
            BY <2>4, <2>12, <3>1
        <3> QED BY <2>1, <2>10, <3>2, <3>3, StillLow DEF Ordered
    <2>14. Placed'
        <3>1. ~Over => Trails(Stored', s, Base) /\ s \notin Headers(Stored')
            BY <2>4, <2>11, <2>12
        <3> QED BY <2>3, <2>8, <2>10, <3>1 DEF Placed
    <2>15. Unwritten' /\ FullText'
        BY <1>3 DEF Unwritten, FullText
    <2>16. Gapless'
        <3> SUFFICES ASSUME mode = "run" PROVE NoGap(Stored', buf, logged, lost)
            BY <1>1, <2>8 DEF Gapless
        <3>1. ~Over
            BY DEF Over
        <3>2. NoGap(gl, buf, logged, lost)
            BY <2>2, <2>3, <2>5, <3>1, ErasedGap
        <3> QED BY <2>4, <3>2
    <2> QED BY <2>9, <2>10, <2>13, <2>14, <2>15, <2>16 DEF Ordered
<1> QED BY <1>2, <1>3 DEF Erase

(* The text of a buffer in use.                                            *)
LEMMA BufferText ==
    ASSUME IInv, BuffersNumbered, Shaped(buf), NEW i \in Buffers, InUse(buf[i])
    PROVE  IsText(buf[i].data, Num(buf[i]))
<1>1. 1 \in DOMAIN buf[i].data
    BY BufferCells DEF Places
<1> QED BY <1>1 DEF IsText, BuffersNumbered, Shaped

(* A write leaves the pieces where they are, and in a sector besides.      *)
LEMMA WrittenKeeps ==
    ASSUME NEW fl, NEW gl, NEW s \in Sectors, Elsewhere(fl, gl, s),
           NEW b, NEW i \in Buffers, InUse(b[i]),
           Partly(fl, s * SECTOR, b[i].data), Partly(gl, s * SECTOR, b[i].data), NEW u
    PROVE  Keeps(gl, b, u) <=> Keeps(fl, b, u)
<1>1. OnSector(fl, s, u) \/ OnSector(gl, s, u) => Holds(b[i], u)
    BY LogKinds DEF OnSector, Partly, Cell, Holds
<1>2. \A t \in Sectors : t # s => (OnSector(gl, t, u) <=> OnSector(fl, t, u))
    BY ElsewhereSame
<1> QED BY <1>1, <1>2 DEF Keeps

LEMMA WriteOrdered ==
    ASSUME IInv, IsQueue(queue), Numbers, Saved, Ordered, NEW c \in Callers, Write(c)
    PROVE  Ordered'
<1>1. /\ Leaves /\ At(c, "write") /\ mode' = mode /\ state' = state
      /\ Inside(c) /\ frame[c].at = "write"
    BY AtInside DEF Write, logVars, ghostVars, Leaves
<1>2. CASE Refused(c) /\ Go(c, "loop", 0)
    BY <1>1, <1>2, RefusedOrdered
<1>3. CASE Accepted(c, WriteOp(frame[c].b)) /\ Go(c, "wrote", frame[c].b)
    <2>1. frame[c].b = f /\ state = "WRITTING" /\ InUse(buf[f]) /\ f \in Buffers
        BY <1>1 DEF Numbers, Steps, InsideOK, IInv
    <2>2. NothingElse
        BY <1>3, Added
    <2>3. PICK s \in Sectors : offs = s * SECTOR /\ Written(s, buf[f].data)
        BY <1>1, <1>3, WriteAccepted DEF Saved
    <2>4. PICK gl : gl = Stored'
        OBVIOUS
    <2>5. PICK d : d = buf[f].data
        OBVIOUS
    <2>6. /\ Elsewhere(Stored, gl, s) /\ Partly(gl, s * SECTOR, d) /\ Whole(gl, s * SECTOR, d)
          /\ Partly(Stored, s * SECTOR, d)
        BY <1>1, <2>1, <2>3, <2>4, <2>5 DEF Written, Leaves, Saved, Image
    <2>7. ~Over
        BY <2>1 DEF Over, Emptied
    <2>8. Behind /\ BuffersNumbered /\ cur \in Nat /\ Base \in Nat /\ Numbered(Stored, cur)
          /\ Num(buf[f]) = Base
        <3>1. Behind /\ BuffersNumbered /\ cur \in Nat /\ Base \in Nat /\ Numbered(Stored, cur)
            BY <2>7, BaseNat, StoredNumbered DEF Numbers
        <3>2. Num(buf[f]) = Base + Dist(f, f) /\ Dist(f, f) = 0
            BY <2>1, <3>1, BufferNumber
        <3> QED BY <3>1, <3>2
    <2>9. IsText(d, Base)
        BY <2>1, <2>5, <2>8, BufferText DEF Ordered
    <2>10. Textual(Stored) /\ Rowed(Stored) /\ Sorted(Stored, buf)
        BY StoredOrdered DEF Ordered
    <2>11. PICK m \in Nat : m = Base
        BY <2>8
    <2>12. Trails(Stored, s, m)
        BY <2>3, <2>7, <2>11, SamePlace DEF Ordered
    <2>13. Textual(gl) /\ Rowed(gl) /\ Sorted(gl, buf) /\ Trails(gl, s, m)
        BY <2>1, <2>5, <2>6, <2>8, <2>9, <2>10, <2>11, <2>12, WrittenOrder
    <2>14. s \in Headers(gl) /\ SeqAt(gl, s) = m
        BY <2>6, <2>9, <2>11, WrittenText
    <2>15. buf' = buf /\ f' = f /\ w' = w /\ cur' = cur /\ offs' = offs
          /\ logged' = logged /\ lost' = lost
        BY <1>1 DEF Leaves
    <2>16. ChipOrdered'
        BY <2>2, <2>4, <2>13, <2>15, StillChip DEF Ordered, ChipOrdered
    <2>17. Base' = m /\ Beyond' = m + 1 /\ Beyond = m + 1 /\ Shaped(buf)' /\ ~Over'
        BY <1>1, <2>1, <2>7, <2>11, <2>15
           DEF Base, Beyond, Ahead, Filled, Ordered, Shaped, Over, Emptied
    <2>18. Under(gl, m + 1)
        <3>1. Under(Stored, m + 1)
            BY <2>7, <2>17, StoredLow DEF Ordered
        <3>2. \A t \in Headers(gl) : t # s => t \in Headers(Stored) /\ SeqAt(gl, t) = SeqAt(Stored, t)
            BY <2>6, OtherHeaders, HeadersAre
        <3> QED BY <2>14, <3>1, <3>2 DEF Under
    <2>19. Low'
        <3>1. PICK p : p = m + 1 /\ p \in Int
            OBVIOUS
        <3>2. Under(Stored', p) /\ Beyond' = p /\ Beyond = p
            BY <2>4, <2>17, <2>18, <3>1
        <3> QED BY <2>2, <2>7, <3>1, <3>2, StillLow DEF Ordered
    <2>20. Placed'
        <3>1. Trails(Stored', s, m) /\ SeqAt(Stored', s) = m
            BY <2>4, <2>13, <2>14
        <3> QED BY <2>3, <2>15, <2>17, <3>1 DEF Placed
    <2>21. Unwritten'
        <3> SUFFICES ASSUME mode = "run" PROVE frame'["hook"].at = "wrote"
            BY <1>1 DEF Unwritten
        <3>1. c = "hook"
            BY <1>1, WhoFlushes DEF Saved, Numbers, Callers
        <3>2. frame'[c].at = "wrote"
            BY <1>3, GoAt DEF Numbers
        <3> QED BY <3>1, <3>2
    <2>22. FullText'
        BY <1>1, <2>15 DEF Ordered, FullText
    <2>23. Gapless'
        <3> SUFFICES ASSUME mode = "run" PROVE NoGap(Stored', buf, logged, lost)
            BY <1>1, <2>15 DEF Gapless
        <3>1. \A u : Keeps(gl, buf, u) <=> Keeps(Stored, buf, u)
            BY <2>1, <2>5, <2>6, WrittenKeeps
        <3>2. NoGap(gl, buf, logged, lost)
            BY <3>1 DEF Ordered, Gapless, NoGap
        <3> QED BY <2>4, <3>2
    <2> QED BY <2>16, <2>17, <2>19, <2>20, <2>21, <2>22, <2>23 DEF Ordered
<1> QED BY <1>2, <1>3 DEF Write

-----------------------------------------------------------------------------
(***************************************************************************)
(* Freeing the buffer and going on keep the order                          *)
(***************************************************************************)

(* The pieces of a buffer that is written are on the flash.                *)
LEMMA WholeKeeps ==
    ASSUME NEW fl, NEW s \in Sectors, NEW b, NEW c, NEW i \in Buffers,
           Whole(fl, s * SECTOR, b[i].data), InUse(b[i]) => DOMAIN b[i].data \subseteq Places,
           \A k \in Buffers : k # i => c[k] = b[k], NEW u, Keeps(fl, b, u)
    PROVE  Keeps(fl, c, u)
<1>1. CASE \E t \in Sectors : OnSector(fl, t, u)
    BY <1>1 DEF Keeps
<1>2. CASE \E k \in Buffers : k # i /\ InUse(b[k]) /\ Holds(b[k], u)
    BY <1>2 DEF Keeps
<1>3. CASE InUse(b[i]) /\ Holds(b[i], u)
    <2>1. PICK j \in DOMAIN b[i].data : b[i].data[j] = Log(u)
        BY <1>3 DEF Holds
    <2>2. j \in Places /\ fl[Cell(s, j)] = Log(u)
        BY <1>3, <2>1 DEF Whole, Cell
    <2>3. OnSector(fl, s, u)
        BY <2>2 DEF OnSector
    <2> QED BY <2>3 DEF Keeps
<1> QED BY <1>1, <1>2, <1>3 DEF Keeps

(* A buffer that is freed takes its pieces away.                           *)
LEMMA FreedSorted ==
    ASSUME NEW fl, NEW b, NEW c, Sorted(fl, b),
           \A i \in Buffers : InUse(c[i]) => InUse(b[i]) /\ c[i].data = b[i].data
    PROVE  Sorted(fl, c)
<1>1. \A s \in Sectors, m \in Nat, j \in Places, u \in Nat :
          fl[s * SECTOR] = Hdr(m) /\ fl[Cell(s, j)] = Log(u) => Entry(fl, b, m, j, u)
    BY DEF Entry
<1>2. Includes(fl, b, fl, c)
    BY <1>1, AllIncluded
<1> QED BY <1>2, FewerSorted

LEMMA SetFreeOrdered ==
    ASSUME IInv, IsQueue(queue), Numbers, Saved, Ordered, NEW c \in Callers, SetFree(c)
    PROVE  Ordered'
<1>1. /\ w' = w /\ f' = f /\ cur' = cur /\ offs' = offs /\ state' = state /\ mode' = mode
      /\ logged' = logged /\ lost' = lost
      /\ flash' = flash /\ queue' = queue
      /\ buf' = [buf EXCEPT ![frame[c].b].state = "FREE"] /\ Go(c, "freed", frame[c].b)
      /\ At(c, "wrote") /\ Inside(c) /\ frame[c].at = "wrote"
    BY AtInside DEF SetFree, chipVars, ghostVars
<1>2. frame[c].b = f /\ state = "WRITTING" /\ f \in Buffers /\ w \in Buffers
      /\ offs % SECTOR = 0 /\ offs \in Cells
    BY <1>1 DEF Numbers, Steps, InsideOK, IInv, Position
<1>3. Stored' = Stored /\ NothingElse
    BY <1>1, SameChip
<1>4. /\ \A i \in Buffers : i # f => buf'[i] = buf[i]
      /\ ~InUse(buf'[f]) /\ buf'[f].data = buf[f].data /\ buf'[f].state = "FREE"
    <2>1. buf = [i \in Buffers |-> buf[i]]
        BY DEF IInv
    <2>2. \A i \in Buffers : i # f => buf'[i] = buf[i]
        BY <1>1, <1>2, <2>1
    <2>3. PICK S : buf[f] \in [state : {"FREE", "WRITTING", "WRITTEN"}, data : Seq(S)]
        BY <1>2 DEF IInv, IsBuffer
    <2>4. buf'[f] = [buf[f] EXCEPT !.state = "FREE"]
        BY <1>1, <1>2, <2>1
    <2>5. buf'[f].state = "FREE" /\ buf'[f].data = buf[f].data
        BY <2>3, <2>4
    <2> QED BY <2>2, <2>5 DEF InUse
<1>5. \A i \in Buffers : buf'[i].data = buf[i].data
                         /\ (InUse(buf'[i]) => i # f /\ buf'[i] = buf[i])
    BY <1>4
<1>6. mode \in {"run", "end"} /\ (mode = "run" => c = "hook")
    BY <1>1, WhoFlushes DEF Saved, Numbers, Callers
<1>7. Over => Over'
    BY <1>1, <1>5 DEF Over, Emptied
<1>8. ~Over' => Base' = Base /\ Beyond' = Beyond
    <2> SUFFICES ASSUME ~Over' PROVE Filled' = Filled
        BY <1>1 DEF Base, Beyond, Ahead
    <2>1. CASE f = w /\ buf[w].state = "WRITTING"
        <3>1. mode = "end"
            BY <1>2, <1>6, <2>1 DEF Saved, Image
        <3>2. Behind /\ Ahead = 1
            BY <1>2, <1>7, <2>1, BaseNat, DistFacts DEF Ahead, Filled
        <3>3. ASSUME NEW i \in Buffers, InUse(buf[i]) PROVE i = f
            <4>1. Dist(f, i) < 1
                BY <3>2, <3>3 DEF Behind
            <4>2. Dist(f, i) \in Nat /\ (Dist(f, i) = 0 <=> f = i)
                BY <1>2, DistFacts
            <4> QED BY <4>1, <4>2
        <3>4. Emptied'
            BY <1>5, <3>3 DEF Emptied
        <3> QED BY <1>1, <3>1, <3>4 DEF Over
    <2>2. CASE ~(f = w /\ buf[w].state = "WRITTING")
        BY <1>1, <1>2, <1>4, <2>2 DEF Filled
    <2> QED BY <2>1, <2>2
<1>9. PICK b : b = buf' /\ \A i \in Buffers : InUse(b[i]) => InUse(buf[i]) /\ b[i].data = buf[i].data
    BY <1>5
<1>10. ChipOrdered'
    <2>1. ASSUME NEW fl, Sorted(fl, buf) PROVE Sorted(fl, b)
        BY <1>9, <2>1, FreedSorted
    <2>2. \A k \in 0 .. Len(queue) : Sorted(After(k), b)
        BY <2>1 DEF Ordered, ChipOrdered
    <2>3. Textual(Stored) /\ Rowed(Stored) /\ Sorted(Stored, b)
        BY <2>1, StoredOrdered DEF Ordered
    <2> QED BY <1>3, <1>9, <2>2, <2>3, StillChip DEF Ordered
<1>11. Shaped(buf)'
    BY <1>5 DEF Ordered, Shaped
<1>12. Low'
    <2>1. PICK p : p = Beyond
        OBVIOUS
    <2>2. ~Over => p \in Nat /\ Under(Stored, p)
        BY <2>1, BaseNat, StoredLow DEF Ordered
    <2>3. ~Over' => p \in Nat /\ Beyond' = p /\ Under(Stored', p)
        BY <1>3, <1>7, <1>8, <2>1, <2>2
    <2>4. CASE ~Over'
        BY <1>3, <1>7, <2>1, <2>3, <2>4, StillLow DEF Ordered
    <2>5. CASE Over'
        BY <2>5 DEF Low
    <2> QED BY <2>4, <2>5
<1>13. Placed'
    BY <1>1, <1>3, <1>7, <1>8 DEF Ordered, Placed
<1>14. Unwritten'
    <2>1. mode = "run" => frame'["hook"].at = "freed"
        BY <1>1, <1>6, GoAt DEF Numbers
    <2> QED BY <1>1, <2>1 DEF Unwritten
<1>15. FullText'
    BY <1>1, <1>4 DEF Ordered, FullText
<1>16. Gapless'
    <2> SUFFICES ASSUME mode = "run" PROVE NoGap(Stored, b, logged, lost)
        BY <1>1, <1>3, <1>9 DEF Gapless
    <2>1. PICK s \in Sectors : offs = s * SECTOR
        BY <1>2, AtSector
    <2>2. Whole(Stored, s * SECTOR, buf[f].data)
        BY <1>1, <2>1 DEF Saved, Image
    <2>3. InUse(buf[f]) => DOMAIN buf[f].data \subseteq Places
        BY <1>2, BufferCells, SizesAssumption DEF Places
    <2>4. \A k \in Buffers : k # f => b[k] = buf[k]
        BY <1>4, <1>9
    <2>5. \A u : Keeps(Stored, buf, u) => Keeps(Stored, b, u)
        BY <1>2, <2>2, <2>3, <2>4, WholeKeeps
    <2>6. \A u : Keeps(Stored, b, u) => Keeps(Stored, buf, u)
        BY <1>9 DEF Keeps, Holds
    <2> QED BY <2>5, <2>6 DEF Ordered, Gapless, NoGap
<1> QED BY <1>10, <1>11, <1>12, <1>13, <1>14, <1>15, <1>16 DEF Ordered

(* Behind a full text the position is the next sector.                     *)
LEMMA NextPlace ==
    ASSUME NEW s \in Sectors, NEW at \in Nat, at = s * SECTOR, NEW to,
           to = IF at + SECTOR >= Size THEN 0 ELSE at + SECTOR
    PROVE  to = NextSector(s) * SECTOR
<1>1. /\ SECTOR \in Nat /\ SECTOR >= 2 /\ SECTORS \in Nat /\ SECTORS >= 2
      /\ s \in Nat /\ s < SECTORS /\ Size \in Nat
    BY SizesAssumption, SectorCells DEF Sectors
<1>2. (s + 1) * SECTOR = at + SECTOR
    <2>1. \A a, c \in Nat : (a + 1) * c = a * c + c
        OBVIOUS
    <2> QED BY <1>1, <2>1
<1>3. CASE s + 1 = SECTORS
    <2>1. at + SECTOR = Size
        BY <1>1, <1>2, <1>3 DEF Size
    <2>2. to = 0 /\ NextSector(s) = 0
        BY <1>1, <1>3, <2>1 DEF NextSector
    <2>3. 0 * SECTOR = 0
        BY <1>1
    <2> QED BY <2>2, <2>3
<1>4. CASE s + 1 # SECTORS
    <2>1. s + 1 \in Sectors /\ NextSector(s) = s + 1
        BY <1>1, <1>4 DEF Sectors, NextSector
    <2>2. (s + 1) * SECTOR + SECTOR <= Size
        BY <2>1, SectorCells
    <2>3. at + SECTOR + SECTOR <= Size
        BY <1>2, <2>2
    <2>4. to = at + SECTOR
        BY <1>1, <2>3
    <2> QED BY <1>2, <2>1, <2>4
<1> QED BY <1>3, <1>4

(* From a sector to the next, its number being the last.                   *)
LEMMA TrailsOn ==
    ASSUME NEW fl, NEW N \in Nat, Numbered(fl, N), NEW o \in Sectors, NEW n \in Nat,
           Trails(fl, o, n), o \in Headers(fl) => SeqAt(fl, o) = n
    PROVE  Trails(fl, NextSector(o), n + 1)
<1> DEFINE p == NextSector(o)
<1> SUFFICES ASSUME NEW s \in Headers(fl), s # p
             PROVE  SeqAt(fl, s) < n + 1 /\ Way(s, p) = (n + 1) - SeqAt(fl, s)
    BY DEF Trails
<1>1. SeqAt(fl, s) \in Nat /\ s \in Sectors
    BY HeadersAre DEF Numbered
<1>2. CASE s = o
    BY <1>1, <1>2, WayFacts
<1>3. CASE s # o
    <2>1. SeqAt(fl, s) < n /\ Way(s, o) = n - SeqAt(fl, s)
        BY <1>3 DEF Trails
    <2>2. Way(s, p) = Way(s, o) + 1
        BY <1>1, WayFacts
    <2> QED BY <1>1, <2>1, <2>2
<1> QED BY <1>2, <1>3

LEMMA AdvanceOrdered ==
    ASSUME IInv, IsQueue(queue), Numbers, Saved, Ordered, NEW c \in Callers, Advance(c)
    PROVE  Ordered'
<1> DEFINE to == offs + Len(buf[frame[c].b].data)
<1>1. /\ buf' = buf /\ w' = w /\ f' = NextBuf(f) /\ cur' = cur /\ state' = "IDLE"
      /\ mode' = mode /\ logged' = logged /\ lost' = lost
      /\ flash' = flash /\ queue' = queue
      /\ offs' = (IF to >= Size THEN 0 ELSE to) /\ Go(c, "loop", 0)
      /\ At(c, "freed") /\ Inside(c) /\ frame[c].at = "freed"
    BY AtInside DEF Advance, chipVars, ghostVars
<1>2. frame[c].b = f /\ state = "WRITTING" /\ f \in Buffers /\ w \in Buffers
      /\ offs \in Cells /\ offs % SECTOR = 0 /\ cur \in Nat
    BY <1>1 DEF Numbers, Steps, InsideOK, IInv, Position, BuffersNumbered
<1>3. Stored' = Stored /\ NothingElse
    BY <1>1, SameChip
<1>4. ~InUse(buf[f]) /\ (mode \in {"run", "crash"} => f # w)
    BY <1>1, <1>2 DEF Saved, Image
<1>5. mode \in {"run", "end"}
    BY <1>1, WhoFlushes DEF Saved, Numbers
<1>6. Over' <=> Over
    BY <1>1 DEF Over, Emptied
<1>7. ~Over => f # w
    <2> SUFFICES ASSUME ~Over, f = w PROVE FALSE
        OBVIOUS
    <2>1. mode = "end"
        BY <1>4, <1>5
    <2>2. Behind /\ Ahead = 0
        BY <1>2, <1>4, BaseNat, DistFacts DEF Ahead, Filled, InUse
    <2>3. Emptied
        BY <1>2, <2>2, DistFacts DEF Behind, Emptied
    <2> QED BY <2>1, <2>3 DEF Over
<1>8. PICK n : n = Base
    OBVIOUS
<1>9. ~Over => n \in Nat /\ Base' = n + 1 /\ Beyond' = n + 1 /\ Beyond = n + 1
    <2> SUFFICES ASSUME ~Over
                 PROVE  n \in Nat /\ Base' = n + 1 /\ Beyond' = n + 1 /\ Beyond = n + 1
        OBVIOUS
    <2>1. Dist(f', w) = Dist(f, w) - 1 /\ Dist(f, w) \in Nat
        BY <1>1, <1>2, <1>7, DistFacts
    <2>2. Filled' = Filled /\ Filled \in {0, 1}
        BY <1>1 DEF Filled
    <2>3. Ahead' = Ahead - 1 /\ Ahead \in Int
        BY <1>1, <2>1, <2>2 DEF Ahead
    <2>4. Base' = Base + 1 /\ Base \in Nat
        BY <1>1, <1>2, <2>3, BaseNat DEF Base
    <2> QED BY <1>1, <1>2, <1>8, <2>4 DEF Beyond
<1>10. Low'
    <2>1. PICK p : p = n + 1
        OBVIOUS
    <2>2. ~Over' => p \in Nat /\ Beyond' = p /\ Beyond = p /\ Under(Stored', p)
        BY <1>3, <1>6, <1>9, <2>1, StoredLow DEF Ordered
    <2>3. CASE ~Over'
        BY <1>3, <1>6, <2>2, <2>3, StillLow DEF Ordered
    <2>4. CASE Over'
        BY <2>4 DEF Low
    <2> QED BY <2>3, <2>4
<1>11. Placed'
    <2> SUFFICES ASSUME ~Over
                 PROVE  \E p \in Sectors : offs' = p * SECTOR /\ Trails(Stored, p, n + 1)
        BY <1>1, <1>3, <1>6, <1>9 DEF Placed
    <2>1. PICK o \in Sectors : offs = o * SECTOR
        BY <1>2, AtSector
    <2>2. Trails(Stored, o, n) /\ (o \in Headers(Stored) => SeqAt(Stored, o) = n)
        BY <1>2, <1>8, <2>1, SamePlace DEF Ordered
    <2>3. Trails(Stored, NextSector(o), n + 1)
        BY <1>2, <1>9, <2>2, TrailsOn, StoredNumbered DEF Numbers
    <2>4. Len(buf[f].data) = SECTOR
        BY <1>2, <1>7 DEF Ordered, FullText
    <2>5. PICK at \in Nat : at = offs
        BY <1>2 DEF Cells
    <2>6. offs' = IF at + SECTOR >= Size THEN 0 ELSE at + SECTOR
        BY <1>1, <1>2, <2>4, <2>5
    <2>7. offs' = NextSector(o) * SECTOR
        BY <2>1, <2>5, <2>6, NextPlace
    <2> QED BY <2>1, <2>3, <2>7, WayFacts
<1>12. ChipOrdered'
    BY <1>1, <1>3, StoredOrdered, StillChip DEF Ordered, ChipOrdered
<1>13. Shaped(buf)' /\ Unwritten' /\ FullText' /\ Gapless'
    BY <1>1, <1>3 DEF Ordered, Shaped, Unwritten, FullText, Gapless
<1> QED BY <1>10, <1>11, <1>12, <1>13 DEF Ordered

-----------------------------------------------------------------------------
(***************************************************************************)
(* Tracing keeps the order                                                 *)
(***************************************************************************)

(* The pieces behind those of a buffer.                                    *)
Carries(e, d, from, n) ==
    /\ DOMAIN e = 1 .. (Len(d) + n)
    /\ \A j \in 1 .. (Len(d) + n) : e[j] = IF j <= Len(d) THEN d[j] ELSE Log(from + (j - Len(d)))

LEMMA PiecesCarried ==
    ASSUME NEW d, IsSeq(d), NEW from \in Nat, NEW n \in Nat
    PROVE  Carries(d \o Pieces(from, n), d, from, n) /\ Len(d) \in Nat /\ DOMAIN d = 1 .. Len(d)
<1> DEFINE p == Pieces(from, n)
           e == d \o p
<1>1. PICK S : d \in Seq(S)
    BY DEF IsSeq
<1> DEFINE T == S \cup {Log(from + i) : i \in 1..n}
<1>2. p \in Seq(T) /\ Len(p) = n /\ \A i \in 1..n : p[i] = Log(from + i)
    <2>1. \A i \in 1..n : Log(from + i) \in T
        OBVIOUS
    <2>2. p = [i \in 1..n |-> Log(from + i)]
        BY DEF Pieces
    <2> HIDE DEF T
    <2> QED BY <2>1, <2>2
<1>3. d \in Seq(T) /\ Len(d) \in Nat /\ DOMAIN d = 1 .. Len(d)
    <2>1. Len(d) \in Nat /\ d \in [1 .. Len(d) -> S]
        BY <1>1, LenProperties
    <2>2. d \in [1 .. Len(d) -> T]
        BY <2>1
    <2> QED BY <2>1, <2>2, SeqDef
<1> HIDE DEF T, p
<1>4. /\ d \o p \in Seq(T) /\ Len(d \o p) = Len(d) + n
      /\ \A i \in 1 .. Len(d) + n : (d \o p)[i] = IF i <= Len(d) THEN d[i] ELSE p[i - Len(d)]
    BY <1>2, <1>3, ConcatProperties
<1>5. DOMAIN e = 1 .. Len(d) + n
    BY <1>4, LenProperties
<1>6. \A i \in 1 .. Len(d) + n : i <= Len(d) \/ i - Len(d) \in 1 .. n
    BY <1>3
<1>7. \A i \in 1 .. Len(d) + n : (d \o p)[i] = IF i <= Len(d) THEN d[i] ELSE Log(from + (i - Len(d)))
    BY <1>2, <1>4, <1>6
<1> QED BY <1>3, <1>5, <1>7 DEF Carries, p

(* Pieces are added behind l cells of the text numbered M, up to r of      *)
(* them, and to the next text.                                             *)
Topped(fl, b, M, l, L) ==
    \A m, u \in Nat, j \in Places :
        Entry(fl, b, m, j, u) => u <= L /\ m <= M /\ (m = M => j <= l)
Grows(fl, b, c, M, l, r, L) ==
    \A m, u \in Nat, j \in Places : Entry(fl, c, m, j, u) =>
        \/ Entry(fl, b, m, j, u)
        \/ m = M /\ j > l /\ j <= l + r /\ u = L + (j - l)
        \/ m = M + 1 /\ j > 1 /\ u = (L + r) + (j - 1)

LEMMA GrownSorted ==
    ASSUME NEW fl, NEW b, NEW c, Sorted(fl, b), NEW M \in Nat, NEW L \in Nat, NEW l \in Nat,
           NEW r \in Nat, l >= 1,
           Topped(fl, b, M, l, L), Grows(fl, b, c, M, l, r, L)
    PROVE  Sorted(fl, c)
<1> SUFFICES ASSUME NEW m \in Nat, NEW n \in Nat, NEW u \in Nat, NEW v \in Nat,
                    NEW j \in Places, NEW k \in Places,
                    Entry(fl, c, m, j, u), Entry(fl, c, n, k, v), Sooner(m, j, n, k)
             PROVE  u < v
    BY DEF Sorted
<1>1. j \in Nat /\ k \in Nat /\ j >= 1 /\ k >= 1
    BY SizesAssumption DEF Places
<1>2. CASE Entry(fl, b, m, j, u) /\ Entry(fl, b, n, k, v)
    BY <1>2 DEF Sorted
<1>3. CASE Entry(fl, b, m, j, u) /\ ~Entry(fl, b, n, k, v)
    <2>1. u <= L
        BY <1>3 DEF Topped
    <2>2. \/ k > l /\ v = L + (k - l)
          \/ k > 1 /\ v = (L + r) + (k - 1)
        BY <1>3 DEF Grows
    <2> QED BY ONLY <1>1, <2>1, <2>2, L \in Nat, l \in Nat, r \in Nat, u \in Nat, v \in Nat
<1>4. CASE ~Entry(fl, b, m, j, u)
    <2>1. \/ m = M /\ j > l /\ j <= l + r /\ u = L + (j - l)
          \/ m = M + 1 /\ j > 1 /\ u = (L + r) + (j - 1)
        BY <1>4 DEF Grows
    <2>2. \/ n <= M /\ (n = M => k <= l)
          \/ n = M /\ k > l /\ k <= l + r /\ v = L + (k - l)
          \/ n = M + 1 /\ k > 1 /\ v = (L + r) + (k - 1)
        BY DEF Topped, Grows
    <2>3. m < n \/ (m = n /\ j < k)
        BY DEF Sooner
    <2> QED BY ONLY <1>1, <2>1, <2>2, <2>3, L \in Nat, l \in Nat, r \in Nat, u \in Nat, v \in Nat,
                    m \in Nat, n \in Nat, M \in Nat
<1> QED BY <1>2, <1>3, <1>4

(* Whose text a trace is put to: the last, and the flash has not got it.   *)
LEMMA OldEntries ==
    ASSUME IInv, Numbers, Saved, Ordered, mode \in {"run", "crash"},
           NEW k \in 0 .. Len(queue), NEW m \in Nat, NEW u \in Nat, NEW j \in Places,
           Entry(After(k), buf, m, j, u)
    PROVE  u <= logged /\ m < Number(w) /\ (m = Number(w) - 1 => j <= Len(Started(w)))
<1>0. ~Over /\ BuffersNumbered
    BY DEF Over, Numbers
<1>1. /\ Behind /\ Base \in Nat /\ w \in Buffers /\ f \in Buffers /\ logged \in Nat
      /\ Dist(f, w) \in Nat /\ (Dist(f, w) = 0 <=> f = w)
    BY <1>0, BaseNat, DistFacts DEF IInv
<1>2. Number(w) = Base + Dist(f, w) + 1 /\ Ahead <= Dist(f, w) + 1
    <2>1. PICK e : e.data[1] = Started(w)[1]
        <3>1. [data |-> Started(w)].data[1] = Started(w)[1]
            OBVIOUS
        <3> QED BY <3>1
    <2> QED BY <1>0, <1>1, <2>1, NewNumber
<1>3. u \notin NotYet => u <= logged
    BY <1>1 DEF NotYet
<1>4. CASE \E s \in Sectors : After(k)[s * SECTOR] = Hdr(m) /\ After(k)[Cell(s, j)] = Log(u)
    <2>1. PICK s \in Sectors : After(k)[s * SECTOR] = Hdr(m) /\ After(k)[Cell(s, j)] = Log(u)
        BY <1>4
    <2>2. u <= logged
        BY <1>3, <2>1 DEF Saved, Marks, Marked, OnSector
    <2>3. s \in Headers(After(k)) /\ SeqAt(After(k), s) = m
        BY <2>1, HeadersAre, CellKinds DEF SeqAt
    <2>4. m < Beyond
        BY <1>0, <2>3 DEF Ordered, Low, Under
    <2>5. Beyond <= Base + Dist(f, w)
        BY <1>1 DEF Beyond, Saved, Image
    <2> QED BY <1>1, <1>2, <2>2, <2>4, <2>5, BaseNat, <1>0
<1>5. CASE \E i \in Buffers : /\ InUse(buf[i]) /\ buf[i].data[1] = Hdr(m)
                              /\ j \in DOMAIN buf[i].data /\ buf[i].data[j] = Log(u)
    <2>1. PICK i \in Buffers : /\ InUse(buf[i]) /\ buf[i].data[1] = Hdr(m)
                               /\ j \in DOMAIN buf[i].data /\ buf[i].data[j] = Log(u)
        BY <1>5
    <2>2. u <= logged
        BY <1>3, <2>1 DEF Saved, Texts, Holds
    <2>3. Num(buf[i]) = m
        BY <2>1, CellKinds DEF Num
    <2>4. m = Base + Dist(f, i) /\ Dist(f, i) \in Nat /\ Dist(f, i) < Ahead
        BY <1>0, <1>1, <2>1, <2>3, BufferNumber DEF Behind
    <2>5. Ahead \in Nat
        BY <1>0, BaseNat
    <2>6. m < Number(w)
        BY <1>1, <1>2, <2>4, <2>5
    <2>7. ASSUME m = Number(w) - 1 PROVE j <= Len(Started(w))
        <3>1. Dist(f, i) = Dist(f, w)
            BY <1>1, <1>2, <2>4, <2>7
        <3>2. i = w
            BY <1>1, <3>1, SameDist
        <3>3. buf[w].state = "WRITTING"
            BY <1>1, <2>4, <3>1 DEF Ahead, Filled
        <3>4. Started(w) = buf[w].data
            BY <3>3 DEF Started
        <3> QED BY <2>1, <3>2, <3>4, BufferCells, SizesAssumption DEF Places
    <2> QED BY <2>2, <2>6, <2>7
<1> QED BY <1>4, <1>5 DEF Entry

(* Where a piece of a buffer comes from: it was there, or it was added to  *)
(* the text that was being filled, r pieces, or to the next one.           *)
Remains(i, j) ==
    /\ InUse(buf[i]) /\ buf'[i].data[1] = buf[i].data[1]
    /\ j \in DOMAIN buf[i].data /\ buf'[i].data[j] = buf[i].data[j]
Continues(i, j, r) ==
    LET l == Len(Started(w))
    IN  /\ buf'[i].data[1] = Hdr(Number(w) - 1)
        /\ j > l /\ j <= l + r /\ buf'[i].data[j] = Log(logged + (j - l))
GoesToNext(i, j, r) ==
    /\ buf'[i].data[1] = Hdr(Number(w))
    /\ j > 1 /\ buf'[i].data[j] = Log((logged + r) + (j - 1))
Lengthened(r) ==
    /\ \A i \in Buffers : InUse(buf'[i]) =>
          \A j \in DOMAIN buf'[i].data : j = 1 \/ Remains(i, j) \/ Continues(i, j, r) \/ GoesToNext(i, j, r)
    /\ \A i \in Buffers : InUse(buf[i]) =>
          InUse(buf'[i]) /\ \A u : Holds(buf[i], u) => Holds(buf'[i], u)
    /\ \A u \in (logged + 1) .. logged' : \E i \in Buffers : InUse(buf'[i]) /\ Holds(buf'[i], u)

LEMMA LengthenedEntry ==
    ASSUME IInv', Numbers', NEW r \in Nat, Lengthened(r), Number(w) \in Nat,
           NEW fl, NEW m \in Nat, NEW u \in Nat, NEW j \in Places, NEW c, c = buf',
           Entry(fl, c, m, j, u)
    PROVE  \/ Entry(fl, buf, m, j, u)
           \/ /\ m = Number(w) - 1 /\ j > Len(Started(w)) /\ j <= Len(Started(w)) + r
              /\ u = logged + (j - Len(Started(w)))
           \/ m = Number(w) /\ j > 1 /\ u = (logged + r) + (j - 1)
<1>1. CASE \E s \in Sectors : fl[s * SECTOR] = Hdr(m) /\ fl[Cell(s, j)] = Log(u)
    BY <1>1 DEF Entry
<1>2. CASE \E i \in Buffers : /\ InUse(c[i]) /\ c[i].data[1] = Hdr(m)
                              /\ j \in DOMAIN c[i].data /\ c[i].data[j] = Log(u)
    <2>1. PICK i \in Buffers : /\ InUse(c[i]) /\ c[i].data[1] = Hdr(m)
                               /\ j \in DOMAIN c[i].data /\ c[i].data[j] = Log(u)
        BY <1>2
    <2>2. j # 1
        BY <2>1, LogKinds
    <2>3. Remains(i, j) \/ Continues(i, j, r) \/ GoesToNext(i, j, r)
        BY <2>1, <2>2 DEF Lengthened
    <2>4. CASE Remains(i, j)
        BY <2>1, <2>4 DEF Remains, Entry
    <2>5. CASE Continues(i, j, r)
        <3>1. /\ c[i].data[1] = Hdr(Number(w) - 1) /\ j > Len(Started(w)) /\ j <= Len(Started(w)) + r
              /\ c[i].data[j] = Log(logged + (j - Len(Started(w))))
            BY <2>5 DEF Continues
        <3>2. m = Number(w) - 1
            BY <2>1, <3>1, CellKinds
        <3>3. u = logged + (j - Len(Started(w)))
            BY <2>1, <3>1, LogKinds
        <3> QED BY <3>1, <3>2, <3>3
    <2>6. CASE GoesToNext(i, j, r)
        <3>1. /\ c[i].data[1] = Hdr(Number(w)) /\ j > 1 /\ c[i].data[j] = Log((logged + r) + (j - 1))
            BY <2>6 DEF GoesToNext
        <3>2. m = Number(w)
            BY <2>1, <3>1, CellKinds
        <3>3. u = (logged + r) + (j - 1)
            BY <2>1, <3>1, LogKinds
        <3> QED BY <3>1, <3>2, <3>3
    <2> QED BY <2>3, <2>4, <2>5, <2>6
<1> QED BY <1>1, <1>2 DEF Entry

LEMMA GrownGap ==
    ASSUME IInv, IsQueue(queue), Numbers, Saved, Gapless, NEW r, Lengthened(r),
           logged' \in Nat, logged < logged', lost' = lost, mode' = mode, Stored' = Stored,
           \A i \in Buffers : \A u : InUse(buf'[i]) /\ Holds(buf'[i], u) =>
                (InUse(buf[i]) /\ Holds(buf[i], u)) \/ u \in (logged + 1) .. logged'
    PROVE  Gapless'
<1> SUFFICES ASSUME mode = "run" PROVE NoGap(Stored, buf, logged, lost)'
    BY DEF Gapless
<1>0. PICK c : c = buf'
    OBVIOUS
<1>1. PICK L \in Nat : L = logged' /\ c = buf'
    BY <1>0
<1>2. logged \in Nat /\ logged < L
    BY <1>1 DEF IInv
<1>3. \A u : Keeps(Stored, buf, u) => Keeps(Stored, c, u)
    BY <1>1 DEF Keeps, Lengthened
<1>4. \A u \in (logged + 1) .. L : Keeps(Stored, c, u)
    BY <1>1 DEF Keeps, Lengthened
<1>5. \A u \in 1 .. logged : Keeps(Stored, c, u) => Keeps(Stored, buf, u)
    <2>1. \A u \in 1 .. logged : u \notin (logged + 1) .. L
        BY <1>2
    <2> QED BY <1>1, <2>1 DEF Keeps
<1>6. NoGap(Stored, buf, logged, lost)
    BY DEF Gapless
<1>7. ASSUME NEW u \in 1 .. L, NEW x \in 1 .. L, Keeps(Stored, c, u), u <= x
      PROVE  Keeps(Stored, c, x) \/ x \in lost
    <2>1. CASE x > logged
        <3>1. x \in (logged + 1) .. L
            BY <1>2, <2>1
        <3> QED BY <1>4, <3>1
    <2>2. CASE ~(x > logged)
        <3>1. u \in 1 .. logged /\ x \in 1 .. logged
            BY <1>2, <1>7, <2>2
        <3> QED BY <1>3, <1>5, <1>6, <1>7, <3>1 DEF NoGap
    <2> QED BY <2>1, <2>2
<1>8. NoGap(Stored, c, L, lost)
    BY <1>7 DEF NoGap
<1> QED BY <1>1, <1>8

LEMMA GrownOrdered ==
    ASSUME IInv, IsQueue(queue), Numbers, Saved, Ordered, IInv', Numbers',
           f' = f, UNCHANGED <<flushVars, chipVars, mode>>, mode \in {"run", "crash"},
           lost' = lost, logged' \in Nat, logged < logged', Base' = Base,
           state = "WRITTING" => buf'[f] = buf[f] /\ f # w',
           NEW r \in Nat, Lengthened(r),
           \A i \in Buffers : \A u : InUse(buf'[i]) /\ Holds(buf'[i], u) =>
                (InUse(buf[i]) /\ Holds(buf[i], u)) \/ u \in (logged + 1) .. logged'
    PROVE  Ordered'
<1>1. /\ state' = state /\ offs' = offs /\ frame' = frame /\ mode' = mode
      /\ flash' = flash /\ queue' = queue
    BY DEF flushVars, chipVars
<1>2. Stored' = Stored /\ NothingElse
    BY <1>1, SameChip
<1>3. ~Over /\ ~Over' /\ Beyond' = Beyond /\ logged \in Nat
    BY <1>1 DEF Over, Beyond, IInv
<1>4. /\ IsSeq(Started(w)) /\ Len(Started(w)) \in Nat /\ Len(Started(w)) >= 1
    BY StartedHasRoom
<1>5. Number(w) \in Nat /\ Number(w) - 1 \in Nat
    <2>1. PICK e : e.data[1] = Started(w)[1]
        <3>1. [data |-> Started(w)].data[1] = Started(w)[1]
            OBVIOUS
        <3> QED BY <3>1
    <2>2. Behind /\ BuffersNumbered
        BY <1>3, BaseNat DEF Numbers
    <2> QED BY <2>1, <2>2, NewNumber
<1>6. PICK c : c = buf'
    OBVIOUS
<1>7. PICK M \in Nat, l \in Nat : M = Number(w) - 1 /\ l = Len(Started(w)) /\ M + 1 = Number(w)
    BY <1>4, <1>5
<1>8. ASSUME NEW k \in 0 .. Len(queue) PROVE Sorted(After(k), c)
    <2>1. PICK fl : fl = After(k)
        OBVIOUS
    <2>2. Topped(fl, buf, M, l, logged)
        BY <1>7, <2>1, OldEntries DEF Topped
    <2>3. Grows(fl, buf, c, M, l, r, logged)
        BY <1>5, <1>6, <1>7, LengthenedEntry DEF Grows
    <2>4. Sorted(fl, buf)
        BY <2>1 DEF Ordered, ChipOrdered
    <2>5. l >= 1
        BY <1>4, <1>7
    <2>6. Sorted(fl, c)
        BY ONLY <1>3, <2>2, <2>3, <2>4, <2>5, GrownSorted, M \in Nat, l \in Nat, r \in Nat
    <2> QED BY <2>1, <2>6
<1>9. ChipOrdered'
    <2>1. Textual(Stored) /\ Rowed(Stored) /\ Sorted(Stored, c)
        BY <1>8, LastOfQueue, StoredOrdered DEF Ordered
    <2> QED BY <1>2, <1>6, <1>8, <2>1, StillChip DEF Ordered
<1>10. Shaped(buf)'
    <2> SUFFICES ASSUME NEW i \in Buffers, InUse(c[i]), NEW j \in DOMAIN c[i].data \ {1}
                 PROVE  IsLog(c[i].data[j])
        BY <1>6 DEF Shaped
    <2>0. j \in Nat
        <3>1. PICK S : c[i] \in [state : {"FREE", "WRITTING", "WRITTEN"}, data : Seq(S)]
            BY <1>6 DEF IInv, IsBuffer
        <3>2. DOMAIN c[i].data = 1 .. Len(c[i].data)
            BY <3>1, LenProperties
        <3> QED BY <3>2
    <2>1. CASE Remains(i, j)
        BY <1>6, <2>1 DEF Remains, Ordered, Shaped
    <2>2. CASE Continues(i, j, r)
        <3>0. j > l
            BY <1>7, <2>2 DEF Continues
        <3>1. PICK x \in Nat : x = logged + (j - l)
            <4>1. logged + (j - l) \in Nat
                BY <1>3, <2>0, <3>0
            <4> QED BY <4>1
        <3>2. c[i].data[j] = Log(x)
            BY <1>6, <1>7, <2>2, <3>1 DEF Continues
        <3> QED BY <3>1, <3>2, LogKinds DEF IsLog, Log
    <2>3. CASE GoesToNext(i, j, r)
        <3>1. PICK x \in Nat : x = (logged + r) + (j - 1)
            BY <1>3, <2>0, <2>3 DEF GoesToNext
        <3>2. c[i].data[j] = Log(x)
            BY <1>6, <2>3, <3>1 DEF GoesToNext
        <3> QED BY <3>1, <3>2, LogKinds DEF IsLog, Log
    <2> QED BY <1>6, <2>1, <2>2, <2>3 DEF Lengthened
<1>11. Low'
    <2>1. PICK p : p = Beyond
        OBVIOUS
    <2>2. p \in Nat /\ Under(Stored, p)
        BY <1>3, <2>1, BaseNat, StoredLow DEF Ordered
    <2>3. Under(Stored', p) /\ Beyond' = p
        BY <1>2, <1>3, <2>1, <2>2
    <2> QED BY <1>2, <1>3, <2>1, <2>2, <2>3, StillLow DEF Ordered
<1>12. Placed'
    BY <1>1, <1>2, <1>3 DEF Ordered, Placed
<1>13. Unwritten'
    BY <1>1, <1>2 DEF Ordered, Unwritten
<1>14. FullText'
    BY <1>1 DEF Ordered, FullText, Saved, Image
<1>15. Gapless'
    BY <1>1, <1>2, GrownGap DEF Ordered
<1> QED BY <1>9, <1>10, <1>11, <1>12, <1>13, <1>14, <1>15 DEF Ordered

(* The buffer that is traced to is the last in use, and the next is free.  *)
LEMMA LastFilled ==
    ASSUME IInv, Numbers, Saved, mode \in {"run", "crash"}
    PROVE  /\ ~Over /\ Behind /\ BuffersNumbered /\ Base \in Nat /\ Dist(f, w) \in Nat
           /\ Number(w) = Base + Dist(f, w) + 1
           /\ Started(w)[1] = Hdr(Number(w) - 1)
           /\ buf[w].state = "WRITTING" => InUse(buf[w]) /\ Started(w) = buf[w].data
           /\ buf[w].state # "WRITTING" => ~InUse(buf[w]) /\ Started(w) = <<Hdr(cur)>>
           /\ NextBuf(w) # f => /\ ~InUse(buf[NextBuf(w)])
                                /\ Dist(f, NextBuf(w)) = Dist(f, w) + 1
<1>1. ~Over /\ BuffersNumbered
    BY DEF Over, Numbers
<1>2. /\ Behind /\ Base \in Nat /\ w \in Buffers /\ f \in Buffers /\ NextBuf(w) \in Buffers
      /\ Dist(f, w) \in Nat /\ cur \in Nat
    BY <1>1, BaseNat, DistFacts, NextInRing DEF IInv
<1>3. PICK e : e.data[1] = Started(w)[1]
    <2>1. [data |-> Started(w)].data[1] = Started(w)[1]
        OBVIOUS
    <2> QED BY <2>1
<1>4. Number(w) = Base + Dist(f, w) + 1 /\ Ahead <= Dist(f, w) + 1
    BY <1>1, <1>2, <1>3, NewNumber
<1>5. buf[w].state = "WRITTING" => InUse(buf[w]) /\ Started(w) = buf[w].data /\ Number(w) = cur
    BY DEF InUse, Started, Number
<1>6. buf[w].state # "WRITTING" => ~InUse(buf[w]) /\ Started(w) = <<Hdr(cur)>> /\ Number(w) = cur + 1
    <2> SUFFICES ASSUME buf[w].state # "WRITTING"
                 PROVE  ~InUse(buf[w]) /\ Started(w) = <<Hdr(cur)>> /\ Number(w) = cur + 1
        OBVIOUS
    <2>1. Ahead = Dist(f, w)
        BY <1>2 DEF Ahead, Filled
    <2>2. ~InUse(buf[w])
        BY <1>2, <2>1 DEF Behind
    <2> QED BY <2>2 DEF Started, Number
<1>7. Started(w)[1] = Hdr(Number(w) - 1)
    <2>1. CASE buf[w].state = "WRITTING"
        <3>1. Num(buf[w]) = Base + Dist(f, w) /\ buf[w].data[1] = Hdr(Num(buf[w]))
            BY <1>1, <1>2, <1>5, <2>1, BufferNumber DEF BuffersNumbered
        <3>2. Number(w) - 1 = Num(buf[w])
            BY <1>2, <1>4, <3>1
        <3> QED BY <1>5, <2>1, <3>1, <3>2
    <2>2. CASE buf[w].state # "WRITTING"
        <3>1. Number(w) - 1 = cur
            BY <1>2, <1>6, <2>2
        <3> QED BY <1>6, <2>2, <3>1
    <2> QED BY <2>1, <2>2
<1>8. NextBuf(w) # f => /\ ~InUse(buf[NextBuf(w)])
                        /\ Dist(f, NextBuf(w)) = Dist(f, w) + 1
    BY <1>2, <1>4, DistFacts DEF Behind, Ahead, Filled
<1> QED BY <1>1, <1>2, <1>4, <1>5, <1>6, <1>7, <1>8

(* What pieces behind d hold.                                              *)
LEMMA CarriedHolds ==
    ASSUME NEW e, NEW d, NEW from \in Nat, NEW n \in Nat, Carries(e.data, d, from, n),
           Len(d) \in Nat, DOMAIN d = 1 .. Len(d)
    PROVE  \A u : Holds(e, u) <=> Has(d, u) \/ u \in (from + 1) .. (from + n)
<1> SUFFICES ASSUME NEW u PROVE Holds(e, u) <=> Has(d, u) \/ u \in (from + 1) .. (from + n)
    OBVIOUS
<1>1. /\ DOMAIN e.data = 1 .. (Len(d) + n)
      /\ \A j \in 1 .. (Len(d) + n) :
            e.data[j] = IF j <= Len(d) THEN d[j] ELSE Log(from + (j - Len(d)))
    BY DEF Carries
<1>2. ASSUME Has(d, u) PROVE Holds(e, u)
    <2>1. PICK j \in DOMAIN d : d[j] = Log(u)
        BY <1>2 DEF Has
    <2>2. j \in 1 .. (Len(d) + n) /\ j <= Len(d)
        OBVIOUS
    <2> QED BY <1>1, <2>1, <2>2 DEF Holds
<1>3. ASSUME u \in (from + 1) .. (from + n) PROVE Holds(e, u)
    <2>1. PICK j : j = Len(d) + (u - from)
        OBVIOUS
    <2>2. j \in 1 .. (Len(d) + n) /\ ~(j <= Len(d)) /\ from + (j - Len(d)) = u
        BY <1>3, <2>1
    <2> QED BY <1>1, <2>2 DEF Holds
<1>4. ASSUME Holds(e, u), ~Has(d, u) PROVE u \in (from + 1) .. (from + n)
    <2>1. PICK j \in 1 .. (Len(d) + n) : e.data[j] = Log(u)
        BY <1>1, <1>4 DEF Holds
    <2>2. ~(j <= Len(d))
        <3>1. j <= Len(d) => j \in DOMAIN d /\ d[j] = Log(u)
            BY <1>1, <2>1
        <3> QED BY <1>4, <3>1 DEF Has
    <2>3. u = from + (j - Len(d))
        BY <1>1, <2>1, <2>2, LogKinds
    <2> QED BY <2>2, <2>3
<1> QED BY <1>2, <1>3, <1>4

(* The text that is being filled, with n pieces more.                      *)
LEMMA FilledMore ==
    ASSUME IInv, Numbers, Saved, mode \in {"run", "crash"}, NEW n \in Nat, NEW r \in Nat, n <= r,
           NEW e, buf'[w] = e, Carries(e.data, Started(w), logged, n)
    PROVE  /\ e.data[1] = Hdr(Number(w) - 1)
           /\ \A j \in DOMAIN e.data : j = 1 \/ Remains(w, j) \/ Continues(w, j, r)
           /\ InUse(buf[w]) => \A u : Holds(buf[w], u) => Holds(e, u)
           /\ \A u : Holds(e, u) =>
                 (InUse(buf[w]) /\ Holds(buf[w], u)) \/ u \in (logged + 1) .. (logged + n)
           /\ \A u \in (logged + 1) .. (logged + n) : Holds(e, u)
<1>1. PICK d : d = Started(w)
    OBVIOUS
<1>2. IsSeq(d) /\ Len(d) \in Nat /\ Len(d) >= 1 /\ DOMAIN d = 1 .. Len(d) /\ logged \in Nat
    <2>1. IsSeq(d) /\ Len(d) \in Nat /\ Len(d) >= 1 /\ logged \in Nat
        BY <1>1, StartedHasRoom DEF IInv
    <2> QED BY <2>1, PiecesCarried
<1>3. /\ DOMAIN e.data = 1 .. (Len(d) + n)
      /\ \A j \in 1 .. (Len(d) + n) :
            e.data[j] = IF j <= Len(d) THEN d[j] ELSE Log(logged + (j - Len(d)))
    BY <1>1 DEF Carries
<1>4. e.data[1] = d[1] /\ d[1] = Hdr(Number(w) - 1)
    <2>1. 1 \in 1 .. (Len(d) + n) /\ 1 <= Len(d)
        BY <1>2
    <2>2. e.data[1] = d[1]
        BY <1>3, <2>1
    <2>3. d[1] = Hdr(Number(w) - 1)
        BY <1>1, LastFilled
    <2> QED BY <2>2, <2>3
<1>5. \A u : Holds(e, u) <=> Has(d, u) \/ u \in (logged + 1) .. (logged + n)
    BY <1>1, <1>2, CarriedHolds
<1>6. CASE buf[w].state = "WRITTING"
    <2>1. InUse(buf[w]) /\ d = buf[w].data
        BY <1>1, <1>6, LastFilled
    <2>2. \A u : Has(d, u) <=> Holds(buf[w], u)
        BY <2>1 DEF Has, Holds
    <2>3. ASSUME NEW j \in DOMAIN e.data PROVE Remains(w, j) \/ Continues(w, j, r)
        <3>1. CASE j <= Len(d)
            <4>1. j \in DOMAIN d /\ j \in 1 .. (Len(d) + n)
                BY <1>2, <1>3, <3>1
            <4>2. e.data[j] = d[j]
                BY <1>3, <3>1, <4>1
            <4> QED BY <1>4, <2>1, <4>1, <4>2 DEF Remains
        <3>2. CASE ~(j <= Len(d))
            <4>1. j > Len(d) /\ j <= Len(d) + r /\ e.data[j] = Log(logged + (j - Len(d)))
                BY <1>2, <1>3, <3>2
            <4> QED BY <1>1, <1>4, <4>1 DEF Continues
        <3> QED BY <3>1, <3>2
    <2> QED BY <1>4, <1>5, <2>1, <2>2, <2>3
<1>7. CASE buf[w].state # "WRITTING"
    <2>1. ~InUse(buf[w]) /\ d = <<Hdr(cur)>>
        BY <1>1, <1>7, LastFilled
    <2>2. Len(d) = 1 /\ d[1] = Hdr(cur)
        BY <2>1
    <2>3. \A u : ~Has(d, u)
        BY <1>2, <2>2, LogKinds DEF Has
    <2>4. ASSUME NEW j \in DOMAIN e.data PROVE j = 1 \/ Continues(w, j, r)
        <3>1. CASE ~(j <= Len(d))
            <4>1. j > Len(d) /\ j <= Len(d) + r /\ e.data[j] = Log(logged + (j - Len(d)))
                BY <1>2, <1>3, <3>1
            <4> QED BY <1>1, <1>4, <4>1 DEF Continues
        <3> QED BY <1>2, <1>3, <2>2, <3>1
    <2> QED BY <1>4, <1>5, <2>1, <2>3, <2>4
<1> QED BY <1>6, <1>7

(* The next text, of n pieces behind its header.                           *)
LEMMA NextFilled ==
    ASSUME NEW i \in Buffers, NEW n \in Nat, NEW r \in Nat, logged \in Nat,
           NEW g, buf'[i] = g, Carries(g.data, <<Hdr(Number(w))>>, logged + r, n)
    PROVE  /\ g.data[1] = Hdr(Number(w))
           /\ \A j \in DOMAIN g.data : j = 1 \/ GoesToNext(i, j, r)
           /\ \A u : Holds(g, u) <=> u \in (logged + r + 1) .. (logged + r + n)
<1>1. PICK h : h = <<Hdr(Number(w))>>
    OBVIOUS
<1>2. Len(h) = 1 /\ h[1] = Hdr(Number(w)) /\ DOMAIN h = 1 .. 1
    BY <1>1
<1>3. PICK y \in Nat : y = logged + r
    OBVIOUS
<1>4. /\ DOMAIN g.data = 1 .. (1 + n)
      /\ \A j \in 1 .. (1 + n) : g.data[j] = IF j <= 1 THEN h[j] ELSE Log(y + (j - 1))
    BY <1>1, <1>2, <1>3 DEF Carries
<1>5. g.data[1] = Hdr(Number(w))
    BY <1>2, <1>4
<1>6. \A u : ~Has(h, u)
    BY <1>2, LogKinds DEF Has
<1>7. \A u : Holds(g, u) <=> u \in (y + 1) .. (y + n)
    BY <1>1, <1>2, <1>3, <1>6, CarriedHolds
<1>8. ASSUME NEW j \in DOMAIN g.data PROVE j = 1 \/ GoesToNext(i, j, r)
    <2>1. CASE j > 1
        <3>1. g.data[j] = Log(y + (j - 1))
            BY <1>4, <2>1
        <3> QED BY <1>3, <1>5, <2>1, <3>1 DEF GoesToNext
    <2> QED BY <1>4, <2>1
<1> QED BY <1>3, <1>5, <1>7, <1>8

LEMMA OutputOrdered ==
    ASSUME IInv, IsQueue(queue), Numbers, Saved, Ordered, IInv', Numbers',
           NEW n \in 1..MaxLine, Output(n), upset = {}, upset' = {}
    PROVE  Ordered'
<1> DEFINE d == Started(w)
           room == SECTOR - Len(d)
           rest == n - room
           next == NextBuf(w)
<1>1. IsSeq(d) /\ Len(d) \in 1 .. (SECTOR - 1) /\ Len(d) \in Nat \ {0}
    BY StartedHasRoom
<1>2. n \in Nat /\ n >= 1 /\ room \in Nat /\ room >= 1 /\ rest \in Int /\ n = room + rest
    BY <1>1, SizesAssumption
<1>3. w \in Buffers /\ next \in Buffers /\ next # w /\ buf = [i \in Buffers |-> buf[i]]
      /\ f \in Buffers /\ logged \in Nat
    BY NextInRing DEF IInv
<1>4. /\ f' = f /\ UNCHANGED <<flushVars, chipVars, mode>>
      /\ mode \in {"run", "crash"} /\ logged' = logged + n /\ logged' \in Nat /\ logged < logged'
    BY <1>2, <1>3 DEF Output
<1>5. state = "WRITTING" => f # w
    BY <1>4 DEF Saved, Image
<1>6. /\ Base \in Nat /\ Dist(f, w) \in Nat /\ Number(w) = Base + Dist(f, w) + 1
      /\ next # f => ~InUse(buf[next]) /\ Dist(f, next) = Dist(f, w) + 1
    BY <1>4, LastFilled
<1>7. PICK b \in Nat, k \in Nat : b = Base /\ k = Dist(f, w)
    BY <1>6
<1> HIDE DEF d, room, rest, next
<1>8. ASSUME NEW e, InUse(e), NEW m \in Nat, Carries(e.data, d, logged, m), logged' = logged + m,
             cur' = Number(w), \A i \in Buffers : buf'[i] = IF i = w THEN e ELSE buf[i],
             \/ w' = w /\ e.state = "WRITTING"
             \/ w' = next /\ next # f,
             lost' = lost
      PROVE  Ordered'
    <2>1. buf'[w] = e /\ \A i \in Buffers : i # w => buf'[i] = buf[i]
        BY <1>3, <1>8
    <2>2. Ahead' = Dist(f, w) + 1
        <3>1. CASE w' = w /\ e.state = "WRITTING"
            BY <1>4, <2>1, <3>1 DEF Ahead, Filled
        <3>2. CASE w' = next /\ next # f
            <4>1. buf'[next] = buf[next] /\ buf[next].state # "WRITTING"
                BY <1>3, <2>1 DEF IInv, OnlyWriterFills
            <4>2. Filled' = 0
                BY <3>2, <4>1 DEF Filled
            <4> QED BY <1>4, <1>6, <3>2, <4>2 DEF Ahead
        <3> QED BY <1>8, <3>1, <3>2
    <2>3. Base' = Base
        <3>1. Ahead' = k + 1 /\ cur' = b + k + 1
            BY <1>6, <1>7, <1>8, <2>2
        <3>2. Base' = b
            BY <3>1 DEF Base
        <3> QED BY <1>7, <3>2
    <2>4. /\ \A j \in DOMAIN e.data : j = 1 \/ Remains(w, j) \/ Continues(w, j, m)
          /\ InUse(buf[w]) => \A u : Holds(buf[w], u) => Holds(e, u)
          /\ \A u : Holds(e, u) =>
                (InUse(buf[w]) /\ Holds(buf[w], u)) \/ u \in (logged + 1) .. logged'
          /\ \A u \in (logged + 1) .. logged' : Holds(e, u)
        BY <1>4, <1>8, <2>1, FilledMore DEF d
    <2>5. \A i \in Buffers : i # w => \A j \in DOMAIN buf'[i].data : InUse(buf'[i]) => Remains(i, j)
        BY <2>1 DEF Remains
    <2>6. Lengthened(m)
        BY <1>3, <1>8, <2>1, <2>4, <2>5 DEF Lengthened
    <2>7. \A i \in Buffers : \A u : InUse(buf'[i]) /\ Holds(buf'[i], u) =>
                (InUse(buf[i]) /\ Holds(buf[i], u)) \/ u \in (logged + 1) .. logged'
        BY <2>1, <2>4
    <2>8. state = "WRITTING" => buf'[f] = buf[f] /\ f # w'
        BY <1>3, <1>5, <1>8, <2>1
    <2> QED BY <1>4, <1>8, <2>3, <2>6, <2>7, <2>8, GrownOrdered
<1>9. ASSUME NEW e, InUse(e), Carries(e.data, d, logged, room), rest \in Nat,
             NEW g, InUse(g), g.state = "WRITTING", Carries(g.data, <<Hdr(Number(w))>>, logged + room, rest),
             cur' = Number(w) + 1, w' = next, next # f, lost' = lost,
             \A i \in Buffers : buf'[i] = IF i = next THEN g ELSE IF i = w THEN e ELSE buf[i]
      PROVE  Ordered'
    <2>1. /\ buf'[w] = e /\ buf'[next] = g
          /\ \A i \in Buffers : i # w /\ i # next => buf'[i] = buf[i]
        BY <1>3, <1>9
    <2>2. Ahead' = Dist(f, w) + 2
        <3>1. Filled' = 1
            BY <1>9, <2>1 DEF Filled
        <3> QED BY <1>4, <1>6, <1>9, <3>1 DEF Ahead
    <2>3. Base' = Base
        <3>1. Ahead' = k + 2 /\ cur' = b + k + 2
            BY <1>6, <1>7, <1>9, <2>2
        <3>2. Base' = b
            BY <3>1 DEF Base
        <3> QED BY <1>7, <3>2
    <2>4. /\ \A j \in DOMAIN e.data : j = 1 \/ Remains(w, j) \/ Continues(w, j, room)
          /\ InUse(buf[w]) => \A u : Holds(buf[w], u) => Holds(e, u)
          /\ \A u : Holds(e, u) =>
                (InUse(buf[w]) /\ Holds(buf[w], u)) \/ u \in (logged + 1) .. (logged + room)
          /\ \A u \in (logged + 1) .. (logged + room) : Holds(e, u)
        BY <1>2, <1>4, <1>9, <2>1, FilledMore DEF d
    <2>5. /\ \A j \in DOMAIN g.data : j = 1 \/ GoesToNext(next, j, room)
          /\ \A u : Holds(g, u) <=> u \in (logged + room + 1) .. (logged + room + rest)
        BY <1>2, <1>3, <1>9, <2>1, NextFilled
    <2>6. /\ \A u : u \in (logged + 1) .. logged' <=>
                       \/ u \in (logged + 1) .. (logged + room)
                       \/ u \in (logged + room + 1) .. (logged + room + rest)
        BY <1>2, <1>3, <1>4, <1>9
    <2>7. \A i \in Buffers : i # w /\ i # next =>
              \A j \in DOMAIN buf'[i].data : InUse(buf'[i]) => Remains(i, j)
        BY <2>1 DEF Remains
    <2>8. Lengthened(room)
        <3>1. \A i \in Buffers : InUse(buf'[i]) =>
                 \A j \in DOMAIN buf'[i].data :
                    j = 1 \/ Remains(i, j) \/ Continues(i, j, room) \/ GoesToNext(i, j, room)
            BY <2>1, <2>4, <2>5, <2>7
        <3>2. \A i \in Buffers : InUse(buf[i]) =>
                 InUse(buf'[i]) /\ \A u : Holds(buf[i], u) => Holds(buf'[i], u)
            BY <1>6, <1>9, <2>1, <2>4
        <3>3. \A u \in (logged + 1) .. logged' : Holds(e, u) \/ Holds(g, u)
            BY <2>4, <2>5, <2>6
        <3> QED BY <1>3, <1>9, <2>1, <3>1, <3>2, <3>3 DEF Lengthened
    <2>9. \A i \in Buffers : \A u : InUse(buf'[i]) /\ Holds(buf'[i], u) =>
                (InUse(buf[i]) /\ Holds(buf[i], u)) \/ u \in (logged + 1) .. logged'
        BY <2>1, <2>4, <2>5, <2>6
    <2>10. state = "WRITTING" => buf'[f] = buf[f] /\ f # w'
        BY <1>3, <1>5, <1>9, <2>1
    <2> QED BY <1>2, <1>4, <1>9, <2>3, <2>8, <2>9, <2>10, GrownOrdered
<1>10. ASSUME NEW m \in Nat
       PROVE  /\ InUse(Filling(d \o Pieces(logged, m))) /\ InUse(Full(d \o Pieces(logged, m)))
              /\ Filling(d \o Pieces(logged, m)).state = "WRITTING"
              /\ Carries(Filling(d \o Pieces(logged, m)).data, d, logged, m)
              /\ Carries(Full(d \o Pieces(logged, m)).data, d, logged, m)
    <2>1. PICK x : x = d \o Pieces(logged, m)
        OBVIOUS
    <2>2. Carries(x, d, logged, m)
        BY <1>1, <1>3, <2>1, PiecesCarried
    <2>3. /\ InUse(Filling(x)) /\ InUse(Full(x)) /\ Filling(x).state = "WRITTING"
          /\ Filling(x).data = x /\ Full(x).data = x
        BY DEF Filling, Full, InUse
    <2> QED BY <2>1, <2>2, <2>3
<1>11. CASE /\ n < room /\ cur' = Number(w) /\ w' = w /\ lost' = lost
            /\ buf' = [buf EXCEPT ![w] = Filling(d \o Pieces(logged, n))]
    <2> DEFINE e == Filling(d \o Pieces(logged, n))
    <2>1. InUse(e) /\ Carries(e.data, d, logged, n) /\ e.state = "WRITTING"
        BY <1>2, <1>10
    <2>2. \A i \in Buffers : buf'[i] = IF i = w THEN e ELSE buf[i]
        BY <1>3, <1>11
    <2> HIDE DEF e
    <2> QED BY <1>2, <1>4, <1>8, <1>11, <2>1, <2>2
<1>12. CASE /\ n >= room /\ rest = 0 /\ next # f /\ cur' = Number(w) /\ w' = next
            /\ lost' = lost \cup ((logged + room + 1) .. (logged + n))
            /\ buf' = [buf EXCEPT ![w] = Full(d \o Pieces(logged, room))]
    <2> DEFINE e == Full(d \o Pieces(logged, room))
    <2>1. InUse(e) /\ Carries(e.data, d, logged, room)
        BY <1>2, <1>10
    <2>2. \A i \in Buffers : buf'[i] = IF i = w THEN e ELSE buf[i]
        BY <1>3, <1>12
    <2>3. logged' = logged + room
        BY <1>2, <1>4, <1>12
    <2>4. lost' = lost
        <3>1. (logged + room + 1) .. (logged + n) = {}
            BY <1>2, <1>3, <1>12
        <3> QED BY <1>12, <3>1
    <2> HIDE DEF e
    <2> QED BY <1>2, <1>8, <1>12, <2>1, <2>2, <2>3, <2>4
<1>13. CASE /\ rest > 0 /\ next # f /\ cur' = Number(w) + 1 /\ w' = next /\ lost' = lost
            /\ buf' = [buf EXCEPT
                 ![w] = Full(d \o Pieces(logged, room)),
                 ![next] = Filling(<<Hdr(Number(w))>> \o Pieces(logged + room, rest))]
    <2> DEFINE e == Full(d \o Pieces(logged, room))
    <2>1. InUse(e) /\ Carries(e.data, d, logged, room)
        BY <1>2, <1>10
    <2>2. PICK h : h = <<Hdr(Number(w))>>
        OBVIOUS
    <2>3. IsSeq(h) /\ rest \in Nat /\ logged + room \in Nat
        <3>1. h \in Seq({Hdr(Number(w))})
            BY <2>2
        <3> QED BY <1>2, <1>3, <1>13, <3>1 DEF IsSeq
    <2>4. PICK x : x = h \o Pieces(logged + room, rest)
        OBVIOUS
    <2>5. Carries(x, h, logged + room, rest)
        BY <2>3, <2>4, PiecesCarried
    <2>6. InUse(Filling(x)) /\ Filling(x).state = "WRITTING" /\ Filling(x).data = x
        BY DEF Filling, InUse
    <2>7. \A i \in Buffers : buf'[i] = IF i = next THEN Filling(x) ELSE IF i = w THEN e ELSE buf[i]
        BY <1>3, <1>13, <2>2, <2>4
    <2>8. Carries(Filling(x).data, <<Hdr(Number(w))>>, logged + room, rest)
        BY <2>2, <2>5, <2>6
    <2> HIDE DEF e
    <2> QED BY <1>9, <1>13, <2>1, <2>3, <2>6, <2>7, <2>8
<1> QED BY <1>11, <1>12, <1>13 DEF Output, d, room, rest, next

-----------------------------------------------------------------------------
(***************************************************************************)
(* Starting again keeps the order                                          *)
(***************************************************************************)

(* What the headers say: go on behind the sector of the greatest number.   *)
LEMMA GoesBehind ==
    ASSUME NEW fl, NEW n \in Nat, Numbered(fl, n), NEW u, NEW m, NEW N, Marked(fl, u, m, N), Rowed(fl)
    PROVE  Trails(fl, GetSeqnum(fl).sector, GetSeqnum(fl).seqnum)
<1>1. SECTORS \in Nat /\ SECTORS >= 2
    BY SizesAssumption
<1>2. CASE Headers(fl) = {}
    BY <1>2 DEF Trails
<1>3. CASE Headers(fl) # {}
    <2> DEFINE top == CHOOSE i \in Headers(fl) :
                        \A j \in Headers(fl) : SeqAt(fl, j) <= SeqAt(fl, i)
    <2>1. top \in Headers(fl) /\ \A j \in Headers(fl) : SeqAt(fl, j) <= SeqAt(fl, top)
        BY <1>3, GreatestHeader
    <2>2. /\ GetSeqnum(fl).seqnum = SeqAt(fl, top) + 1
          /\ GetSeqnum(fl).sector = IF SeqAt(fl, top) = 0 THEN 1 ELSE (top + 1) % SECTORS
        BY <1>3 DEF GetSeqnum
    <2> HIDE DEF top
    <2>3. SeqAt(fl, top) \in Nat /\ top \in Sectors /\ fl[top * SECTOR] = Hdr(SeqAt(fl, top))
        BY <2>1, HeadersAre DEF Numbered
    <2>4. top \in Nat /\ top < SECTORS
        BY <1>1, <2>3 DEF Sectors
    <2>5. GetSeqnum(fl).sector = NextSector(top)
        <3>1. CASE SeqAt(fl, top) = 0
            <4>1. top = 0
                BY <2>3, <3>1 DEF Marked
            <4> QED BY <1>1, <2>2, <3>1, <4>1 DEF NextSector
        <3>2. CASE SeqAt(fl, top) # 0
            <4>1. (top + 1) % SECTORS = IF top + 1 = SECTORS THEN 0 ELSE top + 1
                BY <1>1, <2>4, SMT
            <4> QED BY <2>2, <3>2, <4>1 DEF NextSector
        <3> QED BY <3>1, <3>2
    <2>6. Trails(fl, top, SeqAt(fl, top))
        <3> SUFFICES ASSUME NEW s \in Headers(fl), s # top
                     PROVE  /\ SeqAt(fl, s) < SeqAt(fl, top)
                            /\ Way(s, top) = SeqAt(fl, top) - SeqAt(fl, s)
            BY DEF Trails
        <3>1. SeqAt(fl, s) # SeqAt(fl, top) /\ SeqAt(fl, s) \in Nat
            BY <2>1 DEF Numbered
        <3>2. SeqAt(fl, s) <= SeqAt(fl, top)
            BY <2>1
        <3>3. Way(s, top) = SeqAt(fl, top) - SeqAt(fl, s)
            BY <2>1, <3>2 DEF Rowed
        <3> QED BY <2>3, <3>1, <3>2, <3>3
    <2>7. Trails(fl, NextSector(top), SeqAt(fl, top) + 1)
        BY <2>3, <2>6, TrailsOn
    <2> QED BY <2>2, <2>5, <2>7
<1> QED BY <1>2, <1>3

Anew ==
    /\ queue = <<>> /\ cur \in Nat /\ state = "IDLE" /\ mode = "run"
    /\ w = 0 /\ f = 0 /\ \A i \in Buffers : buf[i] = Free
    /\ Numbered(flash, cur) /\ Textual(flash) /\ Rowed(flash) /\ Sorted(flash, buf)
    /\ \E o \in Sectors : offs = o * SECTOR /\ Trails(flash, o, cur)
    /\ NoGap(flash, buf, logged, lost)

LEMMA AnewOrdered == Anew => Ordered
<1> SUFFICES ASSUME Anew PROVE Ordered
    OBVIOUS
<1> USE DEF Anew
<1>1. Stored = flash /\ \A k \in 0 .. Len(queue) : After(k) = flash
    BY EmptyQueue
<1>2. 0 \in Buffers
    BY SizesAssumption DEF Buffers
<1>3. \A i \in Buffers : ~InUse(buf[i]) /\ buf[i].state # "WRITTING"
    BY DEF InUse, Free
<1>4. Ahead = 0
    BY <1>2, <1>3, DistFacts DEF Ahead, Filled
<1>5. Base = cur /\ Beyond = cur
    BY <1>4 DEF Base, Beyond
<1>6. Low
    BY <1>1, <1>5 DEF Low, Under, Numbered
<1>7. Placed
    BY <1>1, <1>5 DEF Placed
<1>8. Shaped(buf) /\ Unwritten /\ FullText
    BY <1>3 DEF Shaped, Unwritten, FullText
<1>9. ChipOrdered /\ Gapless
    BY <1>1 DEF ChipOrdered, Gapless
<1> QED BY <1>6, <1>7, <1>8, <1>9 DEF Ordered

LEMMA AnewNext == Anew' => Ordered'
<1>1. Anew => Ordered
    BY AnewOrdered
<1> QED BY <1>1, PTL

LEMMA FirstOfQueue ==
    ASSUME IsQueue(queue)
    PROVE  0 \in 0 .. Len(queue) /\ After(0) = flash
<1>1. PICK S : queue \in Seq(S)
    BY DEF IsQueue
<1>2. Len(queue) \in Nat /\ 0 \in 0 .. Len(queue)
    BY <1>1, LenProperties
<1> QED BY <1>2, AfterRun, RunSteps DEF ByStep

LEMMA RestartOrdered ==
    ASSUME IInv, IsQueue(queue), Numbers, Saved, Ordered, Restart
    PROVE  Ordered'
<1>1. /\ queue' = <<>> /\ flash' = flash /\ cur' = GetSeqnum(flash).seqnum
      /\ offs' = GetSeqnum(flash).sector * SECTOR /\ logged' = logged
      /\ lost' = lost \cup ((1..logged) \ OnFlash(flash))
      /\ state' = "IDLE" /\ mode' = "run"
      /\ w' = 0 /\ f' = 0 /\ buf' = [i \in Buffers |-> Free]
    BY DEF Restart
<1>2. /\ Numbered(flash, cur) /\ cur \in Nat /\ Marked(flash, logged, cur - 1, NotYet)
      /\ Textual(flash) /\ Rowed(flash) /\ Sorted(flash, buf)
    BY FirstOfQueue DEF Numbers, ChipNumbered, BuffersNumbered, Saved, Marks, Ordered, ChipOrdered
<1>3. PICK n, s : n = GetSeqnum(flash).seqnum /\ s = GetSeqnum(flash).sector
    OBVIOUS
<1>4. n \in Nat /\ s \in Sectors /\ Numbered(flash, n)
    BY <1>2, <1>3, FromHeaders
<1>5. Trails(flash, s, n)
    BY <1>2, <1>3, GoesBehind
<1>6. \A i \in Buffers : buf'[i] = Free /\ ~InUse(buf'[i])
    BY <1>1 DEF InUse, Free
<1>7. Sorted(flash, buf')
    <2>1. PICK c : c = buf' /\ \A i \in Buffers : ~InUse(c[i])
        BY <1>6
    <2>2. Sorted(flash, c)
        BY <1>2, <2>1, FreedSorted
    <2> QED BY <2>1, <2>2
<1>8. NoGap(flash, buf', logged, lost')
    <2> SUFFICES ASSUME NEW x \in 1 .. logged, x \notin lost' PROVE Keeps(flash, buf', x)
        BY DEF NoGap
    <2>1. PICK i \in Cells : flash[i] = Log(x)
        <3>1. x \in OnFlash(flash)
            BY <1>1
        <3>2. DOMAIN flash = Cells
            BY <1>2 DEF Numbered
        <3> QED BY <3>1, <3>2 DEF OnFlash
    <2>2. PICK t \in Sectors, j \in Places : i = Cell(t, j)
        BY CellOf
    <2> QED BY <2>1, <2>2 DEF Keeps, OnSector
<1>9. Anew'
    <2>1. cur' = n /\ offs' = s * SECTOR
        BY <1>1, <1>3
    <2>2. Numbered(flash', cur') /\ Textual(flash') /\ Rowed(flash') /\ Sorted(flash', buf')
        BY <1>1, <1>2, <1>4, <1>7, <2>1
    <2>3. \E o \in Sectors : offs' = o * SECTOR /\ Trails(flash', o, cur')
        BY <1>1, <1>4, <1>5, <2>1
    <2>4. NoGap(flash', buf', logged', lost')
        BY <1>1, <1>8
    <2> QED BY <1>1, <1>4, <1>6, <2>1, <2>2, <2>3, <2>4 DEF Anew
<1> QED BY <1>9, AnewNext

LEMMA InitOrdered == Init => OInv
<1> SUFFICES ASSUME Init PROVE Ordered
    BY DEF OInv
<1>1. /\ queue = <<>> /\ cur = 0 /\ offs = 0 /\ state = "IDLE" /\ mode = "run"
      /\ w = 0 /\ f = 0 /\ logged = 0
      /\ buf = [i \in Buffers |-> Free] /\ flash = [i \in 0 .. (Size - 1) |-> Blank]
    BY DEF Init
<1>2. \A s \in Sectors : IsBlank(flash, s)
    <2>1. \A i \in Cells : flash[i] = Blank
        BY <1>1 DEF Cells
    <2> QED BY <2>1, CellsApart DEF IsBlank
<1>3. Headers(flash) = {}
    BY <1>2, BlankSector, HeadersAre
<1>4. flash = [i \in Cells |-> flash[i]]
    BY <1>1 DEF Cells
<1>5. Numbered(flash, cur) /\ Textual(flash) /\ Rowed(flash) /\ Trails(flash, 0, cur)
    BY <1>2, <1>3, <1>4 DEF Numbered, Textual, Rowed, Trails
<1>6. \A i \in Buffers : buf[i] = Free /\ ~InUse(buf[i])
    BY <1>1 DEF InUse, Free
<1>7. \A m, u, j : ~Entry(flash, buf, m, j, u)
    BY <1>2, <1>6, BlankSector DEF Entry
<1>8. Sorted(flash, buf)
    BY <1>7 DEF Sorted
<1>9. NoGap(flash, buf, logged, lost)
    <2>1. 1 .. 0 = {}
        OBVIOUS
    <2> QED BY <1>1, <2>1 DEF NoGap
<1>10. 0 \in Sectors /\ offs = 0 * SECTOR
    BY <1>1, SizesAssumption DEF Sectors
<1>11. Anew
    BY <1>1, <1>5, <1>6, <1>8, <1>9, <1>10 DEF Anew
<1> QED BY <1>11, AnewOrdered

LEMMA NextOrdered == IInv /\ NInv /\ SInv /\ OInv /\ [Next]_vars => OInv'
<1> SUFFICES ASSUME IInv, NInv, SInv, OInv, [Next]_vars, upset' = {} PROVE Ordered'
    BY DEF OInv
<1>1. upset = {}
    <2>1. upset \subseteq upset' \/ upset' = upset
        BY DEF Next, Output, Flush, EnterErase, Enter, Erase, EnterWrite, Write, SetFree,
           Advance, RemainDone, FlushAll, CrashStart, CrashEnd, Execute, Restart,
           ghostVars, vars
    <2> QED BY <2>1
<1>2. Saved /\ Numbers /\ IsQueue(queue) /\ Ordered
    BY <1>1 DEF SInv, NInv, OInv, Calm
<1>3. CASE \E n \in 1..MaxLine : Output(n)
    <2>1. IInv' /\ Numbers'
        BY <1>2, <1>3, NextInv, OutputNumbers
    <2> QED BY <1>1, <1>2, <1>3, <2>1, OutputOrdered
<1>4. ASSUME NEW c \in Callers, Flush(c) PROVE Ordered'
    <2>1. CASE EnterErase(c)
        BY <1>2, <2>1, EnterEraseOrdered
    <2>2. CASE Erase(c)
        BY <1>2, <2>2, EraseOrdered
    <2>3. CASE EnterWrite(c)
        BY <1>2, <2>3, EnterWriteOrdered
    <2>4. CASE Write(c)
        BY <1>2, <2>4, WriteOrdered
    <2>5. CASE SetFree(c)
        BY <1>2, <2>5, SetFreeOrdered
    <2>6. CASE Advance(c)
        BY <1>2, <2>6, AdvanceOrdered
    <2> QED BY <1>4, <2>1, <2>2, <2>3, <2>4, <2>5, <2>6 DEF Flush
<1>5. CASE RemainDone
    BY <1>2, <1>5, RemainDoneOrdered
<1>6. CASE FlushAll
    BY <1>6 DEF FlushAll
<1>7. CASE CrashStart
    BY <1>2, <1>7, CrashStartOrdered
<1>8. CASE CrashEnd
    BY <1>2, <1>8, CrashEndOrdered
<1>9. CASE Execute
    BY <1>2, <1>9, ExecuteOrdered
<1>10. CASE Restart
    BY <1>2, <1>10, RestartOrdered
<1>11. CASE UNCHANGED vars
    BY <1>2, <1>11, StutterOrdered
<1> QED BY <1>3, <1>4, <1>5, <1>6, <1>7, <1>8, <1>9, <1>10, <1>11 DEF Next

-----------------------------------------------------------------------------
(***************************************************************************)
(* The trail, spot by spot                                                 *)
(***************************************************************************)

LEMMA Remainder ==
    ASSUME NEW a \in Nat, NEW n \in Nat, a < n
    PROVE  a % n = a /\ (a + n) % n = a
<1>1. a % n = a
    BY SMT
<1>2. (a + n) % n = a
    BY SMT
<1> QED BY <1>1, <1>2

(* The sectors from o on, and the buffers from f on.                       *)
LEMMA SectorFrom ==
    ASSUME NEW o \in Sectors, NEW k \in 0 .. (SECTORS - 1)
    PROVE  \E s \in Sectors : Way(o, s) = k
<1>1. SECTORS \in Nat /\ o \in Nat /\ o < SECTORS /\ k \in Nat /\ k < SECTORS
    BY SizesAssumption DEF Sectors
<1>2. CASE o + k < SECTORS
    <2>1. o + k \in Sectors /\ Way(o, o + k) = k
        BY <1>1, <1>2 DEF Sectors, Way
    <2> QED BY <2>1
<1>3. CASE ~(o + k < SECTORS)
    <2>1. PICK s : s = o + k - SECTORS
        OBVIOUS
    <2>2. s \in Nat /\ s < SECTORS /\ s < o /\ s - o + SECTORS = k
        BY ONLY <1>1, <1>3, <2>1
    <2>3. s \in Sectors
        BY <1>1, <2>2 DEF Sectors
    <2>4. Way(o, s) = k
        BY <1>1, <2>2 DEF Way
    <2> QED BY <2>3, <2>4
<1> QED BY <1>2, <1>3

LEMMA BufferFrom ==
    ASSUME NEW i \in Buffers, NEW k \in 0 .. (COUNT - 1)
    PROVE  \E j \in Buffers : Dist(i, j) = k
<1>1. COUNT \in Nat /\ i \in Nat /\ i < COUNT /\ k \in Nat /\ k < COUNT
    BY SizesAssumption DEF Buffers
<1>2. CASE i + k < COUNT
    <2>1. i + k \in Buffers /\ Dist(i, i + k) = k
        BY <1>1, <1>2 DEF Buffers, Dist
    <2> QED BY <2>1
<1>3. CASE ~(i + k < COUNT)
    <2>1. PICK j : j = i + k - COUNT
        OBVIOUS
    <2>2. j \in Nat /\ j < COUNT /\ j < i /\ j - i + COUNT = k
        BY ONLY <1>1, <1>3, <2>1
    <2>3. j \in Buffers
        BY <1>1, <2>2 DEF Buffers
    <2>4. Dist(i, j) = k
        BY <1>1, <2>2 DEF Dist
    <2> QED BY <2>3, <2>4
<1> QED BY <1>2, <1>3

LEMMA CellAt ==
    ASSUME NEW o \in Sectors, NEW s \in Sectors, NEW j \in Places
    PROVE  (o * SECTOR + Way(o, s) * SECTOR + j - 1) % Size = Cell(s, j)
<1>1. /\ SECTORS \in Nat /\ SECTOR \in Nat /\ o \in Nat /\ s \in Nat
      /\ o < SECTORS /\ s < SECTORS /\ j \in Nat /\ j >= 1
    BY SizesAssumption DEF Sectors, Places
<1>2. Size \in Nat /\ SECTORS * SECTOR = Size
    BY <1>1, SectorCells DEF Size
<1>3. PICK c \in Nat : c = Cell(s, j) /\ c < Size
    BY <1>2, CellsApart DEF Cells
<1>4. PICK a \in Nat, b \in Nat, d \in Nat :
        a = o * SECTOR /\ b = s * SECTOR /\ d = Way(o, s) * SECTOR
    <2>1. \A x, y \in Nat : x * y \in Nat
        OBVIOUS
    <2> QED BY <1>1, <2>1, WayFacts
<1>5. c = b + j - 1
    BY <1>3, <1>4 DEF Cell
<1>6. CASE o <= s
    <2>1. PICK k \in Nat : k = Way(o, s) /\ s = o + k
        BY <1>1, <1>6 DEF Way
    <2>2. \A x, y, z \in Nat : (x + y) * z = x * z + y * z
        OBVIOUS
    <2>3. b = a + d
        BY <1>1, <1>4, <2>1, <2>2
    <2>4. a + d + j - 1 = c
        BY <1>1, <1>5, <2>3
    <2> QED BY <1>2, <1>3, <1>4, <2>4, Remainder
<1>7. CASE ~(o <= s)
    <2>1. PICK k \in Nat : k = Way(o, s) /\ s + SECTORS = o + k
        BY <1>1, <1>7 DEF Way
    <2>2. \A x, y, z \in Nat : (x + y) * z = x * z + y * z
        OBVIOUS
    <2>3. (s + SECTORS) * SECTOR = b + Size /\ (o + k) * SECTOR = a + d
        BY <1>1, <1>2, <1>4, <2>1, <2>2
    <2>4. a + d = b + Size
        BY <2>1, <2>3
    <2>5. a + d + j - 1 = c + Size
        BY <1>1, <1>2, <1>5, <2>4
    <2> QED BY <1>2, <1>3, <1>4, <2>5, Remainder
<1> QED BY <1>6, <1>7

LEMMA BufferSpot ==
    ASSUME NEW i \in Buffers, NEW j \in Buffers
    PROVE  (i + (SECTORS + Dist(i, j)) - SECTORS) % COUNT = j
<1>1. /\ SECTORS \in Nat /\ COUNT \in Nat /\ i \in Nat /\ j \in Nat
      /\ i < COUNT /\ j < COUNT
    BY SizesAssumption DEF Buffers
<1>2. CASE i <= j
    <2>1. i + (SECTORS + Dist(i, j)) - SECTORS = j
        BY <1>1, <1>2 DEF Dist
    <2> QED BY <1>1, <2>1, Remainder
<1>3. CASE ~(i <= j)
    <2>1. i + (SECTORS + Dist(i, j)) - SECTORS = j + COUNT
        BY <1>1, <1>3 DEF Dist
    <2> QED BY <1>1, <2>1, Remainder
<1> QED BY <1>2, <1>3

LEMMA TrailSector ==
    ASSUME NEW o \in Sectors, offs = o * SECTOR, NEW s \in Sectors, NEW j \in Places
    PROVE  /\ <<Way(o, s), j>> \in Spots
           /\ Trail[<<Way(o, s), j>>] = Stored[Cell(s, j)]
<1>1. PICK k \in Nat : k = Way(o, s) /\ k < SECTORS
    BY WayFacts
<1>2. SECTORS \in Nat /\ COUNT \in Nat /\ COUNT >= 2
    BY SizesAssumption
<1>3. <<k, j>> \in Spots
    BY <1>1, <1>2 DEF Spots, Places
<1>4. PICK p : p = <<k, j>> /\ p \in Spots /\ p[1] = k /\ p[2] = j
    BY <1>3
<1>5. Trail[p] = Stored[(offs + k * SECTOR + j - 1) % Size]
    BY <1>1, <1>4 DEF Trail
<1>6. (offs + k * SECTOR + j - 1) % Size = Cell(s, j)
    BY <1>1, CellAt
<1> QED BY <1>1, <1>4, <1>5, <1>6

LEMMA TrailBuffer ==
    ASSUME IInv, NEW i \in Buffers, NEW j \in Places
    PROVE  /\ <<SECTORS + Dist(f, i), j>> \in Spots
           /\ Trail[<<SECTORS + Dist(f, i), j>>] = BufferAt(i, j)
<1>1. f \in Buffers /\ SECTORS \in Nat /\ COUNT \in Nat
    BY SizesAssumption DEF IInv
<1>2. PICK d \in Nat : d = Dist(f, i) /\ d < COUNT
    BY <1>1, DistFacts
<1>3. PICK k \in Nat : k = SECTORS + d /\ ~(k < SECTORS)
    BY <1>1, <1>2
<1>4. <<k, j>> \in Spots
    BY <1>1, <1>2, <1>3 DEF Spots, Places
<1>5. PICK p : p = <<k, j>> /\ p \in Spots /\ p[1] = k /\ p[2] = j
    BY <1>4
<1>6. Trail[p] = BufferAt((f + k - SECTORS) % COUNT, j)
    BY <1>3, <1>5 DEF Trail
<1>7. (f + k - SECTORS) % COUNT = i
    BY <1>1, <1>2, <1>3, BufferSpot
<1> QED BY <1>2, <1>3, <1>5, <1>6, <1>7

LEMMA SpotIs ==
    ASSUME IInv, NEW o \in Sectors, NEW p \in Spots
    PROVE  /\ p[2] \in Places
           /\ \/ \E s \in Sectors : p = <<Way(o, s), p[2]>> /\ p[1] = Way(o, s)
              \/ \E i \in Buffers : p = <<SECTORS + Dist(f, i), p[2]>> /\ p[1] = SECTORS + Dist(f, i)
<1>1. f \in Buffers /\ SECTORS \in Nat /\ COUNT \in Nat
    BY SizesAssumption DEF IInv
<1>2. PICK k, j : p = <<k, j>> /\ p[1] = k /\ p[2] = j /\ k \in 0 .. (SECTORS + COUNT - 1) /\ j \in Places
    BY DEF Spots, Places
<1>3. CASE k < SECTORS
    <2>1. k \in 0 .. (SECTORS - 1)
        BY <1>1, <1>2, <1>3
    <2> QED BY <1>2, <2>1, SectorFrom
<1>4. CASE ~(k < SECTORS)
    <2>1. PICK d : d = k - SECTORS
        OBVIOUS
    <2>2. d \in 0 .. (COUNT - 1) /\ k = SECTORS + d
        BY <1>1, <1>2, <1>4, <2>1
    <2>3. PICK i \in Buffers : Dist(f, i) = d
        BY <1>1, <2>2, BufferFrom
    <2> QED BY <1>2, <2>2, <2>3
<1> QED BY <1>3, <1>4

(* The text at a place of the trail, and its number.                       *)
TextAt(o, k, m) ==
    \/ \E s \in Headers(Stored) : k = Way(o, s) /\ SeqAt(Stored, s) = m
    \/ \E i \in Buffers : k = SECTORS + Dist(f, i) /\ InUse(buf[i]) /\ Num(buf[i]) = m

LEMMA SpotText ==
    ASSUME IInv, BuffersNumbered, Shaped(buf), Textual(Stored), NEW n \in Nat, Numbered(Stored, n),
           NEW o \in Sectors, offs = o * SECTOR, NEW p \in Spots, NEW c, c = Trail[p], c # Blank
    PROVE  /\ p[2] \in Places
           /\ \E m \in Nat :
                /\ TextAt(o, p[1], m)
                /\ p[2] = 1 => c = Hdr(m)
                /\ p[2] # 1 => IsLog(c) /\ Entry(Stored, buf, m, p[2], c[2])
<1>1. PICK j \in Places : j = p[2]
    BY SpotIs
<1>2. CASE \E s \in Sectors : p = <<Way(o, s), j>> /\ p[1] = Way(o, s)
    <2>1. PICK s \in Sectors : p = <<Way(o, s), j>> /\ p[1] = Way(o, s)
        BY <1>2
    <2>2. c = Stored[Cell(s, j)]
        BY <2>1, TrailSector
    <2>3. Headed(Stored, s)
        BY <2>2 DEF Textual, IsBlank
    <2>4. PICK m \in Nat : s \in Headers(Stored) /\ SeqAt(Stored, s) = m /\ Stored[s * SECTOR] = Hdr(m)
        BY <2>3, HeadersAre DEF Headed, Numbered
    <2>5. TextAt(o, p[1], m)
        BY <2>1, <2>4 DEF TextAt
    <2>6. j = 1 => c = Hdr(m)
        BY <2>2, <2>4, FirstPlace
    <2>7. j # 1 => IsLog(c) /\ Entry(Stored, buf, m, j, c[2])
        BY <2>2, <2>3, <2>4 DEF Headed, Entry, IsLog
    <2> QED BY <1>1, <2>5, <2>6, <2>7
<1>3. CASE \E i \in Buffers : p = <<SECTORS + Dist(f, i), j>> /\ p[1] = SECTORS + Dist(f, i)
    <2>1. PICK i \in Buffers : p = <<SECTORS + Dist(f, i), j>> /\ p[1] = SECTORS + Dist(f, i)
        BY <1>3
    <2>2. c = BufferAt(i, j)
        BY <2>1, TrailBuffer
    <2>3. InUse(buf[i]) /\ j \in DOMAIN buf[i].data /\ c = buf[i].data[j]
        BY <2>2 DEF BufferAt, InUse
    <2>4. PICK m \in Nat : m = Num(buf[i]) /\ buf[i].data[1] = Hdr(m)
        BY <2>3 DEF BuffersNumbered
    <2>5. TextAt(o, p[1], m)
        BY <2>1, <2>3, <2>4 DEF TextAt
    <2>6. j = 1 => c = Hdr(m)
        BY <2>3, <2>4
    <2>7. j # 1 => IsLog(c) /\ Entry(Stored, buf, m, j, c[2])
        <3> SUFFICES ASSUME j # 1 PROVE IsLog(c) /\ Entry(Stored, buf, m, j, c[2])
            OBVIOUS
        <3>1. IsLog(c)
            BY <2>3 DEF Shaped
        <3>2. buf[i].data[j] = Log(c[2])
            BY <2>3, <3>1 DEF IsLog
        <3> QED BY <2>3, <2>4, <3>1, <3>2 DEF Entry
    <2> QED BY <1>1, <2>5, <2>6, <2>7
<1> QED BY <1>1, <1>2, <1>3, SpotIs

(* Along the trail the numbers go up.                                      *)
LEMMA TextOrder ==
    ASSUME IInv, Behind, BuffersNumbered, Base \in Nat, NEW N \in Nat, Numbered(Stored, N),
           NEW o \in Sectors, Rowed(Stored), Trails(Stored, o, Base), Under(Stored, Base),
           NEW k, NEW l, NEW m, NEW n, TextAt(o, k, m), TextAt(o, l, n)
    PROVE  /\ k < l => m < n
           /\ k = l => m = n
<1>1. SECTORS \in Nat /\ f \in Buffers
    BY SizesAssumption DEF IInv
<1>2. ASSUME NEW s \in Headers(Stored)
      PROVE  /\ s \in Sectors /\ Way(o, s) \in Nat /\ Way(o, s) < SECTORS
             /\ (Way(o, s) = 0 <=> s = o) /\ SeqAt(Stored, s) \in Nat /\ SeqAt(Stored, s) < Base
             /\ s # o => SeqAt(Stored, s) = Base - SECTORS + Way(o, s)
    <2>1. s \in Sectors
        BY HeadersAre
    <2>2. /\ Way(o, s) \in Nat /\ Way(o, s) < SECTORS /\ (Way(o, s) = 0 <=> o = s)
          /\ o # s => Way(s, o) = SECTORS - Way(o, s)
        BY <2>1, WayFacts
    <2>3. SeqAt(Stored, s) \in Nat /\ SeqAt(Stored, s) < Base
        BY DEF Numbered, Under
    <2>4. s # o => Way(s, o) = Base - SeqAt(Stored, s)
        BY DEF Trails
    <2>5. s # o => SeqAt(Stored, s) = Base - SECTORS + Way(o, s)
        BY <1>1, <2>2, <2>3, <2>4
    <2> QED BY <2>1, <2>2, <2>3, <2>5
<1>3. ASSUME NEW i \in Buffers, InUse(buf[i])
      PROVE  Num(buf[i]) = Base + Dist(f, i) /\ Dist(f, i) \in Nat
    BY <1>3, BufferNumber
<1>4. CASE \E s \in Headers(Stored) : k = Way(o, s) /\ SeqAt(Stored, s) = m
    <2>1. PICK s \in Headers(Stored) : k = Way(o, s) /\ SeqAt(Stored, s) = m
        BY <1>4
    <2>2. CASE \E t \in Headers(Stored) : l = Way(o, t) /\ SeqAt(Stored, t) = n
        <3>1. PICK t \in Headers(Stored) : l = Way(o, t) /\ SeqAt(Stored, t) = n
            BY <2>2
        <3>2. CASE s = o /\ t # o
            <4>1. m < n
                BY <2>1, <3>1, <3>2, OldestSector
            <4>2. k = 0 /\ l # 0
                BY <1>2, <2>1, <3>1, <3>2
            <4> QED BY <4>1, <4>2
        <3>3. CASE s # o /\ t # o
            BY <1>1, <1>2, <2>1, <3>1, <3>3
        <3>4. CASE t = o
            <4>1. l = 0 /\ k \in Nat /\ (k = 0 <=> s = o)
                BY <1>2, <2>1, <3>1, <3>4
            <4> QED BY <2>1, <3>1, <3>4, <4>1
        <3> QED BY <3>2, <3>3, <3>4
    <2>3. CASE \E j \in Buffers : l = SECTORS + Dist(f, j) /\ InUse(buf[j]) /\ Num(buf[j]) = n
        <3>1. PICK j \in Buffers : l = SECTORS + Dist(f, j) /\ InUse(buf[j]) /\ Num(buf[j]) = n
            BY <2>3
        <3> QED BY <1>1, <1>2, <1>3, <2>1, <3>1
    <2> QED BY <2>2, <2>3 DEF TextAt
<1>5. CASE \E i \in Buffers : k = SECTORS + Dist(f, i) /\ InUse(buf[i]) /\ Num(buf[i]) = m
    <2>1. PICK i \in Buffers : k = SECTORS + Dist(f, i) /\ InUse(buf[i]) /\ Num(buf[i]) = m
        BY <1>5
    <2>2. CASE \E t \in Headers(Stored) : l = Way(o, t) /\ SeqAt(Stored, t) = n
        <3>1. PICK t \in Headers(Stored) : l = Way(o, t) /\ SeqAt(Stored, t) = n
            BY <2>2
        <3>2. l < SECTORS /\ l \in Nat /\ k \in Nat /\ SECTORS <= k
            BY <1>1, <1>2, <1>3, <2>1, <3>1
        <3> QED BY <1>1, <3>2
    <2>3. CASE \E j \in Buffers : l = SECTORS + Dist(f, j) /\ InUse(buf[j]) /\ Num(buf[j]) = n
        <3>1. PICK j \in Buffers : l = SECTORS + Dist(f, j) /\ InUse(buf[j]) /\ Num(buf[j]) = n
            BY <2>3
        <3> QED BY <1>1, <1>3, <2>1, <3>1
    <2> QED BY <2>2, <2>3 DEF TextAt
<1> QED BY <1>4, <1>5 DEF TextAt

(* The pieces found along the trail are those that are kept.               *)
LEMMA FoundKept ==
    ASSUME IInv, BuffersNumbered, Shaped(buf), Textual(Stored), NEW n \in Nat, Numbered(Stored, n),
           NEW o \in Sectors, offs = o * SECTOR, Texts, NEW u, NEW m, Marked(Stored, u, m, NotYet)
    PROVE  /\ \A x \in Found(Trail) : x \in 1 .. logged /\ Keeps(Stored, buf, x)
           /\ \A x : Keeps(Stored, buf, x) => x \in Found(Trail)
<1>0. logged \in Nat
    BY DEF IInv
<1>1. ASSUME NEW x \in Found(Trail)
      PROVE  x \in 1 .. logged /\ Keeps(Stored, buf, x)
    <2>1. PICK p \in Spots : Trail[p] # Blank /\ Trail[p][1] = "log" /\ x = Trail[p][2]
        BY DEF Found, Only
    <2>2. PICK k \in Nat : /\ p[2] \in Places
                           /\ p[2] = 1 => Trail[p] = Hdr(k)
                           /\ p[2] # 1 => IsLog(Trail[p]) /\ Entry(Stored, buf, k, p[2], x)
        BY <2>1, SpotText
    <2>3. p[2] # 1
        BY <2>1, <2>2 DEF Hdr
    <2>4. x \in Nat /\ Entry(Stored, buf, k, p[2], x)
        BY <2>1, <2>2, <2>3 DEF IsLog
    <2>5. Keeps(Stored, buf, x)
        BY <2>2, <2>4 DEF Entry, Keeps, OnSector, Holds
    <2>6. x \notin NotYet
        BY <2>5 DEF Keeps, Marked, Texts
    <2>7. x \in 1 .. logged
        BY <1>0, <2>4, <2>6 DEF NotYet
    <2> QED BY <2>5, <2>7
<1>2. ASSUME NEW x, Keeps(Stored, buf, x)
      PROVE  x \in Found(Trail)
    <2> SUFFICES \E p \in Spots : Trail[p] = Log(x)
        <3>1. ASSUME NEW p \in Spots, Trail[p] = Log(x) PROVE x \in Found(Trail)
            <4>1. Trail[p] # Blank /\ Trail[p][1] = "log" /\ Trail[p][2] = x
                BY <3>1, LogKinds DEF Log
            <4> QED BY <4>1 DEF Found, Only
        <3> QED BY <3>1
    <2>1. CASE \E s \in Sectors : OnSector(Stored, s, x)
        <3>1. PICK s \in Sectors, j \in Places : Stored[Cell(s, j)] = Log(x)
            BY <2>1 DEF OnSector
        <3> QED BY <3>1, TrailSector
    <2>2. CASE \E i \in Buffers : InUse(buf[i]) /\ Holds(buf[i], x)
        <3>1. PICK i \in Buffers : InUse(buf[i]) /\ Holds(buf[i], x)
            BY <2>2
        <3>2. PICK j \in DOMAIN buf[i].data : buf[i].data[j] = Log(x)
            BY <3>1 DEF Holds
        <3>3. j \in Places
            BY <3>1, <3>2, BufferCells, SizesAssumption DEF Places
        <3>4. BufferAt(i, j) = Log(x)
            BY <3>1, <3>2 DEF BufferAt, InUse
        <3> QED BY <3>3, <3>4, TrailBuffer
    <2> QED BY <1>2, <2>1, <2>2 DEF Keeps
<1> QED BY <1>1, <1>2

LEMMA OrderedImplies == IInv /\ NInv /\ SInv /\ OInv => InOrder
<1> SUFFICES ASSUME IInv, NInv, SInv, OInv, upset = {}, mode = "run",
                    frame["hook"].at \notin {"wrote", "freed"}
             PROVE  LET t == Trail
                    IN  /\ Only(t, "bad") = {}
                        /\ Rising(t, Only(t, "hdr")) /\ Rising(t, Only(t, "log"))
                        /\ \A u, v \in Found(t) : (u .. v) \subseteq Found(t) \cup lost
    BY DEF InOrder
<1>1. Saved /\ Numbers /\ Ordered /\ IsQueue(queue) /\ BuffersNumbered /\ ~Over
    BY DEF SInv, NInv, OInv, Calm, Numbers, Over
<1>2. Behind /\ Base \in Nat /\ cur \in Nat /\ Numbered(Stored, cur) /\ Shaped(buf)
    BY <1>1, BaseNat, StoredNumbered DEF Numbers, Ordered
<1>3. Textual(Stored) /\ Rowed(Stored) /\ Sorted(Stored, buf)
    BY <1>1, StoredOrdered DEF Ordered
<1>4. PICK o \in Sectors : offs = o * SECTOR /\ Trails(Stored, o, Base)
    BY <1>1 DEF Ordered, Placed
<1>5. Under(Stored, Base)
    <2>1. CASE state = "WRITTING"
        <3>1. o \notin Headers(Stored)
            BY <1>1, <1>4, <2>1, BlankedSector, BlankSector DEF Ordered, Unwritten
        <3> QED BY <1>4, <3>1 DEF Under, Trails
    <2>2. CASE state # "WRITTING"
        BY <1>1, <2>2, StoredLow DEF Ordered, Beyond
    <2> QED BY <2>1, <2>2
<1>6. PICK t : t = Trail
    OBVIOUS
<1>7. ASSUME NEW p \in Spots, t[p] # Blank
      PROVE  \E m \in Nat :
                /\ p[2] \in Places /\ TextAt(o, p[1], m)
                /\ p[2] = 1 => t[p] = Hdr(m)
                /\ p[2] # 1 => IsLog(t[p]) /\ Entry(Stored, buf, m, p[2], t[p][2])
    BY <1>1, <1>2, <1>3, <1>4, <1>6, <1>7, SpotText
<1>8. ASSUME NEW k, NEW l, NEW m, NEW n, TextAt(o, k, m), TextAt(o, l, n)
       PROVE  (k < l => m < n) /\ (k = l => m = n)
    BY <1>1, <1>2, <1>3, <1>4, <1>5, <1>8, TextOrder
<1>9. \A c : IsLog(c) => c[1] = "log"
    BY DEF IsLog, Log
<1>10. \A m : Hdr(m)[1] = "hdr" /\ Hdr(m)[2] = m
    BY DEF Hdr
<1>11. Only(t, "bad") = {}
    <2> SUFFICES ASSUME NEW p \in Spots, t[p] # Blank, t[p][1] = "bad" PROVE FALSE
        BY DEF Only
    <2> QED BY <1>7, <1>9, <1>10
<1>12. ASSUME NEW p \in Spots, NEW q \in Spots, t[p] # Blank, t[q] # Blank, Before(p, q),
              t[p][1] = "hdr", t[q][1] = "hdr"
       PROVE  t[p][2] < t[q][2]
    <2>1. PICK m \in Nat : TextAt(o, p[1], m) /\ p[2] = 1 /\ t[p] = Hdr(m)
        BY <1>7, <1>9, <1>12
    <2>2. PICK n \in Nat : TextAt(o, q[1], n) /\ q[2] = 1 /\ t[q] = Hdr(n)
        BY <1>7, <1>9, <1>12
    <2>3. p[1] < q[1]
        BY <1>12, <2>1, <2>2 DEF Before
    <2>4. m < n
        BY <1>8, <2>1, <2>2, <2>3
    <2> QED BY <1>10, <2>1, <2>2, <2>4
<1>13. ASSUME NEW p \in Spots, NEW q \in Spots, t[p] # Blank, t[q] # Blank, Before(p, q),
              t[p][1] = "log", t[q][1] = "log"
       PROVE  t[p][2] < t[q][2]
    <2>1. PICK m \in Nat : /\ p[2] \in Places /\ TextAt(o, p[1], m) /\ IsLog(t[p])
                           /\ Entry(Stored, buf, m, p[2], t[p][2])
        BY <1>7, <1>10, <1>13
    <2>2. PICK n \in Nat : /\ q[2] \in Places /\ TextAt(o, q[1], n) /\ IsLog(t[q])
                           /\ Entry(Stored, buf, n, q[2], t[q][2])
        BY <1>7, <1>10, <1>13
    <2>3. (p[1] < q[1] => m < n) /\ (p[1] = q[1] => m = n)
        BY <1>8, <2>1, <2>2
    <2>4. Sooner(m, p[2], n, q[2])
        BY <1>13, <2>3 DEF Before, Sooner
    <2> QED BY <1>3, <2>1, <2>2, <2>4 DEF Sorted, IsLog
<1>14. Rising(t, Only(t, "hdr")) /\ Rising(t, Only(t, "log"))
    BY <1>12, <1>13 DEF Rising, Only
<1>15. ASSUME NEW u \in Found(t), NEW v \in Found(t), NEW x \in u .. v, x \notin lost
       PROVE  x \in Found(t)
    <2>1. Texts /\ Marked(Stored, logged, cur - 1, NotYet)
        BY <1>1, StoredMarked DEF Saved
    <2>2. /\ \A y \in Found(t) : y \in 1 .. logged /\ Keeps(Stored, buf, y)
          /\ \A y : Keeps(Stored, buf, y) => y \in Found(t)
        BY <1>1, <1>2, <1>3, <1>4, <1>6, <2>1, FoundKept
    <2>3. u \in 1 .. logged /\ v \in 1 .. logged /\ Keeps(Stored, buf, u)
        BY <1>15, <2>2
    <2>4. x \in 1 .. logged /\ u <= x
        <3>1. logged \in Nat
            BY DEF IInv
        <3> QED BY <1>15, <2>3, <3>1
    <2>5. NoGap(Stored, buf, logged, lost)
        BY <1>1 DEF Ordered, Gapless
    <2> QED BY <1>15, <2>2, <2>3, <2>4, <2>5 DEF NoGap
<1>16. \A u, v \in Found(t) : (u .. v) \subseteq Found(t) \cup lost
    BY <1>15
<1> QED BY <1>6, <1>11, <1>14, <1>16

(* As long as the writer never caught up with the flush, what is on the    *)
(* flash from the write position round, and then in the buffers, is the    *)
(* log in its order: no cell spoilt, headers and pieces going up, and no   *)
(* piece missing between two but those lost with the power.                *)
THEOREM AlwaysInOrder == Spec => []InOrder
<1>1. IInv /\ NInv /\ SInv /\ OInv /\ [Next]_vars => (IInv /\ NInv /\ SInv /\ OInv)'
    BY NextInv, NextNumbers, NextSaved, NextOrdered
<1> QED BY <1>1, InitInv, InitNumbers, InitSaved, InitOrdered, OrderedImplies, PTL DEF Spec
=============================================================================
