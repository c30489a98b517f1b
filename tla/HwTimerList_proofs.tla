------------------------ MODULE HwTimerList_proofs ---------------------------
(***************************************************************************)
(* Proofs about HwTimerList, for every number of timers, delay, latency of *)
(* the interrupt and number of stops.                                      *)
(*                                                                         *)
(* IInv: the lists agree with the states of the timers, and the hardware   *)
(* runs for the head of the active list.  They are proved together: the    *)
(* list operations keep the lists apart only because they agree with the   *)
(* states, and a change of a follower leaves the head's time alone only    *)
(* because no timer is listed twice.                                       *)
(*                                                                         *)
(* TInv: no time is ever negative, and no timer expires early or late by   *)
(* more than a late head and the stops explain.  The bounds of NeverEarly  *)
(* and NeverLate are those of one timer when it has fired, and say nothing *)
(* of the hardware that runs for the head only.  Lead and Lag are what     *)
(* they have to be in between, of all active timers alike: the ticks that  *)
(* the hardware has left for the head, plus or less what the stops cost.   *)
(***************************************************************************)
EXTENDS HwTimerList, FiniteSetTheorems, SequenceTheorems, WellFoundedInduction, TLAPS

\* The record of the hardware timer.
IsHw(h) ==
    \E load, elapsed, taken : \E on \in BOOLEAN :
        h = [on |-> on, load |-> load, elapsed |-> elapsed, taken |-> taken]

\* What the invariant needs to know of the types.  The times are left out: their
\* sums are folds.
Shape ==
    /\ state \in [Timer -> TimerState]
    /\ time = [t \in Timer |-> time[t]]
    /\ active \in Seq(Timer) /\ fired \in Seq(Timer)
    /\ IsHw(hw)
    /\ irq \in {"idle", "entered", "in_callback"}

\* The list of the handler is empty outside its loop.
FiredInCallback == fired # <<>> => irq = "in_callback"

IInv == Shape /\ ListsAgree /\ HeadArmed /\ FiredInCallback

-----------------------------------------------------------------------------
(***************************************************************************)
(* Sequences without repetition.                                           *)
(***************************************************************************)

\* A sequence by its elements.
ByElements(s) ==
    /\ \A x : x \in ToSet(s) <=> \E j \in 1 .. Len(s) : s[j] = x
    /\ IsInjective(s) <=> \A j, k \in 1 .. Len(s) : s[j] = s[k] => j = k

\* The elements and the repetitions of a sequence, by position.
LEMMA Elements ==
    ASSUME NEW S, NEW s \in Seq(S)
    PROVE  /\ Len(s) \in Nat
           /\ \A j \in 1 .. Len(s) : s[j] \in S
           /\ ByElements(s)
<1>1. Len(s) \in Nat /\ DOMAIN s = 1 .. Len(s) /\ \A j \in 1 .. Len(s) : s[j] \in S
    BY LenProperties, ElementOfSeq
<1> QED BY <1>1 DEF ToSet, IsInjective, ByElements

\* An element goes in at position i.
LEMMA InsertKeepsOrder ==
    ASSUME NEW S, NEW s \in Seq(S), IsInjective(s), NEW e \in S, e \notin ToSet(s),
           NEW i \in 1 .. Len(s) + 1
    PROVE  /\ InsertAt(s, i, e) \in Seq(S)
           /\ ToSet(InsertAt(s, i, e)) = ToSet(s) \cup {e}
           /\ IsInjective(InsertAt(s, i, e))
           /\ InsertAt(s, i, e) # <<>>
           /\ i > 1 => s # <<>> /\ Head(InsertAt(s, i, e)) = Head(s)
           /\ Len(InsertAt(s, i, e)) = Len(s) + 1
           /\ \A j \in 1 .. Len(s) + 1 :
                 InsertAt(s, i, e)[j] = IF j < i THEN s[j] ELSE IF j = i THEN e ELSE s[j - 1]
<1> DEFINE a == SubSeq(s, 1, i - 1)
           b == SubSeq(s, i, Len(s))
           c == a \o <<e>>
           r == c \o b
<1>0. r = InsertAt(s, i, e)
    BY DEF InsertAt
<1>1. Len(s) \in Nat /\ (\A j \in 1 .. Len(s) : s[j] \in S) /\ ByElements(s)
    BY Elements
<1>2. /\ a \in Seq(S) /\ Len(a) = i - 1 /\ \A j \in 1 .. i - 1 : a[j] = s[j]
      /\ b \in Seq(S) /\ Len(b) = Len(s) - i + 1
      /\ \A j \in 1 .. Len(s) - i + 1 : b[j] = s[i + j - 1]
    <2>1. /\ \A j \in 1 .. i - 1 : s[j] \in S
          /\ \A j \in i .. Len(s) : s[j] \in S
        BY <1>1
    <2>2. a \in Seq(S) /\ Len(a) = i - 1 /\ \A j \in 1 .. i - 1 : a[j] = s[j]
        BY <2>1, SubSeqProperties, <1>1
    <2>3. /\ b \in Seq(S) /\ Len(b) = Len(s) - i + 1
          /\ \A j \in 1 .. Len(s) - i + 1 : b[j] = s[i + j - 1]
        BY <2>1, SubSeqProperties, <1>1
    <2> QED BY <2>2, <2>3
<1> HIDE DEF a, b
<1>3. c \in Seq(S) /\ Len(c) = i /\ \A j \in 1 .. i : c[j] = IF j < i THEN s[j] ELSE e
    BY <1>1, <1>2
<1> HIDE DEF c
<1>4. /\ r \in Seq(S) /\ Len(r) = Len(s) + 1
      /\ \A j \in 1 .. Len(s) + 1 : r[j] = IF j <= i THEN c[j] ELSE b[j - i]
      /\ ByElements(r)
    <2>1. /\ r \in Seq(S) /\ Len(r) = Len(c) + Len(b)
          /\ \A j \in 1 .. Len(c) + Len(b) : r[j] = IF j <= Len(c) THEN c[j] ELSE b[j - Len(c)]
        BY <1>2, <1>3, ConcatProperties
    <2> HIDE DEF r
    <2>2. ByElements(r)
        BY <2>1, Elements
    <2> QED BY <1>1, <1>2, <1>3, <2>1, <2>2
<1> HIDE DEF r
<1>5. ASSUME NEW j \in 1 .. Len(s) + 1
      PROVE r[j] = IF j < i THEN s[j] ELSE IF j = i THEN e ELSE s[j - 1]
    <2>1. r[j] = IF j <= i THEN c[j] ELSE b[j - i]
        BY <1>4
    <2>2. CASE j <= i
        <3>1. j \in 1 .. i
            BY <1>1, <2>2
        <3> QED BY <1>3, <2>1, <2>2, <3>1
    <2>3. CASE ~(j <= i)
        <3>1. j - i \in 1 .. Len(s) - i + 1 /\ i + (j - i) - 1 = j - 1 /\ ~(j < i) /\ j # i
            BY <1>1, <2>3
        <3>2. b[j - i] = s[i + (j - i) - 1]
            BY <1>2, <3>1
        <3> QED BY <2>1, <2>3, <3>1, <3>2
    <2> QED BY <2>2, <2>3
<1>6. \A x : x \in ToSet(r) <=> x \in ToSet(s) \/ x = e
    <2>1. ASSUME NEW j \in 1 .. Len(s) + 1 PROVE r[j] \in ToSet(s) \/ r[j] = e
        BY <1>1, <1>5 DEF ByElements
    <2>2. ASSUME NEW j \in 1 .. Len(s) PROVE s[j] \in ToSet(r)
        <3>1. \E k \in 1 .. Len(s) + 1 : r[k] = s[j]
            <4>1. CASE j < i
                BY <1>1, <1>5, <4>1
            <4>2. CASE j >= i
                <5>1. j + 1 \in 1 .. Len(s) + 1 /\ r[j + 1] = s[j]
                    BY <1>1, <1>5, <4>2
                <5> QED BY <5>1
            <4> QED BY <1>1, <4>1, <4>2
        <3> QED BY <3>1, <1>4 DEF ByElements
    <2>3. e \in ToSet(r)
        <3>1. i \in 1 .. Len(s) + 1 /\ r[i] = e
            BY <1>1, <1>5
        <3> QED BY <3>1, <1>4 DEF ByElements
    <2> QED BY <2>1, <2>2, <2>3, <1>1, <1>4 DEF ByElements
<1>7. IsInjective(r)
    <2>1. ASSUME NEW j \in 1 .. Len(s) + 1, NEW k \in 1 .. Len(s) + 1, r[j] = r[k] PROVE j = k
        BY <2>1, <1>1, <1>5 DEF ByElements
    <2> QED BY <2>1, <1>4 DEF ByElements
<1>8. Len(r) > 0 /\ r # <<>> /\ (i > 1 => s # <<>> /\ Head(r) = Head(s))
    BY <1>1, <1>4, <1>5
<1> QED BY <1>0, <1>4, <1>5, <1>6, <1>7, <1>8

\* The element at position i goes.
LEMMA RemoveKeepsOrder ==
    ASSUME NEW S, NEW s \in Seq(S), IsInjective(s), NEW i \in 1 .. Len(s)
    PROVE  /\ RemoveAt(s, i) \in Seq(S)
           /\ ToSet(RemoveAt(s, i)) = ToSet(s) \ {s[i]}
           /\ IsInjective(RemoveAt(s, i))
           /\ i > 1 => RemoveAt(s, i) # <<>> /\ Head(RemoveAt(s, i)) = Head(s)
           /\ Len(RemoveAt(s, i)) = Len(s) - 1
           /\ \A j \in 1 .. Len(s) - 1 : RemoveAt(s, i)[j] = IF j < i THEN s[j] ELSE s[j + 1]
<1> DEFINE a == SubSeq(s, 1, i - 1)
           b == SubSeq(s, i + 1, Len(s))
           r == a \o b
<1>0. r = RemoveAt(s, i)
    BY DEF RemoveAt
<1>1. Len(s) \in Nat /\ (\A j \in 1 .. Len(s) : s[j] \in S) /\ ByElements(s)
    BY Elements
<1>2. /\ a \in Seq(S) /\ Len(a) = i - 1 /\ \A j \in 1 .. i - 1 : a[j] = s[j]
      /\ b \in Seq(S) /\ Len(b) = Len(s) - i
      /\ \A j \in 1 .. Len(s) - i : b[j] = s[i + j]
    <2>1. /\ \A j \in 1 .. i - 1 : s[j] \in S
          /\ \A j \in i + 1 .. Len(s) : s[j] \in S
        BY <1>1
    <2>2. a \in Seq(S) /\ Len(a) = i - 1 /\ \A j \in 1 .. i - 1 : a[j] = s[j]
        BY <2>1, SubSeqProperties, <1>1
    <2>3. /\ b \in Seq(S) /\ Len(b) = Len(s) - i
          /\ \A j \in 1 .. Len(s) - i : b[j] = s[i + j]
        BY <2>1, SubSeqProperties, <1>1
    <2> QED BY <2>2, <2>3
<1> HIDE DEF a, b
<1>4. /\ r \in Seq(S) /\ Len(r) = Len(s) - 1
      /\ \A j \in 1 .. Len(s) - 1 : r[j] = IF j < i THEN a[j] ELSE b[j - i + 1]
      /\ ByElements(r)
    <2>1. /\ r \in Seq(S) /\ Len(r) = Len(a) + Len(b)
          /\ \A j \in 1 .. Len(a) + Len(b) : r[j] = IF j <= Len(a) THEN a[j] ELSE b[j - Len(a)]
        BY <1>2, ConcatProperties
    <2> HIDE DEF r
    <2>2. ByElements(r)
        BY <2>1, Elements
    <2>3. Len(a) + Len(b) = Len(s) - 1
        BY <1>1, <1>2
    <2>4. ASSUME NEW j \in 1 .. Len(s) - 1 PROVE r[j] = IF j < i THEN a[j] ELSE b[j - i + 1]
        <3>1. j \in 1 .. Len(a) + Len(b) /\ Len(a) = i - 1 /\ j - Len(a) = j - i + 1
            BY <1>1, <1>2, <2>3
        <3> QED BY <1>1, <2>1, <3>1
    <2> QED BY <2>1, <2>2, <2>3, <2>4
<1> HIDE DEF r
<1>5. ASSUME NEW j \in 1 .. Len(s) - 1 PROVE r[j] = IF j < i THEN s[j] ELSE s[j + 1]
    <2>1. r[j] = IF j < i THEN a[j] ELSE b[j - i + 1]
        BY <1>4
    <2>2. CASE j < i
        <3>1. j \in 1 .. i - 1
            BY <1>1, <2>2
        <3> QED BY <1>2, <2>1, <2>2, <3>1
    <2>3. CASE ~(j < i)
        <3>1. j - i + 1 \in 1 .. Len(s) - i /\ i + (j - i + 1) = j + 1
            BY <1>1, <2>3
        <3>2. b[j - i + 1] = s[i + (j - i + 1)]
            BY <1>2, <3>1
        <3> QED BY <2>1, <2>3, <3>1, <3>2
    <2> QED BY <2>2, <2>3
<1>6. \A x : x \in ToSet(r) <=> x \in ToSet(s) /\ x # s[i]
    <2>1. ASSUME NEW j \in 1 .. Len(s) - 1 PROVE r[j] \in ToSet(s) /\ r[j] # s[i]
        BY <1>1, <1>5 DEF ByElements
    <2>2. ASSUME NEW j \in 1 .. Len(s), j # i PROVE s[j] \in ToSet(r)
        <3>1. \E k \in 1 .. Len(s) - 1 : r[k] = s[j]
            <4>1. CASE j < i
                BY <1>1, <1>5, <4>1
            <4>2. CASE j > i
                <5>1. j - 1 \in 1 .. Len(s) - 1 /\ r[j - 1] = s[j]
                    BY <1>1, <1>5, <4>2
                <5> QED BY <5>1
            <4> QED BY <1>1, <2>2, <4>1, <4>2
        <3> QED BY <3>1, <1>4 DEF ByElements
    <2> QED BY <2>1, <2>2, <1>1, <1>4 DEF ByElements
<1>7. IsInjective(r)
    <2>1. ASSUME NEW j \in 1 .. Len(s) - 1, NEW k \in 1 .. Len(s) - 1, r[j] = r[k] PROVE j = k
        BY <2>1, <1>1, <1>5 DEF ByElements
    <2> QED BY <2>1, <1>4 DEF ByElements
<1>8. i > 1 => r # <<>> /\ Head(r) = Head(s)
    BY <1>1, <1>4, <1>5
<1> QED BY <1>0, <1>4, <1>5, <1>6, <1>7, <1>8

\* The first n elements and the others.
Parts(s, p, q, S) ==
    /\ p \in Seq(S) /\ q \in Seq(S)
    /\ IsInjective(p) /\ IsInjective(q)
    /\ ToSet(q) = ToSet(s) \ ToSet(p) /\ ToSet(p) \subseteq ToSet(s)
    /\ Len(p) + Len(q) = Len(s)
    /\ \A j \in 1 .. Len(p) : p[j] = s[j]
    /\ \A j \in 1 .. Len(q) : q[j] = s[Len(p) + j]

\* Both parts are lists again.
LEMMA SplitKeepsOrder ==
    ASSUME NEW S, NEW s \in Seq(S), IsInjective(s), NEW n \in 0 .. Len(s)
    PROVE  /\ Parts(s, SubSeq(s, 1, n), SubSeq(s, n + 1, Len(s)), S)
           /\ Len(SubSeq(s, 1, n)) = n
<1> DEFINE p == SubSeq(s, 1, n)
           q == SubSeq(s, n + 1, Len(s))
<1>1. Len(s) \in Nat /\ (\A j \in 1 .. Len(s) : s[j] \in S) /\ ByElements(s)
    BY Elements
<1>2. p \in Seq(S) /\ Len(p) = n /\ (\A j \in 1 .. n : p[j] = s[j]) /\ ByElements(p)
    <2>1. \A j \in 1 .. n : s[j] \in S
        BY <1>1
    <2>2. p \in Seq(S) /\ Len(p) = n /\ \A j \in 1 .. n : p[j] = s[j]
        BY <2>1, SubSeqProperties, <1>1
    <2> QED BY <2>2, Elements
<1>3. q \in Seq(S) /\ Len(q) = Len(s) - n 
      /\ (\A j \in 1 .. Len(s) - n : q[j] = s[n + j]) /\ ByElements(q)
    <2>1. \A j \in n + 1 .. Len(s) : s[j] \in S
        BY <1>1
    <2>2. q \in Seq(S) /\ Len(q) = Len(s) - n /\ \A j \in 1 .. Len(s) - n : q[j] = s[n + j]
        BY <2>1, SubSeqProperties, <1>1
    <2> QED BY <2>2, Elements
<1> HIDE DEF p, q
<1>4. IsInjective(p) /\ IsInjective(q)
    <2>1. \A j, k \in 1 .. n : p[j] = p[k] => j = k
        BY <1>1, <1>2 DEF ByElements
    <2>2. \A j, k \in 1 .. Len(s) - n : q[j] = q[k] => j = k
        BY <1>1, <1>3 DEF ByElements
    <2> QED BY <2>1, <2>2, <1>1, <1>2, <1>3 DEF ByElements
<1>5. \A x \in ToSet(p) : x \in ToSet(s)
    BY <1>1, <1>2 DEF ByElements
<1>6. ASSUME NEW j \in 1 .. Len(s) - n PROVE q[j] \in ToSet(s) /\ q[j] \notin ToSet(p)
    BY <1>1, <1>2, <1>3 DEF ByElements
<1>7. ASSUME NEW j \in 1 .. Len(s), s[j] \notin ToSet(p) PROVE s[j] \in ToSet(q)
    <2>1. j > n
        BY <1>1, <1>2, <1>7 DEF ByElements
    <2>2. j - n \in 1 .. Len(q) /\ q[j - n] = s[j]
        BY <1>1, <1>3, <2>1
    <2> QED BY <2>2, <1>3 DEF ByElements
<1>8. \A x : x \in ToSet(q) <=> x \in ToSet(s) /\ x \notin ToSet(p)
    <2>1. ASSUME NEW x \in ToSet(q) PROVE x \in ToSet(s) /\ x \notin ToSet(p)
        <3>1. PICK j \in 1 .. Len(q) : q[j] = x
            BY <2>1, <1>3 DEF ByElements
        <3> QED BY <3>1, <1>3, <1>6
    <2>2. ASSUME NEW x \in ToSet(s), x \notin ToSet(p) PROVE x \in ToSet(q)
        BY <2>2, <1>1, <1>7 DEF ByElements
    <2> QED BY <2>1, <2>2
<1>9. Parts(s, p, q, S)
    <2>1. Len(p) + Len(q) = Len(s) /\ \A j \in 1 .. Len(q) : q[j] = s[Len(p) + j]
        BY <1>1, <1>2, <1>3
    <2> QED BY <2>1, <1>2, <1>3, <1>4, <1>5, <1>8 DEF Parts
<1> QED BY <1>2, <1>9 DEF p, q

\* The head goes.
LEMMA TailKeepsOrder ==
    ASSUME NEW S, NEW s \in Seq(S), IsInjective(s), s # <<>>
    PROVE  /\ Head(s) \in S /\ Head(s) \in ToSet(s)
           /\ Tail(s) \in Seq(S) /\ IsInjective(Tail(s))
           /\ ToSet(Tail(s)) = ToSet(s) \ {Head(s)}
           /\ Head(s) = s[1] /\ Len(Tail(s)) = Len(s) - 1
           /\ \A j \in 1 .. Len(s) - 1 : Tail(s)[j] = s[j + 1]
<1>1. /\ Len(s) \in Nat /\ Len(s) > 0 /\ Head(s) = s[1]
      /\ Tail(s) \in Seq(S) /\ Len(Tail(s)) = Len(s) - 1
      /\ \A j \in 1 .. Len(s) - 1 : Tail(s)[j] = s[j + 1]
      /\ Head(s) \in S /\ ByElements(s) /\ ByElements(Tail(s))
    <2>1. Len(s) \in Nat /\ Len(s) > 0 /\ Head(s) = s[1]
        BY EmptySeq
    <2> QED BY <2>1, HeadTailProperties, Elements
<1>2. Head(s) \in S /\ Head(s) \in ToSet(s)
    BY <1>1 DEF ByElements
<1>3. IsInjective(Tail(s))
    <2>1. \A j, k \in 1 .. Len(s) - 1 : Tail(s)[j] = Tail(s)[k] => j = k
        BY <1>1 DEF ByElements
    <2> QED BY <2>1, <1>1 DEF ByElements
<1>4. ASSUME NEW j \in 1 .. Len(s) - 1 PROVE Tail(s)[j] \in ToSet(s) /\ Tail(s)[j] # Head(s)
    BY <1>1 DEF ByElements
<1>5. ASSUME NEW j \in 1 .. Len(s), s[j] # Head(s) PROVE s[j] \in ToSet(Tail(s))
    <2>1. j - 1 \in 1 .. Len(s) - 1 /\ Tail(s)[j - 1] = s[j]
        BY <1>1, <1>5
    <2> QED BY <2>1, <1>1 DEF ByElements
<1>6. \A x : x \in ToSet(Tail(s)) <=> x \in ToSet(s) /\ x # Head(s)
    BY <1>1, <1>4, <1>5 DEF ByElements
<1> QED BY <1>1, <1>2, <1>3, <1>6

-----------------------------------------------------------------------------
(***************************************************************************)
(* The invariant.                                                          *)
(***************************************************************************)

\* A number of positions of a sequence is not beyond its end.
LEMMA CountedPositions ==
    ASSUME NEW a \in Nat, NEW b \in Nat, a <= b + 1, NEW P \in SUBSET (a .. b)
    PROVE  Cardinality(P) \in 0 .. b - a + 1
<1>1. IsFiniteSet(a .. b) /\ Cardinality(a .. b) = b - a + 1
    BY FS_Interval
<1>2. IsFiniteSet(P) /\ Cardinality(P) <= b - a + 1
    BY <1>1, FS_Subset
<1> QED BY <1>2, FS_CardinalityType

\* The hardware timer runs after hal_timer_start and not after hal_timer_stop.
LEMMA HwRecords ==
    /\ IsHw(Off) /\ Off.on = FALSE
    /\ \A load : IsHw(Start(load)) /\ Start(load).on = TRUE /\ Start(load).load = load
<1>1. IsHw(Off)
    BY DEF IsHw, Off
<1>2. ASSUME NEW load PROVE IsHw(Start(load))
    <2>1. Start(load) = [on |-> TRUE, load |-> load, elapsed |-> 0, taken |-> FALSE]
        BY DEF Start
    <2> QED BY <2>1 DEF IsHw
<1> QED BY <1>1, <1>2 DEF Off, Start

\* Init establishes the invariant.
LEMMA InitInv == Init => IInv
<1> SUFFICES ASSUME Init PROVE IInv
    OBVIOUS
<1>1. Shape
    <2>1. time = [t \in Timer |-> time[t]]
        BY DEF Init
    <2> QED BY <2>1, HwRecords DEF Init, Shape, TimerState
<1>2. ListsAgree
    <2>1. ToSet(<<>>) = {} /\ IsInjective(<<>>)
        BY DEF ToSet, IsInjective
    <2> QED BY <2>1 DEF Init, ListsAgree
<1> QED BY <1>1, <1>2 DEF Init, IInv, HeadArmed, FiredInCallback, Off

\* hwtimer_start keeps the invariant: the timer enters the active list once.
LEMMA StartInv ==
    ASSUME IInv, NEW t \in Timer, NEW ticks \in Ticks, hwtimer_start(t, ticks)
    PROVE  IInv'
<1> USE DEF IInv, Shape
<1>1. /\ state[t] \in {"ALLOC", "CALLBACK"} /\ state' = [state EXCEPT ![t] = "ACTIVE"]
      /\ fired' = fired /\ irq' = irq /\ t \notin ToSet(active) /\ t \notin ToSet(fired)
    BY DEF hwtimer_start, ListsAgree
<1>2. /\ active' \in Seq(Timer) /\ ToSet(active') = ToSet(active) \cup {t}
      /\ IsInjective(active') /\ active' # <<>>
      /\ time' = [u \in Timer |-> time'[u]]
      /\ hw'.on /\ hw'.load = time'[Head(active')]
      /\ IsHw(hw')
    <2>1. CASE StartFirst(t, ticks)
        <3>1. active = <<>> /\ active' = <<t>>
            BY <2>1 DEF StartFirst
        <3>2. ToSet(<<>>) = {} /\ ToSet(<<t>>) = {t} /\ IsInjective(<<t>>)
            BY DEF ToSet, IsInjective
        <3>3. time' = [u \in Timer |-> time'[u]] /\ time'[t] = ticks /\ hw' = Start(ticks)
            BY <2>1 DEF StartFirst
        <3> QED BY <3>1, <3>2, <3>3, HwRecords
    <2>2. CASE StartHead(t, ticks)
        <3>1. active' = InsertAt(active, 1, t)
            <4>1. SubSeq(active, 1, 0) = <<>> /\ SubSeq(active, 1, Len(active)) = active
                BY SubSeqEmpty, SubSeqFull
            <4> QED BY <2>2, <4>1 DEF StartHead, InsertAt
        <3>2. /\ active' \in Seq(Timer) /\ ToSet(active') = ToSet(active) \cup {t}
              /\ IsInjective(active') /\ active' # <<>>
            <4>1. 1 \in 1 .. Len(active) + 1
                BY Elements
            <4> QED BY <1>1, <3>1, <4>1, InsertKeepsOrder DEF ListsAgree
        <3>3. Head(active') = t
            BY <2>2 DEF StartHead
        <3>4. time' = [u \in Timer |-> time'[u]] /\ time'[t] = ticks
            BY <2>2 DEF StartHead
        <3> QED BY <3>2, <3>3, <3>4, <2>2, HwRecords DEF StartHead
    <2>3. CASE StartBehind(t, ticks)
        <3>1. PICK pos, delta :
                 /\ pos \in 1 .. Len(active)
                 /\ active' = InsertAt(active, pos + 1, t)
                 /\ time' = [u \in Timer |-> IF u = t THEN delta
                                             ELSE IF pos < Len(active) /\ u = active[pos + 1]
                                                  THEN time[u] - delta ELSE time[u]]
            <4> DEFINE passed == {i \in 2 .. Len(active) : Behind(i) < ticks - Raw}
            <4>1. Len(active) \in Nat \ {0}
                BY <2>3, EmptySeq DEF StartBehind
            <4>2. Cardinality(passed) \in 0 .. Len(active) - 1
                <5>1. passed \in SUBSET (2 .. Len(active)) /\ 2 <= Len(active) + 1
                    BY <4>1
                <5> HIDE DEF passed
                <5>2. Cardinality(passed) \in 0 .. Len(active) - 2 + 1
                    BY <4>1, <5>1, CountedPositions
                <5> QED BY <4>1, <5>2
            <4>3. Cardinality(passed) + 1 \in 1 .. Len(active)
                BY <4>1, <4>2
            <4>4. /\ active' = InsertAt(active, Cardinality(passed) + 1 + 1, t)
                  /\ time' = [u \in Timer |->
                        IF u = t THEN ticks - Raw - Behind(Cardinality(passed) + 1)
                        ELSE IF Cardinality(passed) + 1 < Len(active)
                                  /\ u = active[Cardinality(passed) + 1 + 1]
                             THEN time[u] - (ticks - Raw - Behind(Cardinality(passed) + 1))
                             ELSE time[u]]
                BY <2>3 DEF StartBehind
            <4> HIDE DEF passed
            <4> QED BY <4>3, <4>4
        <3>2. /\ active' \in Seq(Timer) /\ ToSet(active') = ToSet(active) \cup {t}
              /\ IsInjective(active') /\ active' # <<>> /\ active # <<>>
              /\ Head(active') = Head(active)
            <4>1. pos + 1 \in 1 .. Len(active) + 1 /\ pos + 1 > 1
                BY <3>1, Elements
            <4> QED BY <1>1, <3>1, <4>1, InsertKeepsOrder DEF ListsAgree
        <3>3. time'[Head(active)] = time[Head(active)]
            <4>1. Head(active) = active[1] /\ 1 \in 1 .. Len(active) /\ Head(active) \in Timer
                BY <3>1, <3>2, Elements
            <4>2. Head(active) # t
                BY <1>1, <4>1, Elements DEF ByElements
            <4>3. pos < Len(active) => Head(active) # active[pos + 1]
                BY <3>1, <4>1, Elements DEF ByElements, ListsAgree
            <4> QED BY <3>1, <4>1, <4>2, <4>3
        <3> QED BY <3>1, <3>2, <3>3, <2>3 DEF StartBehind, HeadArmed, IsHw
    <2> QED BY <2>1, <2>2, <2>3 DEF hwtimer_start
<1>3. ListsAgree'
    BY <1>1, <1>2 DEF ListsAgree
<1>4. state' \in [Timer -> TimerState]
    BY <1>1 DEF TimerState
<1> QED BY <1>1, <1>2, <1>3, <1>4 DEF HeadArmed, FiredInCallback

\* hwtimer_stop keeps it: the timer leaves the one list that it is in.
LEMMA StopInv ==
    ASSUME IInv, NEW t \in Timer, hwtimer_stop(t)
    PROVE  IInv'
<1> USE DEF IInv, Shape
<1>1. /\ state' = [state EXCEPT ![t] = "ALLOC"] /\ irq' = irq
      /\ state' \in [Timer -> TimerState]
    BY DEF hwtimer_stop, TimerState
<1>2. CASE state[t] = "ACTIVE" /\ StopHead(t)
    <2>1. active # <<>> /\ fired' = fired /\ t = Head(active) /\ active' = Tail(active)
        BY <1>2, EmptySeq DEF StopHead, ListsAgree, ToSet
    <2>2. /\ active' \in Seq(Timer) /\ IsInjective(active')
          /\ ToSet(active') = ToSet(active) \ {t}
        BY <2>1, TailKeepsOrder DEF ListsAgree
    <2>3. ListsAgree'
        BY <1>1, <1>2, <2>1, <2>2 DEF ListsAgree
    <2>4. /\ HeadArmed' /\ time' = [u \in Timer |-> time'[u]]
          /\ IsHw(hw')
        <3>1. Len(active) \in Nat \ {0} /\ Len(Tail(active)) = Len(active) - 1
            BY <2>1, HeadTailProperties, EmptySeq
        <3>2. CASE Len(active) = 1
            <4>1. active' = <<>>
                BY <2>1, <2>2, <3>1, <3>2, EmptySeq
            <4>2. hw' = Off /\ time' = [time EXCEPT ![t] = 0]
                BY <1>2, <3>2 DEF StopHead
            <4>3. time' = [u \in Timer |-> time'[u]]
                BY <4>2
            <4> QED BY <4>1, <4>2, <4>3, HwRecords DEF HeadArmed
        <3>3. CASE Len(active) # 1
            <4>1. active' # <<>> /\ Head(active') = active[2]
                <5>1. Len(active') > 0 /\ active'[1] = active[2]
                    BY <2>1, <3>1, <3>3, HeadTailProperties
                <5> QED BY <5>1, <2>2, EmptySeq
            <4>2. hw' = Start(time'[active[2]]) /\ (SuccessorInherits \/ SuccessorsCatchUp)
                BY <1>2, <3>3 DEF StopHead
            <4>3. time' = [u \in Timer |-> time'[u]]
                BY <4>2 DEF SuccessorInherits, SuccessorsCatchUp
            <4> QED BY <4>1, <4>2, <4>3, HwRecords DEF HeadArmed
        <3> QED BY <3>2, <3>3
    <2> QED BY <1>1, <2>1, <2>2, <2>3, <2>4 DEF FiredInCallback
<1>3. CASE state[t] = "ACTIVE" /\ StopFollower(t)
    <2>1. PICK i \in 2 .. Len(active) :
             /\ active[i] = t /\ active' = RemoveAt(active, i)
             /\ time' = [u \in Timer |-> IF u = t THEN 0
                                   ELSE IF i < Len(active) /\ u = active[i + 1]
                                        THEN time[u] + time[t] ELSE time[u]]
             /\ fired' = fired /\ hw' = hw
        BY <1>3 DEF StopFollower
    <2>2. i \in 1 .. Len(active) /\ i > 1 /\ Len(active) \in Nat
        BY <2>1, Elements
    <2>3. /\ active' \in Seq(Timer) /\ IsInjective(active')
          /\ ToSet(active') = ToSet(active) \ {t}
          /\ active' # <<>> /\ active # <<>> /\ Head(active') = Head(active)
        BY <2>1, <2>2, RemoveKeepsOrder DEF ListsAgree
    <2>4. ListsAgree'
        BY <1>1, <1>3, <2>1, <2>3 DEF ListsAgree
    <2>5. time'[Head(active)] = time[Head(active)]
        <3>1. Head(active) = active[1] /\ 1 \in 1 .. Len(active) /\ Head(active) \in Timer
            BY <2>2, <2>3, Elements
        <3>2. /\ Head(active) # active[i]
              /\ i < Len(active) => Head(active) # active[i + 1]
            <4>1. \A j, k \in 1 .. Len(active) : active[j] = active[k] => j = k
                BY Elements DEF ListsAgree, ByElements
            <4>2. 1 # i /\ i \in 1 .. Len(active) /\ 1 # i + 1
                  /\ i < Len(active) => i + 1 \in 1 .. Len(active)
                BY <2>2
            <4>3. active[1] # active[i] /\ (i < Len(active) => active[1] # active[i + 1])
                BY <3>1, <4>1, <4>2
            <4> QED BY <3>1, <4>3
        <3> QED BY <2>1, <3>1, <3>2
    <2>6. HeadArmed'
        BY <2>1, <2>3, <2>5 DEF HeadArmed
    <2> QED BY <1>1, <2>1, <2>3, <2>4, <2>6 DEF FiredInCallback
<1>4. CASE state[t] = "FIRED" /\ StopFired(t)
    <2>1. PICK i \in 1 .. Len(fired) : fired[i] = t /\ fired' = RemoveAt(fired, i)
        BY <1>4 DEF StopFired
    <2>2. active' = active /\ time' = time /\ hw' = hw
        BY <1>4 DEF StopFired
    <2>3. /\ fired' \in Seq(Timer) /\ IsInjective(fired')
          /\ ToSet(fired') = ToSet(fired) \ {t} /\ fired # <<>>
        BY <2>1, RemoveKeepsOrder, EmptySeq DEF ListsAgree
    <2>4. ListsAgree'
        BY <1>1, <1>4, <2>2, <2>3 DEF ListsAgree
    <2> QED BY <1>1, <2>2, <2>3, <2>4 DEF HeadArmed, FiredInCallback
<1> QED BY <1>2, <1>3, <1>4 DEF hwtimer_stop

\* What the loop of the handler does with the timers that are due.
LEMMA CallInv ==
    ASSUME NEW due \in Seq(Timer), IsInjective(due), NEW states \in [Timer -> TimerState],
           ToSet(due) = {t \in Timer : states[t] = "FIRED"}, Call(due, states)
    PROVE  /\ state' \in [Timer -> TimerState] /\ fired' \in Seq(Timer) /\ IsInjective(fired')
           /\ ToSet(fired') = {t \in Timer : state'[t] = "FIRED"}
           /\ irq' \in {"idle", "in_callback"} /\ FiredInCallback'
           /\ \A t \in Timer : state'[t] = "ACTIVE" <=> states[t] = "ACTIVE"
           /\ \A t \in Timer : state'[t] \in {"FIRED", "CALLBACK"} =>
                                 states[t] \in {"FIRED", "CALLBACK"}
           /\ irq' # "entered"
<1>1. CASE due = <<>>
    BY <1>1 DEF Call, FiredInCallback
<1>2. CASE due # <<>>
    <2>1. /\ Head(due) \in Timer /\ Head(due) \in ToSet(due)
          /\ Tail(due) \in Seq(Timer) /\ IsInjective(Tail(due))
          /\ ToSet(Tail(due)) = ToSet(due) \ {Head(due)}
        BY <1>2, TailKeepsOrder
    <2>2. /\ state' = [states EXCEPT ![Head(due)] = "CALLBACK"]
          /\ fired' = Tail(due) /\ irq' = "in_callback"
        BY <1>2 DEF Call
    <2> QED BY <2>1, <2>2 DEF FiredInCallback, TimerState
<1> QED BY <1>1, <1>2

\* hwtimer_handler keeps it: the timers that are due change lists.
LEMMA HandlerInv == IInv /\ hwtimer_handler => IInv'
<1> SUFFICES ASSUME IInv, hwtimer_handler PROVE IInv'
    OBVIOUS
<1> USE DEF IInv, Shape
<1> DEFINE n    == Cardinality(Expired)
           due  == SubSeq(active, 1, n)
           rest == SubSeq(active, n + 1, Len(active))
           states == [t \in Timer |-> IF t \in ToSet(due) THEN "FIRED" ELSE state[t]]
<1>1. /\ Call(due, states) /\ active' = rest
      /\ time' = [u \in Timer |-> time'[u]]
      /\ hw' = IF rest = <<>> THEN Off ELSE Start(time'[Head(rest)])
    BY DEF hwtimer_handler
<1>2. Len(active) \in Nat /\ n \in 0 .. Len(active)
    <2>1. Len(active) \in Nat
        OBVIOUS
    <2>2. Expired \in SUBSET (1 .. Len(active)) /\ 1 <= Len(active) + 1
        BY <2>1 DEF Expired
    <2>3. Cardinality(Expired) \in 0 .. Len(active) - 1 + 1
        BY <2>1, <2>2, CountedPositions
    <2> QED BY <2>1, <2>3
<1> HIDE DEF n
<1>3. /\ due \in Seq(Timer) /\ rest \in Seq(Timer)
      /\ IsInjective(due) /\ IsInjective(rest)
      /\ ToSet(rest) = ToSet(active) \ ToSet(due) /\ ToSet(due) \subseteq ToSet(active)
    <2>1. IsInjective(active)
        BY DEF ListsAgree
    <2>2. Parts(active, due, rest, Timer)
        BY <1>2, <2>1, SplitKeepsOrder
    <2> HIDE DEF due, rest
    <2> QED BY <2>2 DEF Parts
<1> HIDE DEF due, rest
<1>4. \A t \in Timer : state[t] # "FIRED"
    <2>1. irq = "entered"
        BY DEF hwtimer_handler
    <2>2. fired = <<>>
        BY <2>1 DEF FiredInCallback
    <2> QED BY <2>2, EmptySeq DEF ListsAgree, ToSet
<1>5. states \in [Timer -> TimerState] /\ ToSet(due) = {t \in Timer : states[t] = "FIRED"}
    BY <1>3, <1>4 DEF TimerState, ListsAgree
<1>6. \A t \in Timer : states[t] = "ACTIVE" <=> t \in ToSet(rest)
    BY <1>3 DEF ListsAgree
<1> HIDE DEF states
<1>7. /\ state' \in [Timer -> TimerState] /\ fired' \in Seq(Timer) /\ IsInjective(fired')
      /\ ToSet(fired') = {t \in Timer : state'[t] = "FIRED"}
      /\ irq' \in {"idle", "in_callback"} /\ FiredInCallback'
      /\ \A t \in Timer : state'[t] = "ACTIVE" <=> states[t] = "ACTIVE"
    BY <1>1, <1>3, <1>5, CallInv
<1>8. ListsAgree'
    <2>1. ToSet(rest) \subseteq Timer
        BY <1>3 DEF ListsAgree
    <2> QED BY <1>1, <1>3, <1>6, <1>7, <2>1 DEF ListsAgree
<1>9. HeadArmed'
    BY <1>1, HwRecords DEF HeadArmed
<1>10. IsHw(hw')
    BY <1>1, HwRecords
<1> QED BY <1>1, <1>3, <1>7, <1>8, <1>9, <1>10

\* The return of a callback keeps it, whatever was started or stopped meanwhile.
LEMMA ReturnInv == IInv /\ CallbackReturns => IInv'
<1> SUFFICES ASSUME IInv, CallbackReturns PROVE IInv'
    OBVIOUS
<1> USE DEF IInv, Shape
<1> DEFINE states == [t \in Timer |-> IF state[t] = "CALLBACK" THEN "ALLOC" ELSE state[t]]
<1>1. Call(fired, states) /\ active' = active /\ time' = time /\ hw' = hw
    BY DEF CallbackReturns
<1>2. states \in [Timer -> TimerState] /\ ToSet(fired) = {t \in Timer : states[t] = "FIRED"}
    BY DEF TimerState, ListsAgree
<1>3. \A t \in Timer : states[t] = "ACTIVE" <=> state[t] = "ACTIVE"
    OBVIOUS
<1> HIDE DEF states
<1>4. /\ state' \in [Timer -> TimerState] /\ fired' \in Seq(Timer) /\ IsInjective(fired')
      /\ ToSet(fired') = {t \in Timer : state'[t] = "FIRED"}
      /\ irq' \in {"idle", "in_callback"} /\ FiredInCallback'
      /\ \A t \in Timer : state'[t] = "ACTIVE" <=> states[t] = "ACTIVE"
    BY <1>1, <1>2, CallInv DEF ListsAgree
<1>5. ListsAgree' /\ HeadArmed'
    BY <1>1, <1>3, <1>4 DEF ListsAgree, HeadArmed
<1> QED BY <1>1, <1>4, <1>5

\* Every step keeps the invariant.
LEMMA NextInv == IInv /\ [Next]_vars => IInv'
<1> SUFFICES ASSUME IInv, [Next]_vars PROVE IInv'
    OBVIOUS
<1>1. ASSUME NEW t \in Timer, hwtimer_alloc(t) \/ hwtimer_free(t) PROVE IInv'
    BY <1>1 DEF IInv, Shape, ListsAgree, HeadArmed, FiredInCallback, hwtimer_alloc, hwtimer_free,
                TimerState
<1>2. ASSUME NEW t \in Timer, NEW ticks \in Ticks, hwtimer_start(t, ticks) PROVE IInv'
    BY <1>2, StartInv
<1>3. ASSUME NEW t \in Timer, hwtimer_stop(t) PROVE IInv'
    BY <1>3, StopInv
<1>4. CASE hwtimer_handler
    BY <1>4, HandlerInv
<1>5. CASE CallbackReturns
    BY <1>5, ReturnInv
<1>6. CASE hal_timer_irq_handler \/ IgnoreIrq \/ Tick
    <2>1. /\ state' = state /\ time' = time /\ active' = active /\ fired' = fired
          /\ hw'.on = hw.on /\ hw'.load = hw.load
          /\ IsHw(hw')
        BY <1>6 DEF IInv, Shape, IsHw, hal_timer_irq_handler, IgnoreIrq, Tick
    <2>2. /\ irq' \in {"idle", "entered", "in_callback"}
          /\ irq = "in_callback" => irq' = "in_callback"
        BY <1>6 DEF IInv, Shape, hal_timer_irq_handler, IgnoreIrq, Tick
    <2> QED BY <2>1, <2>2 DEF IInv, Shape, ListsAgree, HeadArmed, FiredInCallback
<1>7. ASSUME UNCHANGED vars PROVE IInv'
    BY <1>7 DEF vars, IInv, Shape, ListsAgree, HeadArmed, FiredInCallback
<1>8. ASSUME NEW t \in Timer, Refused(t) PROVE IInv'
    BY <1>8, <1>7 DEF Refused
<1> QED BY <1>1, <1>2, <1>3, <1>4, <1>5, <1>6, <1>7, <1>8 DEF Next

\* The invariant holds in every state.
THEOREM Invariance == Spec => []IInv
<1> QED BY InitInv, NextInv, PTL DEF Spec

\* Whoever starts, stops or preempts: a timer is in the list that its state
\* names, once, and in no other.
THEOREM ListsAlwaysAgree == Spec => []ListsAgree
<1>1. IInv => ListsAgree
    BY DEF IInv
<1> QED BY <1>1, Invariance, PTL

\* The hardware timer runs exactly while a timer is active, for the head of the
\* list: no active timer is forgotten.
THEOREM HeadAlwaysArmed == Spec => []HeadArmed
<1>1. IInv => HeadArmed
    BY DEF IInv
<1> QED BY <1>1, Invariance, PTL

-----------------------------------------------------------------------------
(***************************************************************************)
(* The times.  HAL_TIMER_LOAD_DELTA is 1.                                  *)
(***************************************************************************)

\* The ticks that the stops may have cost.
Delay == stops * (LATENCY + 2)

\* The interrupt is served in time and is only taken after the expiry; a handler
\* whose interrupt the hardware does not know of any more lost it to a stop.
Served ==
    /\ hw.on => hw.elapsed <= Expiry + LATENCY
    /\ hw.taken => hw.on /\ hw.elapsed >= Expiry
    /\ irq = "entered" /\ ~hw.taken => stops >= 1

\* The stops that may have made a timer early: the one that lost the interrupt
\* of a handler under way has not done so yet.
Hurried == IF irq = "entered" /\ ~hw.taken THEN stops - 1 ELSE stops

\* By how much an active timer may be early and late, as things stand, if the
\* hardware timer is right about the expiry of the head.
Lead == hw.load - hw.elapsed + Hurried
Lag == Larger(hw.load, 1) - hw.elapsed - Delay

NotEarlyYet ==
    \A i \in 1 .. Len(active) :
        left[active[i]] <= Behind(i) + overdue[active[i]] + Lead

NotLateYet ==
    \A i \in 1 .. Len(active) : Behind(i) + Lag <= left[active[i]]

TInv == TypeOK /\ Served /\ NotEarlyYet /\ NotLateYet /\ NeverEarly

-----------------------------------------------------------------------------
(***************************************************************************)
(* Sums of times along a list.                                             *)
(***************************************************************************)

\* A set of numbers that is not empty has a least element.
LEMMA LeastElement ==
    ASSUME NEW T, \A n \in T : n \in Nat, NEW n \in T
    PROVE  \E m \in T : \A k \in T : m <= k
<1> DEFINE R == OpToRel(<, Nat)
<1>1. IsWellFoundedOn(R, Nat)
    BY NatLessThanWellFounded
<1>2. \A x, y \in Nat : x < y => <<x, y>> \in R
    BY DEF OpToRel
<1> HIDE DEF R
<1>3. T \subseteq Nat /\ T # {}
    OBVIOUS
<1>4. PICK x \in T : \A y \in T : ~ (<<y, x>> \in R)
    BY <1>1, <1>3, WFMin
<1>5. ASSUME NEW k \in T PROVE x <= k
    <2>1. x \in Nat /\ k \in Nat
        BY <1>3
    <2>2. ~ (k < x)
        BY <1>2, <1>4, <2>1
    <2> QED BY <2>1, <2>2
<1> QED BY <1>5

\* The times from the second element of s on, up to the one at position i, added
\* up: those of the active list are Behind.
Sum(s, w, i) ==
    LET sum[k \in 0 .. Len(s)] == IF k <= 1 THEN 0 ELSE sum[k - 1] + w[s[k]]
    IN  sum[i]

\* There is a function that adds up the first n.
LEMMA SumDefined ==
    ASSUME NEW S, NEW s \in Seq(S), NEW w \in [S -> Nat]
    PROVE  \E f \in [0 .. Len(s) -> Nat] :
              f = [k \in 0 .. Len(s) |-> IF k <= 1 THEN 0 ELSE f[k - 1] + w[s[k]]]
<1>1. Len(s) \in Nat /\ \A k \in 1 .. Len(s) : w[s[k]] \in Nat
    <2>1. Len(s) \in Nat /\ \A k \in 1 .. Len(s) : s[k] \in S
        BY Elements
    <2> QED BY <2>1
<1> DEFINE Fits(f, n) == f \in [0 .. n -> Nat]
                     /\ \A k \in 0 .. n : f[k] = IF k <= 1 THEN 0 ELSE f[k - 1] + w[s[k]]
           Missing == {n \in 0 .. Len(s) : ~ \E f : Fits(f, n)}
<1>10. /\ \A n : n \in Missing <=> n \in 0 .. Len(s) /\ ~ \E f : Fits(f, n)
      /\ \A n \in Missing : n \in Nat
    BY <1>1
<1> HIDE DEF Missing
<1>2. Missing = {}
    <2> SUFFICES ASSUME NEW x \in Missing PROVE FALSE
        OBVIOUS
    <2>1. PICK n \in Missing : \A k \in Missing : n <= k
        BY LeastElement, <1>10
    <2>2. n \in 0 .. Len(s) /\ ~ \E f : Fits(f, n)
        BY <1>10, <2>1
    <2>3. CASE n = 0
        <3>1. Fits([k \in 0 .. 0 |-> 0], 0)
            OBVIOUS
        <3> QED BY <3>1, <2>2, <2>3
    <2>4. CASE n > 0
        <3>1. n - 1 \in 0 .. Len(s) /\ n - 1 < n /\ n \in 1 .. Len(s)
            BY <2>2, <2>4, <1>1
        <3>2. n - 1 \notin Missing
            BY <3>1, <2>1, <2>2, <1>1
        <3>3. PICK f : Fits(f, n - 1)
            BY <3>1, <3>2, <1>10
        <3> DEFINE next == IF n <= 1 THEN 0 ELSE f[n - 1] + w[s[n]]
                   g == [k \in 0 .. n |-> IF k < n THEN f[k] ELSE next]
        <3>4. w[s[n]] \in Nat /\ \A k \in 0 .. n - 1 : f[k] \in Nat
            BY <3>1, <3>3, <1>1
        <3>5. next \in Nat
            BY <3>1, <3>4
        <3>6. g \in [0 .. n -> Nat]
            BY <3>1, <3>4, <3>5
        <3>7. ASSUME NEW k \in 0 .. n PROVE g[k] = IF k <= 1 THEN 0 ELSE g[k - 1] + w[s[k]]
            <4>1. CASE k = n
                <5>1. g[k] = next
                    BY <4>1, <3>1
                <5>2. n > 1 => g[n - 1] = f[n - 1]
                    BY <3>1
                <5> QED BY <4>1, <5>1, <5>2, <3>1
            <4>2. CASE k < n
                <5>1. k \in 0 .. n - 1
                    BY <4>2, <3>1
                <5>2. g[k] = f[k] /\ (k > 1 => g[k - 1] = f[k - 1])
                    BY <5>1, <3>1
                <5>3. f[k] = IF k <= 1 THEN 0 ELSE f[k - 1] + w[s[k]]
                    BY <5>1, <3>3
                <5> QED BY <5>1, <5>2, <5>3
            <4> QED BY <4>1, <4>2, <3>1
        <3>8. Fits(g, n)
            BY <3>6, <3>7
        <3> QED BY <3>8, <2>2
    <2> QED BY <2>2, <2>3, <2>4, <1>1
<1>3. PICK f : Fits(f, Len(s))
    <2>1. Len(s) \in 0 .. Len(s) /\ Len(s) \notin Missing
        BY <1>1, <1>2
    <2> QED BY <2>1, <1>10
<1> QED BY <1>3, <1>1

\* The sums step by step.
LEMMA SumSteps ==
    ASSUME NEW S, NEW s \in Seq(S), NEW w \in [S -> Nat]
    PROVE  /\ \A k \in 0 .. Len(s) : Sum(s, w, k) \in Nat
           /\ \A k \in 0 .. Len(s) :
                 Sum(s, w, k) = IF k <= 1 THEN 0 ELSE Sum(s, w, k - 1) + w[s[k]]
<1> DEFINE F(f) == f = [k \in 0 .. Len(s) |-> IF k <= 1 THEN 0 ELSE f[k - 1] + w[s[k]]]
           g == CHOOSE f : F(f)
<1>1. \A k : Sum(s, w, k) = g[k]
    BY DEF Sum
<1>2. PICK f \in [0 .. Len(s) -> Nat] : F(f)
    BY SumDefined
<1> HIDE DEF F
<1>3. F(g)
    BY <1>2
<1> HIDE DEF g
<1>4. Len(s) \in Nat
    BY Elements
<1>5. \A k \in 0 .. Len(s) : f[k] = IF k <= 1 THEN 0 ELSE f[k - 1] + w[s[k]]
    BY <1>2 DEF F
<1>6. \A k \in 0 .. Len(s) : g[k] = IF k <= 1 THEN 0 ELSE g[k - 1] + w[s[k]]
    BY <1>3 DEF F
<1> DEFINE Unlike == {k \in 0 .. Len(s) : f[k] # g[k]}
<1>11. /\ \A k : k \in Unlike <=> k \in 0 .. Len(s) /\ f[k] # g[k]
      /\ \A k \in Unlike : k \in Nat
    BY <1>4
<1> HIDE DEF Unlike
<1>7. Unlike = {}
    <2> SUFFICES ASSUME NEW x \in Unlike PROVE FALSE
        OBVIOUS
    <2>1. PICK n \in Unlike : \A k \in Unlike : n <= k
        BY LeastElement, <1>11
    <2>2. n \in 0 .. Len(s) /\ f[n] # g[n]
        BY <1>11, <2>1
    <2>3. n > 1
        BY <2>2, <1>5, <1>6
    <2>4. n - 1 \in 0 .. Len(s) /\ n - 1 < n
        BY <2>2, <2>3, <1>4
    <2>5. f[n - 1] = g[n - 1]
        BY <2>1, <2>4, <2>2, <1>11
    <2> QED BY <2>2, <2>3, <2>5, <1>5, <1>6
<1>8. \A k \in 0 .. Len(s) : g[k] \in Nat
    BY <1>2, <1>7, <1>11
<1>9. ASSUME NEW k \in 0 .. Len(s)
      PROVE  Sum(s, w, k) = IF k <= 1 THEN 0 ELSE Sum(s, w, k - 1) + w[s[k]]
    BY <1>1, <1>6
<1> QED BY <1>1, <1>8, <1>9

\* A stretch of two lists with the same times: the sums differ by the same amount
\* all along it.
Differ(s, w, r, v, m, n, d, c) == \A k \in m .. n : Sum(r, v, k + d) = Sum(s, w, k) + c

\* Where two lists have the same times the sums go in step.
LEMMA SumShift ==
    ASSUME NEW S, NEW s \in Seq(S), NEW w \in [S -> Nat],
           NEW r \in Seq(S), NEW v \in [S -> Nat],
           NEW m \in Nat, NEW n \in Nat, n <= Len(s), m >= 1,
           NEW d \in Int, m + d >= 1, n + d <= Len(r),
           \A k \in m + 1 .. n : v[r[k + d]] = w[s[k]],
           NEW c \in Int, Sum(r, v, m + d) = Sum(s, w, m) + c
    PROVE  Differ(s, w, r, v, m, n, d, c)
<1>1. Len(s) \in Nat /\ Len(r) \in Nat
    BY Elements
<1>2. /\ \A k \in m .. n : k \in 0 .. Len(s) /\ k + d \in 0 .. Len(r)
      /\ \A k \in m + 1 .. n : k \in 1 .. Len(s)
    BY <1>1
<1>3. /\ \A k \in 0 .. Len(s) : Sum(s, w, k) \in Nat
      /\ \A k \in 0 .. Len(s) : Sum(s, w, k) = IF k <= 1 THEN 0 ELSE Sum(s, w, k - 1) + w[s[k]]
    BY SumSteps
<1>4. /\ \A k \in 0 .. Len(r) : Sum(r, v, k) \in Nat
      /\ \A k \in 0 .. Len(r) : Sum(r, v, k) = IF k <= 1 THEN 0 ELSE Sum(r, v, k - 1) + v[r[k]]
    BY SumSteps
<1>5. \A k \in 1 .. Len(s) : w[s[k]] \in Nat
    BY Elements
<1> DEFINE Bad == {k \in m .. n : Sum(r, v, k + d) # Sum(s, w, k) + c}
<1>6. /\ \A k : k \in Bad <=> k \in m .. n /\ Sum(r, v, k + d) # Sum(s, w, k) + c
      /\ \A k \in Bad : k \in Nat
    OBVIOUS
<1> HIDE DEF Bad
<1>7. Bad = {}
    <2> SUFFICES ASSUME NEW x \in Bad PROVE FALSE
        OBVIOUS
    <2>1. PICK k \in Bad : \A j \in Bad : k <= j
        BY LeastElement, <1>6
    <2>2. k \in m .. n /\ Sum(r, v, k + d) # Sum(s, w, k) + c
        BY <1>6, <2>1
    <2>3. k > m
        <3>1. k = m => Sum(r, v, k + d) = Sum(s, w, k) + c
            OBVIOUS
        <3> QED BY <2>2, <3>1
    <2>4. k - 1 \in m .. n /\ k - 1 \notin Bad /\ k \in m + 1 .. n
        BY <2>1, <2>2, <2>3
    <2>5. Sum(r, v, (k - 1) + d) = Sum(s, w, k - 1) + c
        BY <2>4, <1>6
    <2>6. Sum(s, w, k) = Sum(s, w, k - 1) + w[s[k]] /\ Sum(s, w, k - 1) \in Nat
        <3>1. k \in 0 .. Len(s) /\ k - 1 \in 0 .. Len(s) /\ k > 1
            BY <1>2, <2>2, <2>3, <2>4
        <3> QED BY <3>1, <1>3
    <2>7. Sum(r, v, k + d) = Sum(r, v, (k - 1) + d) + v[r[k + d]]
        <3>1. k + d \in 0 .. Len(r) /\ k + d > 1 /\ (k + d) - 1 = (k - 1) + d
            BY <1>2, <2>2, <2>3
        <3>2. Sum(r, v, k + d) = Sum(r, v, (k + d) - 1) + v[r[k + d]]
            BY <3>1, <1>4
        <3> QED BY <3>1, <3>2
    <2>8. v[r[k + d]] = w[s[k]] /\ w[s[k]] \in Nat
        BY <2>4, <1>2, <1>5
    <2>9. Sum(r, v, k + d) = (Sum(s, w, k - 1) + c) + w[s[k]]
        BY <2>5, <2>7, <2>8, Zenon
    <2>10. (Sum(s, w, k - 1) + c) + w[s[k]] = (Sum(s, w, k - 1) + w[s[k]]) + c
        BY <2>6, <2>8
    <2> QED BY <2>2, <2>6, <2>9, <2>10, Zenon
<1> QED BY <1>6, <1>7 DEF Differ

\* The sums do not decrease.
LEMMA SumMonotone ==
    ASSUME NEW S, NEW s \in Seq(S), NEW w \in [S -> Nat], NEW i \in 0 .. Len(s)
    PROVE  \A k \in i .. Len(s) : Sum(s, w, i) <= Sum(s, w, k)
<1>1. Len(s) \in Nat /\ \A k \in 1 .. Len(s) : w[s[k]] \in Nat
    BY Elements
<1>2. /\ \A k \in 0 .. Len(s) : Sum(s, w, k) \in Nat
      /\ \A k \in 0 .. Len(s) : Sum(s, w, k) = IF k <= 1 THEN 0 ELSE Sum(s, w, k - 1) + w[s[k]]
    BY SumSteps
<1> DEFINE Bad == {k \in i .. Len(s) : ~ (Sum(s, w, i) <= Sum(s, w, k))}
<1>3. /\ \A k : k \in Bad <=> k \in i .. Len(s) /\ ~ (Sum(s, w, i) <= Sum(s, w, k))
      /\ \A k \in Bad : k \in Nat
    BY <1>1
<1> HIDE DEF Bad
<1>4. Bad = {}
    <2> SUFFICES ASSUME NEW x \in Bad PROVE FALSE
        OBVIOUS
    <2>1. PICK k \in Bad : \A j \in Bad : k <= j
        BY LeastElement, <1>3
    <2>2. k \in i .. Len(s) /\ ~ (Sum(s, w, i) <= Sum(s, w, k))
        BY <1>3, <2>1
    <2>3. k > i
        BY <2>2, <1>1, <1>2
    <2>4. k - 1 \in i .. Len(s) /\ k - 1 \notin Bad /\ k \in 1 .. Len(s) /\ k \in 0 .. Len(s)
          /\ k - 1 \in 0 .. Len(s)
        BY <2>1, <2>2, <2>3, <1>1
    <2>5. Sum(s, w, i) <= Sum(s, w, k - 1)
        BY <2>4, <1>3
    <2>6. Sum(s, w, k) = IF k <= 1 THEN 0 ELSE Sum(s, w, k - 1) + w[s[k]]
        BY <2>4, <1>2
    <2>7. k <= 1 => Sum(s, w, i) = 0
        BY <2>3, <2>4, <1>2
    <2>8. Sum(s, w, i) \in Nat /\ Sum(s, w, k - 1) \in Nat /\ w[s[k]] \in Nat
        BY <2>4, <1>1, <1>2
    <2> QED BY <2>2, <2>5, <2>6, <2>7, <2>8
<1> QED BY <1>3, <1>4

\* Positions that reach down to the first one are the first ones.
LEMMA FirstOnes ==
    ASSUME NEW a \in Nat, NEW b \in Nat, a <= b + 1, NEW P, P \subseteq a .. b,
           \A x \in P : \A y \in a .. x : y \in P
    PROVE  /\ Cardinality(P) \in 0 .. b - a + 1
           /\ \A y \in a .. b : y \in P <=> y < a + Cardinality(P)
<1> DEFINE Rest == {y \in a .. b + 1 : y \notin P}
<1>1. /\ \A y : y \in Rest <=> y \in a .. b + 1 /\ y \notin P
      /\ \A y \in Rest : y \in Nat
    OBVIOUS
<1> HIDE DEF Rest
<1>2. b + 1 \in Rest
    BY <1>1
<1>3. PICK m \in Rest : \A k \in Rest : m <= k
    BY <1>1, <1>2, LeastElement
<1>4. m \in a .. b + 1 /\ m \notin P
    BY <1>1, <1>3
<1>5. \A y \in a .. b : y \in P <=> y < m
    <2>1. ASSUME NEW y \in a .. b, y < m PROVE y \in P
        BY <2>1, <1>1, <1>3, <1>4
    <2>2. ASSUME NEW y \in a .. b, y \in P, y >= m PROVE FALSE
        <3>1. m \in a .. y
            BY <2>2, <1>4
        <3> QED BY <3>1, <2>2, <1>4
    <2> QED BY <2>1, <2>2, <1>4
<1>6. P = a .. m - 1
    <2>1. \A y : y \in P => y \in a .. b /\ y < m
        BY <1>5
    <2>2. \A y : y \in a .. m - 1 => y \in P
        BY <1>4, <1>5
    <2>3. \A y : y \in P => y \in a .. m - 1
        BY <1>4, <2>1
    <2> QED BY <2>2, <2>3
<1>7. Cardinality(P) = m - a
    <2>1. m - 1 \in Int /\ a \in Int
        BY <1>4
    <2>2. Cardinality(a .. m - 1) = IF a > m - 1 THEN 0 ELSE (m - 1) - a + 1
        BY <2>1, FS_Interval
    <2>3. (IF a > m - 1 THEN 0 ELSE (m - 1) - a + 1) = m - a
        BY <1>4
    <2> QED BY <2>2, <2>3, <1>6
<1> QED BY <1>4, <1>5, <1>7

-----------------------------------------------------------------------------
(***************************************************************************)
(* What the types and the promises mean.                                   *)
(***************************************************************************)

\* What TypeOK says, in the form the arithmetic needs: every time and sum is a
\* number, step by step.
LEMMA TypeFacts ==
    ASSUME TypeOK
    PROVE  /\ \A i : Behind(i) = Sum(active, time, i)
           /\ Len(active) \in Nat
           /\ \A i \in 1 .. Len(active) : active[i] \in Timer /\ time[active[i]] \in Nat
           /\ \A i \in 0 .. Len(active) : Behind(i) \in Nat
           /\ \A i \in 0 .. Len(active) :
                 Behind(i) = IF i <= 1 THEN 0 ELSE Behind(i - 1) + time[active[i]]
           /\ \A i, k \in 0 .. Len(active) : i <= k => Behind(i) <= Behind(k)
           /\ hw.on \in BOOLEAN /\ hw.load \in Nat /\ hw.elapsed \in Nat /\ hw.taken \in BOOLEAN
           /\ stops \in Nat /\ Delay \in Nat
<1>1. active \in Seq(Timer) /\ time \in [Timer -> Nat]
    BY DEF TypeOK
<1>2. \A i : Behind(i) = Sum(active, time, i)
    BY DEF Behind, Sum
<1>3. Len(active) \in Nat /\ \A i \in 1 .. Len(active) : active[i] \in Timer
    BY <1>1, Elements
<1>4. \A i \in 1 .. Len(active) : time[active[i]] \in Nat
    BY <1>1, <1>3
<1>5. /\ \A i \in 0 .. Len(active) : Behind(i) \in Nat
      /\ \A i \in 0 .. Len(active) :
                 Behind(i) = IF i <= 1 THEN 0 ELSE Behind(i - 1) + time[active[i]]
    BY <1>1, <1>2, SumSteps
<1>6. \A i, k \in 0 .. Len(active) : i <= k => Behind(i) <= Behind(k)
    <2>1. ASSUME NEW i \in 0 .. Len(active), NEW k \in 0 .. Len(active), i <= k
          PROVE  Behind(i) <= Behind(k)
        <3>1. \A j \in i .. Len(active) : Sum(active, time, i) <= Sum(active, time, j)
            BY <1>1, SumMonotone
        <3>2. k \in i .. Len(active)
            BY <1>3, <2>1
        <3> QED BY <3>1, <3>2, <1>2
    <2> QED BY <2>1
<1>7. hw.on \in BOOLEAN /\ hw.load \in Nat /\ hw.elapsed \in Nat /\ hw.taken \in BOOLEAN
    BY DEF TypeOK
<1>8. stops \in Nat
    BY BoundAssumption DEF TypeOK
<1>9. Delay \in Nat
    BY <1>8, BoundAssumption DEF Delay
<1> QED BY <1>2, <1>3, <1>4, <1>5, <1>6, <1>7, <1>8, <1>9

\* The registers of the hardware timer: what Raw says is left.
LEMMA RawFacts ==
    ASSUME hw.load \in Nat, hw.elapsed \in Nat
    PROVE  /\ Expiry = Larger(hw.load, 2)
           /\ Larger(hw.load, 1) \in Nat /\ Larger(hw.load, 1) >= hw.load /\ Larger(hw.load, 1) >= 1
           /\ Expiry >= Larger(hw.load, 1) /\ Expiry <= Larger(hw.load, 1) + 1
           /\ Raw \in Nat /\ Raw <= Larger(hw.load, 1)
           /\ hw.elapsed >= Expiry => Raw = 0
           /\ hw.elapsed < Expiry => Raw >= 1
           /\ Raw >= Larger(hw.load, 1) - hw.elapsed
           /\ Raw > 0 => Raw <= Larger(hw.load, 1) - hw.elapsed + 1
           /\ Raw > 1 => Raw <= Larger(hw.load, 1) - hw.elapsed
<1>1. Expiry = IF hw.load > 1 THEN hw.load ELSE 2
    BY DEF Expiry, Register, HAL_TIMER_LOAD_DELTA
<1>2. Larger(hw.load, 1) = IF hw.load > 1 THEN hw.load ELSE 1
    BY DEF Larger
<1>3. Larger(hw.load, 2) = IF hw.load > 2 THEN hw.load ELSE 2
    BY DEF Larger
<1>4. Raw = IF hw.elapsed >= Expiry THEN 0
            ELSE IF Larger(hw.load, 1) < Expiry - hw.elapsed THEN Larger(hw.load, 1)
                 ELSE Expiry - hw.elapsed
    BY DEF Raw, Smaller, HAL_TIMER_LOAD_DELTA
<1> QED BY <1>1, <1>2, <1>3, <1>4

\* The head: the ticks it has missed.
LEMMA MissedFacts ==
    ASSUME TypeOK, HeadArmed, active # <<>>
    PROVE  /\ Len(active) >= 1 /\ Head(active) = active[1] /\ time[active[1]] = hw.load
           /\ hw.on = TRUE
           /\ Missed = IF hw.elapsed > hw.load THEN hw.elapsed - hw.load ELSE 0
           /\ Missed \in Nat
<1>1. Len(active) >= 1 /\ Head(active) = active[1] /\ hw.load \in Nat /\ hw.elapsed \in Nat
    BY TypeFacts, EmptySeq DEF TypeOK
<1>2. time[active[1]] = hw.load /\ hw.on = TRUE
    BY <1>1, TypeFacts DEF HeadArmed
<1> QED BY <1>1, <1>2 DEF Missed, Larger

\* The cost of the stops is a number.
LEMMA Products ==
    \A m, n \in Nat : m * (n + 2) \in Nat /\ (m + 1) * (n + 2) = m * (n + 2) + (n + 2)
<1> QED OBVIOUS

\* So are the ticks that a timer may be early and late.
LEMMA NumberTypes ==
    ASSUME TypeOK
    PROVE  Hurried \in Int /\ Delay \in Nat /\ Lead \in Int /\ Lag \in Int
<1>1. hw.load \in Nat /\ hw.elapsed \in Nat /\ stops \in Nat
    BY TypeFacts
<1>2. Hurried \in Int
    BY <1>1 DEF Hurried
<1>3. Delay \in Nat
    BY TypeFacts
<1>4. Larger(hw.load, 1) \in Nat
    BY <1>1 DEF Larger
<1> QED BY <1>1, <1>2, <1>3, <1>4 DEF Lead, Lag

\* And those of the next state.
LEMMA NextNumberTypes ==
    ASSUME TypeOK'
    PROVE  Hurried' \in Int /\ Delay' \in Nat /\ Lead' \in Int /\ Lag' \in Int
<1>1. hw'.load \in Nat /\ hw'.elapsed \in Nat /\ stops' \in Nat
    BY BoundAssumption DEF TypeOK
<1>2. Hurried' \in Int
    BY <1>1 DEF Hurried
<1>3. Delay' \in Nat
    <2>1. stops' * (LATENCY + 2) \in Nat
        BY <1>1, BoundAssumption, Products
    <2> QED BY <2>1 DEF Delay
<1>4. Larger(hw.load, 1)' \in Nat
    BY <1>1 DEF Larger
<1>5. Lead' \in Int
    BY <1>1, <1>2 DEF Lead
<1>6. Lag' \in Int
    BY <1>1, <1>3, <1>4 DEF Lag
<1> QED BY <1>2, <1>3, <1>5, <1>6

\* A timer that stays in the list, from position i to j, keeps its promises when
\* the ticks until its expiry change by what the hardware accounts for.
Carried(i, j, c) ==
    /\ active'[j] = active[i]
    /\ left'[active[i]] = left[active[i]] /\ overdue'[active[i]] = overdue[active[i]]
    /\ Sum(active', time', j) = Behind(i) + c
    /\ c + Lead' >= Lead
    /\ c + Lag' <= Lag

\* A timer that is new in the list has them.
Fresh(j) ==
    /\ left'[active'[j]] <= Sum(active', time', j) + overdue'[active'[j]] + Lead'
    /\ Sum(active', time', j) + Lag' <= left'[active'[j]]

\* The promises hold in the next state if every timer of its list has kept them
\* or has them new.
LEMMA Promises ==
    ASSUME TypeOK, TypeOK', NotEarlyYet, NotLateYet,
           \A j \in 1 .. Len(active') :
              Fresh(j) \/ \E i \in 1 .. Len(active) : \E c \in Int : Carried(i, j, c)
    PROVE  NotEarlyYet' /\ NotLateYet'
<1>1. ASSUME NEW j \in 1 .. Len(active')
      PROVE  Fresh(j)
    <2>1. CASE \E i \in 1 .. Len(active) : \E c \in Int : Carried(i, j, c)
        <3>1. PICK i \in 1 .. Len(active), c \in Int : Carried(i, j, c)
            BY <2>1
        <3>2. /\ left[active[i]] <= Behind(i) + overdue[active[i]] + Lead
              /\ Behind(i) + Lag <= left[active[i]]
            BY DEF NotEarlyYet, NotLateYet
        <3>3. /\ left[active[i]] \in Int /\ overdue[active[i]] \in Nat /\ Behind(i) \in Nat
            <4>1. active[i] \in Timer /\ i \in 0 .. Len(active)
                BY TypeFacts
            <4>2. left[active[i]] \in Int /\ overdue[active[i]] \in Nat
                BY <4>1 DEF TypeOK
            <4> QED BY <4>1, <4>2, TypeFacts
        <3>4. Lead \in Int /\ Lag \in Int /\ Lead' \in Int /\ Lag' \in Int
            BY NumberTypes, NextNumberTypes
        <3>5. PICK lead \in Int, lag \in Int : lead = Lead' /\ lag = Lag'
            BY <3>4
        <3>6. c + lead >= Lead /\ c + lag <= Lag
            BY <3>1, <3>5, Zenon DEF Carried
        <3>7. /\ left[active[i]] <= (Behind(i) + c) + overdue[active[i]] + lead
              /\ (Behind(i) + c) + lag <= left[active[i]]
            <4>1. PICK l \in Int, b \in Int, o \in Int :
                     l = left[active[i]] /\ b = Behind(i) /\ o = overdue[active[i]]
                BY <3>3
            <4>2. PICK lead0 \in Int, lag0 \in Int : lead0 = Lead /\ lag0 = Lag
                BY <3>4
            <4>3. l <= b + o + lead0 /\ b + lag0 <= l /\ c + lead >= lead0 /\ c + lag <= lag0
                BY <3>2, <3>6, <4>1, <4>2, Zenon
            <4>4. l <= (b + c) + o + lead /\ (b + c) + lag <= l
                BY <4>3
            <4> QED BY <4>1, <4>4, Zenon
        <3> QED BY <3>1, <3>5, <3>7, Zenon DEF Carried, Fresh
    <2> QED BY <2>1
<1>2. \A i : Behind(i)' = Sum(active', time', i)
    BY DEF Behind, Sum
<1>3. NotEarlyYet'
    BY <1>1, <1>2 DEF NotEarlyYet, Fresh
<1>4. NotLateYet'
    BY <1>1, <1>2 DEF NotLateYet, Fresh
<1> QED BY <1>3, <1>4

\* The sums of the next state.
LEMMA NextSums ==
    ASSUME active' \in Seq(Timer), time' \in [Timer -> Nat]
    PROVE  /\ Len(active') \in Nat
           /\ \A k \in 0 .. Len(active') : Sum(active', time', k) \in Nat
           /\ \A k \in 0 .. Len(active') : k <= 1 => Sum(active', time', k) = 0
           /\ \A k \in 2 .. Len(active') :
                 Sum(active', time', k) = Sum(active', time', k - 1) + time'[active'[k]]
<1>1. Len(active') \in Nat
    BY Elements
<1>2. /\ \A k \in 0 .. Len(active') : Sum(active', time', k) \in Nat
      /\ \A k \in 0 .. Len(active') :
           Sum(active', time', k) = IF k <= 1 THEN 0 ELSE Sum(active', time', k - 1) + time'[active'[k]]
    BY SumSteps
<1>3. \A k \in 2 .. Len(active') : k \in 0 .. Len(active') /\ ~ (k <= 1)
    BY <1>1
<1> QED BY <1>1, <1>2, <1>3

\* The timers from position m to n keep their times while they move by d.
Shifted(m, n, d, c) ==
    \A k \in m .. n : Sum(active', time', k + d) = Behind(k) + c

\* A stretch of the list keeps its times, and its sums move together.
LEMMA Shift ==
    ASSUME TypeOK, active' \in Seq(Timer), time' \in [Timer -> Nat],
           NEW m \in Nat, NEW n \in Nat, m >= 1, n <= Len(active),
           NEW d \in Int, m + d >= 1, n + d <= Len(active'),
           \A k \in m + 1 .. n : time'[active'[k + d]] = time[active[k]],
           NEW c \in Int, Sum(active', time', m + d) = Behind(m) + c
    PROVE  Shifted(m, n, d, c)
<1>1. active \in Seq(Timer) /\ time \in [Timer -> Nat]
    BY DEF TypeOK
<1>2. \A k : Behind(k) = Sum(active, time, k)
    BY TypeFacts
<1>3. Sum(active', time', m + d) = Sum(active, time, m) + c
    BY <1>2
<1>4. Differ(active, time, active', time', m, n, d, c)
    BY <1>1, <1>3, SumShift
<1> QED BY <1>2, <1>4 DEF Shifted, Differ

-----------------------------------------------------------------------------
(***************************************************************************)
(* A start.                                                                *)
(***************************************************************************)

\* The timers of the active list, once each.
LEMMA ActiveTimers ==
    ASSUME TypeOK, ListsAgree
    PROVE  /\ \A j, k \in 1 .. Len(active) : active[j] = active[k] => j = k
           /\ \A i \in 1 .. Len(active) : active[i] \in Timer /\ state[active[i]] = "ACTIVE"
           /\ \A t \in Timer : state[t] = "ACTIVE" => \E i \in 1 .. Len(active) : active[i] = t
<1>1. active \in Seq(Timer)
    BY DEF TypeOK
<1>2. ByElements(active) /\ \A i \in 1 .. Len(active) : active[i] \in Timer
    BY <1>1, Elements
<1> QED BY <1>2 DEF ByElements, ListsAgree

\* A handler without an interrupt of its own is one that a stop has hurried.
LEMMA HurriedFacts ==
    ASSUME TypeOK, Served
    PROVE  Hurried \in Nat /\ Hurried <= stops
<1>1. stops \in Nat
    BY TypeFacts
<1> QED BY <1>1 DEF Hurried, Served

\* What a start changes outside the list.
LEMMA StartKeeps ==
    ASSUME TypeOK, NEW t \in Timer, NEW ticks \in Ticks, hwtimer_start(t, ticks)
    PROVE  /\ ticks \in Nat /\ ticks >= 1
           /\ state[t] # "ACTIVE" /\ state' = [state EXCEPT ![t] = "ACTIVE"]
           /\ left'[t] = ticks /\ \A u \in Timer : u # t => left'[u] = left[u]
           /\ overdue'[t] = (IF active = <<>> THEN 0 ELSE
                     Larger(0, hw.elapsed + Raw - time[Head(active)]))
           /\ \A u \in Timer : u # t => overdue'[u] = overdue[u]
           /\ left' \in [Timer -> Int] /\ overdue' \in [Timer -> Nat]
           /\ fired' = fired /\ irq' = irq /\ stops' = stops /\ Delay' = Delay
<1>1. ticks \in Nat /\ ticks >= 1
    BY TicksAssumption DEF HAL_TIMER_LOAD_DELTA
<1>2. hw.load \in Nat /\ hw.elapsed \in Nat
    BY DEF TypeOK
<1>3. Raw \in Nat
    BY <1>2, RawFacts
<1>4. ASSUME active # <<>> PROVE time[Head(active)] \in Nat
    <2>1. Head(active) \in Timer
        BY <1>4, EmptySeq DEF TypeOK
    <2> QED BY <2>1 DEF TypeOK
<1>5. (IF active = <<>> THEN 0 ELSE Larger(0, hw.elapsed + Raw - time[Head(active)])) \in Nat
    BY <1>2, <1>3, <1>4 DEF Larger
<1>6. Delay' = Delay
    BY DEF hwtimer_start, Delay
<1> QED BY <1>1, <1>5, <1>6 DEF hwtimer_start, TypeOK

\* The hardware timer starts anew: it is right about its head.
LEMMA Restarted ==
    ASSUME NEW load \in Nat, hw' = Start(load), stops' \in Nat,
           irq' = "entered" => stops' >= 1
    PROVE  /\ Served' /\ hw'.load = load /\ hw'.elapsed = 0
           /\ Hurried' = (IF irq' = "entered" THEN stops' - 1 ELSE stops')
           /\ Hurried' \in Nat /\ Hurried' <= stops'
           /\ Lead' = load + Hurried'
           /\ Lag' = Larger(load, 1) - Delay'
<1>1. hw' = [on |-> TRUE, load |-> load, elapsed |-> 0, taken |-> FALSE]
    BY DEF Start
<1>2. Hurried' = (IF irq' = "entered" THEN stops' - 1 ELSE stops')
    BY <1>1 DEF Hurried
<1>3. Expiry' \in Nat
    BY <1>1 DEF Expiry, Register, HAL_TIMER_LOAD_DELTA
<1>4. Served'
    <2>1. hw'.elapsed = 0 /\ ~ hw'.taken
        BY <1>1
    <2>2. 0 <= Expiry' + LATENCY
        <3>1. PICK x \in Nat : x = Expiry'
            BY <1>3
        <3>2. 0 <= x + LATENCY
            BY BoundAssumption
        <3> QED BY <3>1, <3>2, Zenon
    <2> QED BY <2>1, <2>2 DEF Served
<1>5. Hurried' \in Nat /\ Hurried' <= stops'
    <2>1. PICK n \in Nat : n = stops'
        OBVIOUS
    <2>2. irq' = "entered" => n >= 1
        BY <2>1, Zenon
    <2>3. (IF irq' = "entered" THEN n - 1 ELSE n) \in Nat
          /\ (IF irq' = "entered" THEN n - 1 ELSE n) <= n
        BY <2>2
    <2> QED BY <1>2, <2>1, <2>3, Zenon
<1>6. hw'.load = load /\ hw'.elapsed = 0
    BY <1>1
<1>7. Lead' = load + Hurried'
    <2>1. Lead' = hw'.load - hw'.elapsed + Hurried'
        BY DEF Lead
    <2> QED BY <1>5, <1>6, <2>1
<1>8. Lag' = Larger(load, 1) - Delay'
    <2>1. Lag' = Larger(hw'.load, 1) - hw'.elapsed - Delay'
        BY DEF Lag
    <2>2. Larger(load, 1) \in Nat
        BY DEF Larger
    <2>3. Lag' = Larger(load, 1) - 0 - Delay'
        BY <1>6, <2>1
    <2>4. Larger(load, 1) - 0 = Larger(load, 1)
        BY <2>2
    <2> QED BY <2>3, <2>4, Zenon
<1> QED BY <1>2, <1>4, <1>5, <1>6, <1>7, <1>8

\* The first timer of the list: the hardware runs for it.
LEMMA StartFirstTimes ==
    ASSUME IInv, TInv, NEW t \in Timer, NEW ticks \in Ticks,
           hwtimer_start(t, ticks), StartFirst(t, ticks)
    PROVE  /\ time' \in [Timer -> Nat] /\ Served'
           /\ \A j \in 1 .. Len(active') : Fresh(j)
<1>1. TypeOK /\ Served /\ HeadArmed
    BY DEF IInv, TInv
<1>2. active' = <<t>> /\ time' = [time EXCEPT ![t] = ticks] /\ hw' = Start(ticks)
    BY DEF StartFirst
<1>3. time' \in [Timer -> Nat] /\ active' \in Seq(Timer)
    BY <1>1, <1>2, StartKeeps DEF TypeOK
<1>4. Sum(active', time', 1) = 0
    <2>1. 1 \in 0 .. Len(active')
        BY <1>2
    <2> QED BY <1>3, <2>1, NextSums
<1>5. /\ stops' = stops /\ stops \in Nat /\ irq' = irq /\ Delay' = Delay /\ Delay \in Nat
      /\ ticks \in Nat /\ ticks >= 1 /\ left'[t] = ticks /\ overdue'[t] \in Nat
    BY <1>1, StartKeeps, TypeFacts
<1>6. irq = "entered" => stops >= 1
    BY <1>1 DEF HeadArmed, StartFirst, Served
<1>7. Served' /\ Hurried' \in Nat /\ Lead' = ticks + Hurried' /\ Lag' = Larger(ticks, 1) - Delay'
    BY <1>2, <1>5, <1>6, Restarted
<1>8. PICK h \in Nat, o \in Nat : h = Hurried' /\ o = overdue'[t]
    BY <1>5, <1>7
<1>9. Larger(ticks, 1) = ticks
    BY <1>5 DEF Larger
<1>10. Lead' = ticks + h /\ Lag' = ticks - Delay
    BY <1>5, <1>7, <1>8, <1>9, Zenon
<1>11. ticks <= 0 + o + (ticks + h) /\ 0 + (ticks - Delay) <= ticks
    BY <1>5
<1>12. \A j \in 1 .. Len(active') : j = 1 /\ active'[j] = t
    BY <1>2
<1> QED BY <1>3, <1>4, <1>5, <1>7, <1>8, <1>10, <1>11, <1>12, Zenon DEF Fresh

\* A timer that expires before the head: the hardware runs for it, and the old
\* head keeps what was left of its time.
LEMMA StartHeadTimes ==
    ASSUME IInv, TInv, NEW t \in Timer, NEW ticks \in Ticks,
           hwtimer_start(t, ticks), StartHead(t, ticks), active' \in Seq(Timer)
    PROVE  /\ time' \in [Timer -> Nat] /\ Served'
           /\ \A j \in 1 .. Len(active') :
                 Fresh(j) \/ \E i \in 1 .. Len(active) : \E c \in Int : Carried(i, j, c)
<1>1. TypeOK /\ Served /\ HeadArmed /\ ListsAgree
    BY DEF IInv, TInv
<1>2. /\ active # <<>> /\ Raw > ticks /\ active' = <<t>> \o active /\ hw' = Start(ticks)
      /\ time' = [time EXCEPT ![Head(active)] = Raw - ticks, ![t] = ticks]
    BY DEF StartHead
<1>3. /\ stops' = stops /\ stops \in Nat /\ irq' = irq /\ Delay' = Delay /\ Delay \in Nat
      /\ ticks \in Nat /\ ticks >= 1 /\ left'[t] = ticks /\ overdue'[t] \in Nat
      /\ \A u \in Timer : u # t => left'[u] = left[u] /\ overdue'[u] = overdue[u]
      /\ Len(active) \in Nat
    BY <1>1, StartKeeps, TypeFacts
<1>4. /\ hw.load \in Nat /\ hw.elapsed \in Nat /\ Larger(hw.load, 1) \in Nat
      /\ Raw \in Nat /\ hw.elapsed < Expiry /\ Larger(hw.load, 1) >= hw.load
      /\ Raw >= Larger(hw.load, 1) - hw.elapsed /\ Raw <= Larger(hw.load, 1) - hw.elapsed
    BY <1>1, <1>2, <1>3, TypeFacts, RawFacts DEF Larger
<1>5. ~ hw.taken
    BY <1>1, <1>4, RawFacts DEF Served
<1>6. irq = "entered" => stops >= 1
    BY <1>1, <1>5 DEF Served
<1>7. /\ Served' /\ Lead' = ticks + Hurried' /\ Lag' = Larger(ticks, 1) - Delay'
      /\ Hurried' = (IF irq = "entered" THEN stops - 1 ELSE stops)
    BY <1>2, <1>3, <1>6, Restarted
<1>8. Hurried = (IF irq = "entered" THEN stops - 1 ELSE stops) /\ Hurried \in Nat
    BY <1>1, <1>3, <1>5, HurriedFacts DEF Hurried
<1>9. Lead' = ticks + Hurried /\ Lag' = ticks - Delay
    <2>1. Larger(ticks, 1) = ticks
        BY <1>3 DEF Larger
    <2> QED BY <1>3, <1>7, <1>8, <2>1, Zenon
<1>10. /\ Len(active) >= 1 /\ Head(active) = active[1]
       /\ \A i \in 1 .. Len(active) : active[i] \in Timer /\ active[i] # t
    BY <1>1, <1>2, MissedFacts, ActiveTimers, StartKeeps
<1>11. time' \in [Timer -> Nat]
    <2>1. Raw - ticks \in Nat
        BY <1>2, <1>3, <1>4
    <2> QED BY <1>1, <1>2, <1>3, <2>1 DEF TypeOK
<1>12. /\ Len(active') = Len(active) + 1 /\ active'[1] = t
       /\ \A k \in 1 .. Len(active) : active'[k + 1] = active[k]
    <2>1. <<t>> \in Seq(Timer) /\ active \in Seq(Timer)
        BY <1>1 DEF TypeOK
    <2>2. Len(<<t>>) = 1 /\ <<t>>[1] = t
        OBVIOUS
    <2> QED BY <1>2, <1>3, <2>1, <2>2, ConcatProperties
<1>13. Shifted(1, Len(active), 1, Raw - ticks)
    <2>1. Sum(active', time', 2) = Raw - ticks
        <3>1. 2 \in 2 .. Len(active') /\ 1 \in 0 .. Len(active') /\ 2 - 1 = 1
            BY <1>3, <1>10, <1>12
        <3>2. time'[active'[2]] = Raw - ticks
            <4>1. active'[1 + 1] = active[1] /\ active[1] \in Timer /\ active[1] # t
                BY <1>10, <1>12, <1>3
            <4>2. time'[active[1]] = Raw - ticks
                BY <1>1, <1>2, <1>10, <4>1 DEF TypeOK
            <4> QED BY <4>1, <4>2
        <3>3. Sum(active', time', 2) = 0 + (Raw - ticks)
            BY <3>1, <3>2, <1>11, NextSums
        <3> QED BY <3>3, <1>3, <1>4
    <2>2. ASSUME NEW k \in 2 .. Len(active) PROVE time'[active'[k + 1]] = time[active[k]]
        <3>1. k \in 1 .. Len(active) /\ k # 1 /\ 1 \in 1 .. Len(active)
            BY <1>3, <1>10
        <3>2. active'[k + 1] = active[k] /\ active[k] \in Timer /\ active[k] # t
              /\ active[k] # active[1]
            BY <3>1, <1>1, <1>10, <1>12, ActiveTimers
        <3> QED BY <3>2, <1>1, <1>2, <1>10 DEF TypeOK
    <2>3. Behind(1) = 0
        BY <1>1, <1>3, <1>10, TypeFacts
    <2>4. Sum(active', time', 1 + 1) = Behind(1) + (Raw - ticks)
        BY <2>1, <2>3, <1>3, <1>4
    <2>5. /\ 1 \in Nat /\ 1 >= 1 /\ Len(active) \in Nat /\ Len(active) <= Len(active)
          /\ 1 \in Int /\ 1 + 1 >= 1 /\ Len(active) + 1 <= Len(active') /\ Raw - ticks \in Int
          /\ \A k \in 1 + 1 .. Len(active) : time'[active'[k + 1]] = time[active[k]]
        BY <2>2, <1>3, <1>4, <1>12
    <2> QED BY <2>4, <2>5, <1>1, <1>11, Shift
<1>14. Fresh(1)
    <2>1. Sum(active', time', 1) = 0
        <3>1. 1 \in 0 .. Len(active')
            BY <1>3, <1>12
        <3> QED BY <3>1, <1>11, NextSums
    <2>2. PICK o \in Nat : o = overdue'[t]
        BY <1>3
    <2>3. ticks <= 0 + o + (ticks + Hurried) /\ 0 + (ticks - Delay) <= ticks
        BY <1>3, <1>8
    <2> QED BY <2>1, <2>2, <2>3, <1>3, <1>9, <1>12, Zenon DEF Fresh
<1>15. ASSUME NEW k \in 1 .. Len(active) PROVE Carried(k, k + 1, Raw - ticks)
    <2>1. /\ active'[k + 1] = active[k] /\ left'[active[k]] = left[active[k]]
          /\ overdue'[active[k]] = overdue[active[k]]
          /\ Sum(active', time', k + 1) = Behind(k) + (Raw - ticks)
        BY <1>3, <1>10, <1>12, <1>13 DEF Shifted
    <2>2. (Raw - ticks) + (ticks + Hurried) >= hw.load - hw.elapsed + Hurried
        BY <1>3, <1>4, <1>8
    <2>3. (Raw - ticks) + (ticks - Delay) <= Larger(hw.load, 1) - hw.elapsed - Delay
        BY <1>3, <1>4
    <2>4. (Raw - ticks) + Lead' >= Lead
        BY <2>2, <1>9, Zenon DEF Lead
    <2>5. (Raw - ticks) + Lag' <= Lag
        BY <2>3, <1>9, Zenon DEF Lag
    <2> QED BY <2>1, <2>4, <2>5 DEF Carried
<1>16. ASSUME NEW j \in 1 .. Len(active')
       PROVE  Fresh(j) \/ \E i \in 1 .. Len(active) : \E c \in Int : Carried(i, j, c)
    <2>1. CASE j = 1
        BY <2>1, <1>14
    <2>2. CASE j # 1
        <3>1. j - 1 \in 1 .. Len(active) /\ (j - 1) + 1 = j /\ Raw - ticks \in Int
            BY <2>2, <1>3, <1>4, <1>12
        <3>2. Carried(j - 1, (j - 1) + 1, Raw - ticks)
            BY <3>1, <1>15
        <3> QED BY <3>1, <3>2
    <2> QED BY <2>1, <2>2
<1> QED BY <1>7, <1>11, <1>16

\* The hardware timer, the handler and the stops stay as they are.
LEMMA SameHardware ==
    ASSUME hw' = hw, irq' = irq, stops' = stops
    PROVE  Lead' = Lead /\ Lag' = Lag /\ (Served => Served')
<1>1. Hurried' = Hurried /\ Delay' = Delay /\ Expiry' = Expiry
    BY DEF Hurried, Delay, Expiry, Register, HAL_TIMER_LOAD_DELTA
<1>2. Lead' = Lead
    BY <1>1 DEF Lead
<1>3. Larger(hw.load, 1)' = Larger(hw.load, 1)
    BY DEF Larger
<1>4. Lag' = Lag
    BY <1>1, <1>3 DEF Lag
<1>5. Served => Served'
    BY <1>1 DEF Served
<1> QED BY <1>2, <1>4, <1>5

\* Where a timer goes that expires wait ticks behind the head.
Passed(wait) == {i \in 2 .. Len(active) : Behind(i) < wait}

\* The timers that are passed over are the first ones.
LEMMA WherePassed ==
    ASSUME TypeOK, active # <<>>, NEW wait \in Nat, NEW pos, pos = Cardinality(Passed(wait)) + 1
    PROVE  /\ pos \in 1 .. Len(active)
           /\ Behind(pos) \in Nat /\ Behind(pos) <= wait
           /\ pos < Len(active) => Behind(pos + 1) \in Nat /\ Behind(pos + 1) >= wait
<1>1. Len(active) \in Nat /\ Len(active) >= 1
    BY TypeFacts, EmptySeq DEF TypeOK
<1>2. /\ \A i : i \in Passed(wait) <=> i \in 2 .. Len(active) /\ Behind(i) < wait
      /\ Passed(wait) \subseteq 2 .. Len(active)
    BY DEF Passed
<1>3. \A i \in 0 .. Len(active) : Behind(i) \in Nat
    BY TypeFacts
<1>4. \A x \in Passed(wait) : \A y \in 2 .. x : y \in Passed(wait)
    <2>1. ASSUME NEW x \in Passed(wait), NEW y \in 2 .. x PROVE y \in Passed(wait)
        <3>1. x \in 2 .. Len(active) /\ y \in 2 .. Len(active) /\ y <= x /\ Behind(x) < wait
              /\ x \in 0 .. Len(active) /\ y \in 0 .. Len(active)
            BY <2>1, <1>1, <1>2
        <3>2. Behind(y) <= Behind(x)
            BY <3>1, TypeFacts
        <3> QED BY <3>1, <3>2, <1>2, <1>3
    <2> QED BY <2>1
<1>5. /\ Cardinality(Passed(wait)) \in 0 .. Len(active) - 2 + 1
      /\ \A y \in 2 .. Len(active) : y \in Passed(wait) <=> y < 2 + Cardinality(Passed(wait))
    <2>1. 2 \in Nat /\ 2 <= Len(active) + 1
        BY <1>1
    <2> QED BY <2>1, <1>1, <1>2, <1>4, FirstOnes
<1>6. pos \in 1 .. Len(active)
    BY <1>1, <1>5
<1>7. Behind(pos) \in Nat /\ Behind(pos) <= wait
    <2>1. CASE pos = 1
        <3>1. Behind(1) = 0
            BY <1>1, TypeFacts
        <3> QED BY <2>1, <3>1
    <2>2. CASE pos > 1
        <3>1. pos \in 2 .. Len(active) /\ pos < 2 + Cardinality(Passed(wait))
              /\ pos \in 0 .. Len(active)
            BY <2>2, <1>1, <1>5, <1>6
        <3> QED BY <3>1, <1>2, <1>3, <1>5
    <2> QED BY <2>1, <2>2, <1>6
<1>8. ASSUME pos < Len(active) PROVE Behind(pos + 1) \in Nat /\ Behind(pos + 1) >= wait
    <2>1. pos + 1 \in 2 .. Len(active) /\ ~ (pos + 1 < 2 + Cardinality(Passed(wait)))
          /\ pos + 1 \in 0 .. Len(active)
        BY <1>1, <1>5, <1>6, <1>8
    <2> QED BY <2>1, <1>2, <1>3, <1>5
<1> QED BY <1>6, <1>7, <1>8

\* A timer that expires with the head or behind it: its successor keeps what is
\* left of its time, and the hardware goes on for the head.
LEMMA StartBehindTimes ==
    ASSUME IInv, TInv, NEW t \in Timer, NEW ticks \in Ticks,
           hwtimer_start(t, ticks), StartBehind(t, ticks), active' \in Seq(Timer)
    PROVE  /\ time' \in [Timer -> Nat] /\ Served'
           /\ \A j \in 1 .. Len(active') :
                 Fresh(j) \/ \E i \in 1 .. Len(active) : \E c \in Int : Carried(i, j, c)
<1>1. TypeOK /\ Served /\ HeadArmed /\ ListsAgree
    BY DEF IInv, TInv
<1> DEFINE wait  == ticks - Raw
           pos   == Cardinality(Passed(wait)) + 1
           delta == wait - Behind(pos)
<1>2. /\ active # <<>> /\ Raw <= ticks /\ hw' = hw
      /\ active' = InsertAt(active, pos + 1, t)
      /\ time' = [u \in Timer |-> IF u = t THEN delta
                                  ELSE IF pos < Len(active) /\ u = active[pos + 1]
                                       THEN time[u] - delta ELSE time[u]]
    BY DEF StartBehind, Passed
<1>3. /\ stops' = stops /\ stops \in Nat /\ irq' = irq /\ Delay' = Delay /\ Delay \in Nat
      /\ ticks \in Nat /\ ticks >= 1 /\ left'[t] = ticks /\ overdue'[t] \in Nat
      /\ \A u \in Timer : u # t => left'[u] = left[u] /\ overdue'[u] = overdue[u]
      /\ Len(active) \in Nat
    BY <1>1, StartKeeps, TypeFacts
<1>4. /\ hw.load \in Nat /\ hw.elapsed \in Nat /\ Larger(hw.load, 1) \in Nat
      /\ Raw \in Nat /\ Larger(hw.load, 1) >= hw.load
      /\ Raw >= Larger(hw.load, 1) - hw.elapsed
    BY <1>1, <1>2, <1>3, TypeFacts, RawFacts
<1>5. Lead' = Lead /\ Lag' = Lag /\ Served'
    BY <1>1, <1>2, <1>3, SameHardware
<1>6. wait \in Nat
    BY <1>2, <1>3, <1>4
<1> HIDE DEF wait
<1>7. /\ pos \in 1 .. Len(active)
      /\ Behind(pos) \in Nat /\ Behind(pos) <= wait
      /\ pos < Len(active) => Behind(pos + 1) \in Nat /\ Behind(pos + 1) >= wait
    BY <1>1, <1>2, <1>6, WherePassed
<1> HIDE DEF pos
<1>8. delta \in Nat /\ Behind(pos) + delta = wait
    BY <1>6, <1>7
<1>9. /\ Len(active) >= 1 /\ Head(active) = active[1] /\ time[active[1]] = hw.load
      /\ \A i \in 1 .. Len(active) : active[i] \in Timer /\ active[i] # t /\ time[active[i]] \in Nat
      /\ \A i, k \in 1 .. Len(active) : active[i] = active[k] => i = k
    <2>1. Len(active) >= 1 /\ Head(active) = active[1] /\ time[active[1]] = hw.load
        BY <1>1, <1>2, MissedFacts
    <2>2. /\ \A i \in 1 .. Len(active) : active[i] \in Timer /\ active[i] # t
          /\ \A i, k \in 1 .. Len(active) : active[i] = active[k] => i = k
        BY <1>1, ActiveTimers, StartKeeps
    <2>3. \A i \in 1 .. Len(active) : time[active[i]] \in Nat
        BY <1>1, TypeFacts
    <2> QED BY <2>1, <2>2, <2>3
<1>10. ASSUME pos < Len(active)
       PROVE  /\ pos + 1 \in 1 .. Len(active)
              /\ Behind(pos + 1) = Behind(pos) + time[active[pos + 1]]
              /\ time[active[pos + 1]] - delta = Behind(pos + 1) - wait
              /\ time[active[pos + 1]] - delta \in Nat
    <2>1. pos + 1 \in 1 .. Len(active) /\ pos + 1 \in 0 .. Len(active) /\ ~ (pos + 1 <= 1)
          /\ (pos + 1) - 1 = pos
        BY <1>3, <1>7, <1>10
    <2>2. Behind(pos + 1) = Behind((pos + 1) - 1) + time[active[pos + 1]]
        BY <2>1, <1>1, TypeFacts
    <2>3. Behind(pos + 1) = Behind(pos) + time[active[pos + 1]] /\ time[active[pos + 1]] \in Nat
        BY <2>1, <2>2, <1>9
    <2> QED BY <2>1, <2>3, <1>6, <1>7, <1>8, <1>10
<1>11. /\ time' \in [Timer -> Nat] /\ time'[t] = delta
       /\ \A i \in 1 .. Len(active) : i # pos + 1 => time'[active[i]] = time[active[i]]
       /\ pos < Len(active) => time'[active[pos + 1]] = time[active[pos + 1]] - delta
    <2>1. ASSUME NEW u \in Timer PROVE time'[u] \in Nat
        <3>1. time[u] \in Nat /\ delta \in Nat
            BY <1>1, <1>8 DEF TypeOK
        <3>2. pos < Len(active) /\ u = active[pos + 1] => time[u] - delta \in Nat
            BY <1>10
        <3> QED BY <3>1, <3>2, <1>2
    <2>2. time' \in [Timer -> Nat]
        BY <2>1, <1>2
    <2>3. ASSUME NEW i \in 1 .. Len(active), i # pos + 1 PROVE time'[active[i]] = time[active[i]]
        <3>1. pos < Len(active) => active[i] # active[pos + 1]
            BY <2>3, <1>9, <1>10
        <3> QED BY <3>1, <1>2, <1>9
    <2>4. pos < Len(active) => time'[active[pos + 1]] = time[active[pos + 1]] - delta
        BY <1>2, <1>9, <1>10
    <2> QED BY <2>2, <2>3, <2>4, <1>2
<1>12. /\ Len(active') = Len(active) + 1
       /\ \A j \in 1 .. Len(active) + 1 : active'[j] = IF j < pos + 1 THEN active[j]
                                 ELSE IF j = pos + 1 THEN t ELSE active[j - 1]
    <2>1. active \in Seq(Timer) /\ IsInjective(active) /\ t \notin ToSet(active)
        BY <1>1, StartKeeps DEF TypeOK, ListsAgree
    <2>2. pos + 1 \in 1 .. Len(active) + 1
        BY <1>3, <1>7
    <2> QED BY <2>1, <2>2, <1>2, InsertKeepsOrder
<1> HIDE DEF delta
<1>13. Shifted(1, pos, 0, 0)
    <2>1. ASSUME NEW k \in 2 .. pos PROVE time'[active'[k + 0]] = time[active[k]]
        <3>1. k \in 1 .. Len(active) /\ k \in 1 .. Len(active) + 1 /\ k # pos + 1 /\ k < pos + 1
              /\ k + 0 = k
            BY <1>3, <1>7
        <3>2. active'[k] = active[k] /\ time'[active[k]] = time[active[k]]
            BY <3>1, <1>11, <1>12
        <3> QED BY <3>1, <3>2
    <2>2. Behind(1) = 0 /\ Sum(active', time', 1 + 0) = 0
        <3>1. 1 \in 0 .. Len(active) /\ 1 \in 0 .. Len(active') /\ 1 + 0 = 1
            BY <1>3, <1>9, <1>12
        <3> QED BY <3>1, <1>1, <1>11, NextSums, TypeFacts
    <2>3. /\ 1 \in Nat /\ 1 >= 1 /\ pos \in Nat /\ pos <= Len(active)
          /\ 0 \in Int /\ 1 + 0 >= 1 /\ pos + 0 <= Len(active')
          /\ \A k \in 1 + 1 .. pos : time'[active'[k + 0]] = time[active[k]]
          /\ Sum(active', time', 1 + 0) = Behind(1) + 0
        BY <2>1, <2>2, <1>3, <1>7, <1>12
    <2> QED BY <2>3, <1>1, <1>11, Shift
<1>14. Sum(active', time', pos + 1) = wait
    <2>1. pos + 1 \in 2 .. Len(active') /\ (pos + 1) - 1 = pos + 0 /\ pos \in 1 .. pos
          /\ pos + 1 \in 1 .. Len(active) + 1 /\ ~ (pos + 1 < pos + 1)
        BY <1>3, <1>7, <1>12
    <2>2. active'[pos + 1] = t
        BY <2>1, <1>12
    <2>3. Sum(active', time', pos + 0) = Behind(pos) + 0
        BY <2>1, <1>13 DEF Shifted
    <2>4. Sum(active', time', pos + 1) = Sum(active', time', (pos + 1) - 1) + time'[active'[pos + 1]]
        BY <2>1, <1>11, NextSums
    <2>5. Sum(active', time', pos + 1) = (Behind(pos) + 0) + delta
        BY <2>1, <2>2, <2>3, <2>4, <1>11, Zenon
    <2> QED BY <2>5, <1>7, <1>8
<1>15. ASSUME pos < Len(active) PROVE Shifted(pos + 1, Len(active), 1, 0)
    <2>1. ASSUME NEW k \in pos + 2 .. Len(active) PROVE time'[active'[k + 1]] = time[active[k]]
        <3>1. k \in 1 .. Len(active) /\ k + 1 \in 1 .. Len(active) + 1 /\ k # pos + 1
              /\ ~ (k + 1 < pos + 1) /\ k + 1 # pos + 1 /\ (k + 1) - 1 = k
            BY <1>3, <1>7
        <3>2. active'[k + 1] = active[k] /\ time'[active[k]] = time[active[k]]
            BY <3>1, <1>11, <1>12
        <3> QED BY <3>2
    <2>2. Sum(active', time', (pos + 1) + 1) = Behind(pos + 1) + 0
        <3>1. (pos + 1) + 1 \in 2 .. Len(active') /\ ((pos + 1) + 1) - 1 = pos + 1
              /\ (pos + 1) + 1 \in 1 .. Len(active) + 1 /\ ~ ((pos + 1) + 1 < pos + 1)
              /\ (pos + 1) + 1 # pos + 1
            BY <1>3, <1>7, <1>12, <1>15
        <3>2. active'[(pos + 1) + 1] = active[pos + 1]
            BY <3>1, <1>12
        <3>3. Sum(active', time', (pos + 1) + 1)
                 = Sum(active', time', ((pos + 1) + 1) - 1) + time'[active'[(pos + 1) + 1]]
            BY <3>1, <1>11, NextSums
        <3>4. Sum(active', time', (pos + 1) + 1) = wait + (Behind(pos + 1) - wait)
            BY <3>1, <3>2, <3>3, <1>10, <1>11, <1>14, <1>15, Zenon
        <3> QED BY <3>4, <1>6, <1>7, <1>15
    <2>3. /\ pos + 1 \in Nat /\ pos + 1 >= 1 /\ Len(active) \in Nat /\ Len(active) <= Len(active)
          /\ 1 \in Int /\ (pos + 1) + 1 >= 1 /\ Len(active) + 1 <= Len(active') /\ 0 \in Int
          /\ \A k \in (pos + 1) + 1 .. Len(active) : time'[active'[k + 1]] = time[active[k]]
        <3>1. (pos + 1) + 1 = pos + 2
            BY <1>7
        <3> QED BY <3>1, <2>1, <1>3, <1>7, <1>12
    <2> QED BY <2>2, <2>3, <1>1, <1>11, Shift
<1>16. Fresh(pos + 1)
    <2>1. active'[pos + 1] = t
        <3>1. pos + 1 \in 1 .. Len(active) + 1 /\ ~ (pos + 1 < pos + 1)
            BY <1>3, <1>7
        <3> QED BY <3>1, <1>12
    <2>2. overdue'[t] = Larger(0, hw.elapsed + Raw - hw.load)
        BY <1>1, <1>2, <1>9, StartKeeps
    <2>3. PICK o \in Nat : o = overdue'[t]
        BY <1>3
    <2>4. o >= hw.elapsed + Raw - hw.load
        BY <2>2, <2>3, <1>4 DEF Larger
    <2>5. Hurried \in Nat
        BY <1>1, HurriedFacts
    <2>6. ticks <= wait + o + Lead
        BY <2>4, <2>5, <1>3, <1>4 DEF Lead, wait
    <2>7. wait + Lag <= ticks
        BY <1>3, <1>4 DEF Lag, wait
    <2> QED BY <2>1, <2>3, <2>6, <2>7, <1>3, <1>5, <1>14, Zenon DEF Fresh
<1>17. ASSUME NEW i \in 1 .. Len(active), NEW j \in 1 .. Len(active'),
              active'[j] = active[i], Sum(active', time', j) = Behind(i) + 0
       PROVE  Carried(i, j, 0)
    <2>1. left'[active[i]] = left[active[i]] /\ overdue'[active[i]] = overdue[active[i]]
        BY <1>3, <1>9
    <2>2. 0 + Lead >= Lead /\ 0 + Lag <= Lag
        BY <1>1, NumberTypes
    <2> QED BY <2>1, <2>2, <1>5, <1>17, Zenon DEF Carried
<1>18. ASSUME NEW j \in 1 .. Len(active')
       PROVE  Fresh(j) \/ \E i \in 1 .. Len(active) : \E c \in Int : Carried(i, j, c)
    <2>1. CASE j = pos + 1
        BY <2>1, <1>16
    <2>2. CASE j < pos + 1
        <3>1. j \in 1 .. Len(active) /\ j \in 1 .. pos /\ j \in 1 .. Len(active) + 1 /\ j + 0 = j
            BY <2>2, <1>3, <1>7, <1>12
        <3>2. active'[j] = active[j] /\ Sum(active', time', j) = Behind(j) + 0
            BY <3>1, <2>2, <1>12, <1>13 DEF Shifted
        <3> QED BY <3>1, <3>2, <1>17
    <2>3. CASE j > pos + 1
        <3>1. /\ pos < Len(active) /\ j - 1 \in pos + 1 .. Len(active) /\ j - 1 \in 1 .. Len(active)
              /\ j \in 1 .. Len(active) + 1 /\ (j - 1) + 1 = j /\ ~ (j < pos + 1) /\ j # pos + 1
            BY <2>3, <1>3, <1>7, <1>12
        <3>2. active'[j] = active[j - 1] /\ Sum(active', time', (j - 1) + 1) = Behind(j - 1) + 0
            BY <3>1, <1>12, <1>15 DEF Shifted
        <3>3. Carried(j - 1, j, 0)
            BY <3>1, <3>2, <1>17
        <3> QED BY <3>1, <3>3
    <2> QED BY <2>1, <2>2, <2>3, <1>7, <1>12
<1> QED BY <1>5, <1>11, <1>18

-----------------------------------------------------------------------------
(***************************************************************************)
(* A stop.                                                                 *)
(***************************************************************************)

\* What a stop changes outside the lists.
LEMMA StopKeeps ==
    ASSUME TypeOK, NEW t \in Timer, hwtimer_stop(t)
    PROVE  /\ stops \in Nat /\ stops' = stops + 1 /\ stops' \in 0 .. MaxStops
           /\ irq' = irq /\ Delay \in Nat /\ Delay' = Delay + (LATENCY + 2)
           /\ \A u \in Timer : u # t => left'[u] = left[u] /\ overdue'[u] = overdue[u]
           /\ left' \in [Timer -> Int] /\ overdue' \in [Timer -> Nat]
           /\ state' = [state EXCEPT ![t] = "ALLOC"]
<1>1. stops \in Nat /\ Delay \in Nat
    BY TypeFacts
<1>2. stops' = stops + 1 /\ stops < MaxStops
    BY DEF hwtimer_stop
<1>3. stops' \in 0 .. MaxStops
    BY <1>1, <1>2, BoundAssumption
<1>4. Delay' = Delay + (LATENCY + 2)
    <2>1. (stops + 1) * (LATENCY + 2) = stops * (LATENCY + 2) + (LATENCY + 2)
        BY <1>1, BoundAssumption, Products
    <2> QED BY <1>2, <2>1 DEF Delay
<1> QED BY <1>1, <1>2, <1>3, <1>4 DEF hwtimer_stop, TypeOK

\* One stop more, and the hardware timer as it is.
LEMMA MoreStops ==
    ASSUME TypeOK, hw' = hw, irq' = irq, stops' = stops + 1, Delay' = Delay + (LATENCY + 2)
    PROVE  /\ Lead' = Lead + 1 /\ Lag' = Lag - (LATENCY + 2)
           /\ 0 + Lead' >= Lead /\ 0 + Lag' <= Lag
           /\ Served => Served'
<1>1. hw.load \in Nat /\ hw.elapsed \in Nat /\ stops \in Nat /\ Delay \in Nat
    BY TypeFacts
<1>2. Hurried' = Hurried + 1 /\ Hurried \in Int
    BY <1>1 DEF Hurried
<1>3. Expiry' = Expiry
    BY DEF Expiry, Register, HAL_TIMER_LOAD_DELTA
<1>4. Lead' = Lead + 1
    <2>1. Lead' = hw.load - hw.elapsed + (Hurried + 1)
        BY <1>2 DEF Lead
    <2> QED BY <1>1, <1>2, <2>1 DEF Lead
<1>5. Lag' = Lag - (LATENCY + 2)
    <2>1. Larger(hw.load, 1) \in Nat /\ Larger(hw.load, 1)' = Larger(hw.load, 1)
        BY <1>1 DEF Larger
    <2>2. Lag' = Larger(hw.load, 1) - hw.elapsed - (Delay + (LATENCY + 2))
        BY <2>1 DEF Lag
    <2> QED BY <1>1, <2>1, <2>2, BoundAssumption DEF Lag
<1>6. 0 + (Lead + 1) >= Lead /\ 0 + (Lag - (LATENCY + 2)) <= Lag
    BY NumberTypes, BoundAssumption
<1>7. Served => Served'
    BY <1>1, <1>3 DEF Served
<1> QED BY <1>4, <1>5, <1>6, <1>7, Zenon

\* A timer that is not the head: its successor takes over its time.
LEMMA StopFollowerTimes ==
    ASSUME IInv, TInv, NEW t \in Timer, hwtimer_stop(t), StopFollower(t), active' \in Seq(Timer)
    PROVE  /\ time' \in [Timer -> Nat] /\ Served'
           /\ \A j \in 1 .. Len(active') : \E i \in 1 .. Len(active) : \E c \in Int : Carried(i, j, c)
<1>1. TypeOK /\ Served /\ HeadArmed /\ ListsAgree
    BY DEF IInv, TInv
<1>2. PICK i \in 2 .. Len(active) :
             /\ active[i] = t /\ active' = RemoveAt(active, i)
             /\ time' = [u \in Timer |-> IF u = t THEN 0
                                   ELSE IF i < Len(active) /\ u = active[i + 1]
                                        THEN time[u] + time[t] ELSE time[u]]
             /\ hw' = hw
    BY DEF StopFollower
<1>3. /\ stops' = stops + 1 /\ irq' = irq /\ Delay' = Delay + (LATENCY + 2)
      /\ \A u \in Timer : u # t => left'[u] = left[u] /\ overdue'[u] = overdue[u]
    BY <1>1, StopKeeps
<1>4. 0 + Lead' >= Lead /\ 0 + Lag' <= Lag /\ Served'
    BY <1>1, <1>2, <1>3, MoreStops
<1>5. /\ Len(active) \in Nat /\ i \in 1 .. Len(active)
      /\ \A k \in 1 .. Len(active) : active[k] \in Timer /\ time[active[k]] \in Nat
      /\ \A j, k \in 1 .. Len(active) : active[j] = active[k] => j = k
    <2>1. Len(active) \in Nat /\ \A k \in 1 .. Len(active) : active[k] \in Timer /\ time[active[k]] \in Nat
        BY <1>1, TypeFacts
    <2>2. \A j, k \in 1 .. Len(active) : active[j] = active[k] => j = k
        BY <1>1, ActiveTimers
    <2> QED BY <2>1, <2>2, <1>2
<1>6. /\ time' \in [Timer -> Nat]
      /\ \A k \in 1 .. Len(active) : k # i /\ k # i + 1 => time'[active[k]] = time[active[k]]
      /\ i < Len(active) => time'[active[i + 1]] = time[active[i + 1]] + time[active[i]]
    <2>1. ASSUME NEW u \in Timer PROVE time'[u] \in Nat
        <3>1. time[u] \in Nat /\ time[t] \in Nat
            BY <1>1 DEF TypeOK
        <3> QED BY <3>1, <1>2
    <2>2. time' \in [Timer -> Nat]
        BY <2>1, <1>2
    <2>3. ASSUME NEW k \in 1 .. Len(active), k # i, k # i + 1
          PROVE  time'[active[k]] = time[active[k]]
        <3>1. active[k] # t /\ active[k] \in Timer
            BY <2>3, <1>2, <1>5
        <3>2. i < Len(active) => active[k] # active[i + 1]
            <4>1. i < Len(active) => i + 1 \in 1 .. Len(active)
                BY <1>5
            <4> QED BY <4>1, <2>3, <1>5
        <3> QED BY <3>1, <3>2, <1>2
    <2>4. ASSUME i < Len(active)
          PROVE  time'[active[i + 1]] = time[active[i + 1]] + time[active[i]]
        <3>1. i + 1 \in 1 .. Len(active) /\ i + 1 # i
            BY <2>4, <1>5
        <3>2. active[i + 1] # t /\ active[i + 1] \in Timer
            BY <3>1, <1>2, <1>5
        <3> QED BY <3>2, <2>4, <1>2
    <2> QED BY <2>2, <2>3, <2>4
<1>7. /\ Len(active') = Len(active) - 1
      /\ \A j \in 1 .. Len(active) - 1 : active'[j] = IF j < i THEN active[j] ELSE active[j + 1]
    <2>1. active \in Seq(Timer) /\ IsInjective(active)
        BY <1>1 DEF TypeOK, ListsAgree
    <2> QED BY <2>1, <1>2, <1>5, RemoveKeepsOrder
<1>8. Shifted(1, i - 1, 0, 0)
    <2>1. ASSUME NEW k \in 2 .. i - 1 PROVE time'[active'[k + 0]] = time[active[k]]
        <3>1. k \in 1 .. Len(active) /\ k \in 1 .. Len(active) - 1 /\ k # i /\ k # i + 1 /\ k < i
              /\ k + 0 = k
            BY <1>5
        <3>2. active'[k] = active[k] /\ time'[active[k]] = time[active[k]]
            BY <3>1, <1>6, <1>7
        <3> QED BY <3>1, <3>2
    <2>2. Behind(1) = 0 /\ Sum(active', time', 1 + 0) = 0
        <3>1. 1 \in 0 .. Len(active) /\ 1 \in 0 .. Len(active') /\ 1 + 0 = 1
            BY <1>2, <1>5, <1>7
        <3> QED BY <3>1, <1>1, <1>6, NextSums, TypeFacts
    <2>3. /\ 1 \in Nat /\ 1 >= 1 /\ i - 1 \in Nat /\ i - 1 <= Len(active)
          /\ 0 \in Int /\ 1 + 0 >= 1 /\ (i - 1) + 0 <= Len(active')
          /\ \A k \in 1 + 1 .. i - 1 : time'[active'[k + 0]] = time[active[k]]
          /\ Sum(active', time', 1 + 0) = Behind(1) + 0
        BY <2>1, <2>2, <1>2, <1>5, <1>7
    <2> QED BY <2>3, <1>1, <1>6, Shift
<1>9. ASSUME i < Len(active) PROVE Shifted(i + 1, Len(active), 0 - 1, 0)
    <2>1. ASSUME NEW k \in i + 2 .. Len(active) PROVE time'[active'[k + (0 - 1)]] = time[active[k]]
        <3>1. k \in 1 .. Len(active) /\ k - 1 \in 1 .. Len(active) - 1 /\ k # i /\ k # i + 1
              /\ ~ (k - 1 < i) /\ (k - 1) + 1 = k /\ k + (0 - 1) = k - 1
            BY <1>5
        <3>2. active'[k - 1] = active[k] /\ time'[active[k]] = time[active[k]]
            BY <3>1, <1>6, <1>7
        <3> QED BY <3>1, <3>2
    <2>2. Sum(active', time', i) = Behind(i + 1)
        <3>1. i \in 2 .. Len(active') /\ i \in 1 .. Len(active) - 1 /\ ~ (i < i)
              /\ i - 1 \in 1 .. i - 1 /\ (i - 1) + 0 = i - 1
              /\ i \in 0 .. Len(active) /\ i - 1 \in 0 .. Len(active) /\ i + 1 \in 0 .. Len(active)
              /\ (i + 1) - 1 = i /\ ~ (i <= 1) /\ ~ (i + 1 <= 1)
              /\ i + 1 \in 1 .. Len(active)
            BY <1>2, <1>5, <1>7, <1>9
        <3>2. active'[i] = active[i + 1]
            BY <3>1, <1>7
        <3>3. Sum(active', time', i - 1) = Behind(i - 1) + 0
            BY <3>1, <1>8 DEF Shifted
        <3>4. Sum(active', time', i) = Sum(active', time', i - 1) + time'[active'[i]]
            BY <3>1, <1>6, NextSums
        <3>5. Sum(active', time', i) = (Behind(i - 1) + 0) + (time[active[i + 1]] + time[active[i]])
            BY <3>2, <3>3, <3>4, <1>6, <1>9, Zenon
        <3>6. Behind(i) = Behind(i - 1) + time[active[i]] /\ Behind(i - 1) \in Nat
            BY <3>1, <1>1, TypeFacts
        <3>7. Behind(i + 1) = Behind(i) + time[active[i + 1]]
            <4>1. Behind(i + 1) = Behind((i + 1) - 1) + time[active[i + 1]]
                BY <3>1, <1>1, TypeFacts
            <4> QED BY <3>1, <4>1
        <3> QED BY <3>1, <3>5, <3>6, <3>7, <1>5
    <2>3. /\ i + 1 \in Nat /\ i + 1 >= 1 /\ Len(active) \in Nat /\ Len(active) <= Len(active)
          /\ 0 - 1 \in Int /\ (i + 1) + (0 - 1) >= 1 /\ Len(active) + (0 - 1) <= Len(active')
          /\ 0 \in Int
          /\ \A k \in (i + 1) + 1 .. Len(active) : time'[active'[k + (0 - 1)]] = time[active[k]]
        <3>1. (i + 1) + 1 = i + 2
            BY <1>5
        <3> QED BY <3>1, <2>1, <1>5, <1>7
    <2>4. Sum(active', time', (i + 1) + (0 - 1)) = Behind(i + 1) + 0
        <3>1. (i + 1) + (0 - 1) = i /\ i + 1 \in 0 .. Len(active)
            BY <1>5, <1>9
        <3>2. Behind(i + 1) \in Nat
            BY <3>1, <1>1, TypeFacts
        <3> QED BY <2>2, <3>1, <3>2
    <2> QED BY <2>3, <2>4, <1>1, <1>6, Shift
<1>10. ASSUME NEW k \in 1 .. Len(active), k # i, NEW j \in 1 .. Len(active'),
              active'[j] = active[k], Sum(active', time', j) = Behind(k) + 0
       PROVE  Carried(k, j, 0)
    <2>1. active[k] # t /\ active[k] \in Timer
        BY <1>2, <1>5, <1>10
    <2>2. left'[active[k]] = left[active[k]] /\ overdue'[active[k]] = overdue[active[k]]
        BY <2>1, <1>3
    <2> QED BY <2>2, <1>4, <1>10, Zenon DEF Carried
<1>11. ASSUME NEW j \in 1 .. Len(active')
       PROVE  \E k \in 1 .. Len(active) : \E c \in Int : Carried(k, j, c)
    <2>1. CASE j < i
        <3>1. j \in 1 .. Len(active) /\ j \in 1 .. i - 1 /\ j \in 1 .. Len(active) - 1 /\ j + 0 = j
              /\ j # i
            BY <2>1, <1>5, <1>7
        <3>2. active'[j] = active[j] /\ Sum(active', time', j) = Behind(j) + 0
            BY <3>1, <2>1, <1>7, <1>8 DEF Shifted
        <3> QED BY <3>1, <3>2, <1>10
    <2>2. CASE ~ (j < i)
        <3>1. /\ i < Len(active) /\ j + 1 \in i + 1 .. Len(active) /\ j + 1 \in 1 .. Len(active)
              /\ j \in 1 .. Len(active) - 1 /\ (j + 1) + (0 - 1) = j /\ j + 1 # i
            BY <2>2, <1>5, <1>7
        <3>2. active'[j] = active[j + 1] /\ Sum(active', time', (j + 1) + (0 - 1)) = Behind(j + 1) + 0
            BY <3>1, <2>2, <1>7, <1>9 DEF Shifted
        <3>3. Carried(j + 1, j, 0)
            BY <3>1, <3>2, <1>10
        <3> QED BY <3>1, <3>3
    <2> QED BY <2>1, <2>2
<1> QED BY <1>4, <1>6, <1>11

\* A timer that has fired: the active list stays as it is.
LEMMA StopFiredTimes ==
    ASSUME IInv, TInv, NEW t \in Timer, hwtimer_stop(t), state[t] = "FIRED", StopFired(t)
    PROVE  /\ time' \in [Timer -> Nat] /\ Served'
           /\ \A j \in 1 .. Len(active') : \E i \in 1 .. Len(active) : \E c \in Int : Carried(i, j, c)
<1>1. TypeOK /\ Served /\ ListsAgree
    BY DEF IInv, TInv
<1>2. active' = active /\ time' = time /\ hw' = hw
    BY DEF StopFired
<1>3. /\ stops' = stops + 1 /\ irq' = irq /\ Delay' = Delay + (LATENCY + 2)
      /\ \A u \in Timer : u # t => left'[u] = left[u] /\ overdue'[u] = overdue[u]
    BY <1>1, StopKeeps
<1>4. 0 + Lead' >= Lead /\ 0 + Lag' <= Lag /\ Served'
    BY <1>1, <1>2, <1>3, MoreStops
<1>5. ASSUME NEW j \in 1 .. Len(active) PROVE Carried(j, j, 0)
    <2>1. active[j] \in Timer /\ active[j] # t
        BY <1>1, ActiveTimers
    <2>2. Behind(j) \in Nat /\ Behind(j) = Sum(active, time, j)
        <3>1. j \in 0 .. Len(active)
            OBVIOUS
        <3> QED BY <3>1, <1>1, TypeFacts
    <2>3. Sum(active, time, j) = Behind(j) + 0
        BY <2>2
    <2>4. Sum(active', time', j) = Behind(j) + 0
        BY <2>3, <1>2, Zenon
    <2>5. left'[active[j]] = left[active[j]] /\ overdue'[active[j]] = overdue[active[j]]
        BY <2>1, <1>3
    <2> QED BY <2>4, <2>5, <1>2, <1>4, Zenon DEF Carried
<1>6. time' \in [Timer -> Nat]
    BY <1>1, <1>2 DEF TypeOK
<1>7. 0 \in Int
    OBVIOUS
<1> QED BY <1>2, <1>4, <1>5, <1>6, <1>7

\* The head goes and its successors stay: what both ways of stopping it need.
LEMMA HeadGoes ==
    ASSUME IInv, TInv, NEW t \in Timer, hwtimer_stop(t), StopHead(t), active # <<>>,
           Len(active) # 1
    PROVE  /\ t = active[1] /\ Len(active) \in Nat /\ Len(active) >= 2
           /\ Len(active') = Len(active) - 1
           /\ \A j \in 1 .. Len(active) - 1 : active'[j] = active[j + 1]
           /\ \A k \in 1 .. Len(active) : active[k] \in Timer /\ time[active[k]] \in Nat
           /\ \A j, k \in 1 .. Len(active) : active[j] = active[k] => j = k
           /\ \A k \in 2 .. Len(active) : left'[active[k]] = left[active[k]]
                                          /\ overdue'[active[k]] = overdue[active[k]]
           /\ Behind(1) = 0 /\ Behind(2) = time[active[2]] /\ Behind(2) \in Nat
           /\ (SuccessorInherits \/ SuccessorsCatchUp) /\ hw' = Start(time'[active[2]])
<1>1. TypeOK /\ ListsAgree
    BY DEF IInv, TInv
<1>2. /\ t = Head(active) /\ active' = Tail(active)
      /\ (SuccessorInherits \/ SuccessorsCatchUp) /\ hw' = Start(time'[active[2]])
    BY DEF StopHead
<1>3. /\ active \in Seq(Timer) /\ IsInjective(active)
    BY <1>1 DEF TypeOK, ListsAgree
<1>4. /\ Head(active) = active[1] /\ Len(active') = Len(active) - 1
      /\ \A j \in 1 .. Len(active) - 1 : active'[j] = active[j + 1]
    BY <1>2, <1>3, TailKeepsOrder
<1>5. Len(active) \in Nat /\ Len(active) >= 2
    <2>1. Len(active) \in Nat
        BY <1>3, Elements
    <2>2. Len(active) # 0
        BY <1>3, EmptySeq
    <2>3. \A n \in Nat : n # 0 /\ n # 1 => n >= 2
        OBVIOUS
    <2> QED BY <2>1, <2>2, <2>3
<1>6. \A k \in 1 .. Len(active) : active[k] \in Timer /\ time[active[k]] \in Nat
    BY <1>1, TypeFacts
<1>7. \A j, k \in 1 .. Len(active) : active[j] = active[k] => j = k
    BY <1>1, ActiveTimers
<1>8. Behind(1) = 0 /\ Behind(2) = time[active[2]] /\ Behind(2) \in Nat
    <2>1. 1 \in 0 .. Len(active) /\ 2 \in 0 .. Len(active) /\ 2 \in 1 .. Len(active) /\ 2 - 1 = 1
        BY <1>5
    <2>2. Behind(1) = 0 /\ Behind(2) = Behind(2 - 1) + time[active[2]]
        BY <2>1, <1>1, TypeFacts
    <2>3. Behind(2) = 0 + time[active[2]]
        BY <2>1, <2>2
    <2> QED BY <2>1, <2>2, <2>3, <1>6
<1>9. ASSUME NEW k \in 2 .. Len(active)
      PROVE  left'[active[k]] = left[active[k]] /\ overdue'[active[k]] = overdue[active[k]]
    <2>1. k \in 1 .. Len(active) /\ 1 \in 1 .. Len(active) /\ k # 1
        BY <1>5
    <2>2. active[k] # t /\ active[k] \in Timer
        BY <2>1, <1>2, <1>4, <1>6, <1>7
    <2> QED BY <2>2, <1>1, StopKeeps
<1> QED BY <1>2, <1>4, <1>5, <1>6, <1>7, <1>8, <1>9

\* The hardware timer after the stop of the head.
LEMMA HeadRestarts ==
    ASSUME TypeOK, Served, NEW t \in Timer, hwtimer_stop(t), NEW load \in Nat, hw' = Start(load)
    PROVE  /\ Served' /\ Hurried \in Nat
           /\ \E h \in Nat : h >= Hurried /\ Lead' = load + h
           /\ Lag' = Larger(load, 1) - (Delay + (LATENCY + 2))
<1>1. /\ stops \in Nat /\ stops' = stops + 1 /\ irq' = irq /\ Delay' = Delay + (LATENCY + 2)
    BY StopKeeps
<1>2. stops' \in Nat /\ (irq' = "entered" => stops' >= 1)
    BY <1>1
<1>3. /\ Served' /\ Lead' = load + Hurried' /\ Lag' = Larger(load, 1) - Delay'
      /\ Hurried' = (IF irq' = "entered" THEN stops' - 1 ELSE stops') /\ Hurried' \in Nat
    BY <1>2, Restarted
<1>4. Hurried \in Nat /\ Hurried <= stops
    BY HurriedFacts
<1>5. PICK h \in Nat : h = Hurried'
    BY <1>3
<1>6. h = IF irq = "entered" THEN stops + 1 - 1 ELSE stops + 1
    BY <1>1, <1>3, <1>5
<1>7. h >= Hurried
    BY <1>1, <1>4, <1>6
<1>8. Lead' = load + h
    BY <1>3, <1>5
<1>9. Lag' = Larger(load, 1) - (Delay + (LATENCY + 2))
    BY <1>1, <1>3
<1> QED BY <1>3, <1>4, <1>7, <1>8, <1>9

\* The head stops before its expiry.
LEMMA InheritTimes ==
    ASSUME IInv, TInv, NEW t \in Timer, hwtimer_stop(t), StopHead(t), active # <<>>,
           Len(active) # 1, SuccessorInherits, active' \in Seq(Timer)
    PROVE  /\ time' \in [Timer -> Nat] /\ Served'
           /\ \A j \in 1 .. Len(active') : \E i \in 1 .. Len(active) : \E c \in Int : Carried(i, j, c)
<1>1. TypeOK /\ Served
    BY DEF IInv, TInv
<1>2. /\ t = active[1] /\ Len(active) \in Nat /\ Len(active) >= 2
      /\ Len(active') = Len(active) - 1
      /\ \A j \in 1 .. Len(active) - 1 : active'[j] = active[j + 1]
      /\ \A k \in 1 .. Len(active) : active[k] \in Timer /\ time[active[k]] \in Nat
      /\ \A j, k \in 1 .. Len(active) : active[j] = active[k] => j = k
      /\ \A k \in 2 .. Len(active) : left'[active[k]] = left[active[k]]
                                     /\ overdue'[active[k]] = overdue[active[k]]
      /\ Behind(1) = 0 /\ Behind(2) = time[active[2]] /\ Behind(2) \in Nat
      /\ hw' = Start(time'[active[2]])
    BY HeadGoes
<1>3. Raw > 0 /\ time' = [time EXCEPT ![active[2]] = @ + Raw, ![active[1]] = 0]
    BY DEF SuccessorInherits
<1>4. /\ hw.load \in Nat /\ hw.elapsed \in Nat /\ Larger(hw.load, 1) \in Nat
      /\ Raw \in Nat /\ Larger(hw.load, 1) >= hw.load /\ Delay \in Nat
      /\ Raw >= Larger(hw.load, 1) - hw.elapsed /\ Raw <= Larger(hw.load, 1) - hw.elapsed + 1
    BY <1>1, <1>3, TypeFacts, RawFacts
<1>5. /\ time' \in [Timer -> Nat] /\ time'[active[2]] = Behind(2) + Raw
      /\ \A k \in 3 .. Len(active) : time'[active[k]] = time[active[k]]
    <2>1. active[1] \in Timer /\ active[2] \in Timer /\ active[1] # active[2]
          /\ time[active[2]] + Raw \in Nat
        <3>1. 1 \in 1 .. Len(active) /\ 2 \in 1 .. Len(active) /\ 1 # 2
            BY <1>2
        <3> QED BY <3>1, <1>2, <1>4
    <2>2. time' \in [Timer -> Nat] /\ time'[active[2]] = time[active[2]] + Raw
        BY <2>1, <1>1, <1>3 DEF TypeOK
    <2>3. ASSUME NEW k \in 3 .. Len(active) PROVE time'[active[k]] = time[active[k]]
        <3>1. k \in 1 .. Len(active) /\ 1 \in 1 .. Len(active) /\ 2 \in 1 .. Len(active)
              /\ k # 1 /\ k # 2
            BY <1>2
        <3>2. active[k] \in Timer /\ active[k] # active[1] /\ active[k] # active[2]
            BY <3>1, <1>2
        <3> QED BY <3>2, <1>1, <1>3 DEF TypeOK
    <2> QED BY <2>2, <2>3, <1>2
<1>6. Shifted(2, Len(active), 0 - 1, 0 - Behind(2))
    <2>1. ASSUME NEW k \in 3 .. Len(active) PROVE time'[active'[k + (0 - 1)]] = time[active[k]]
        <3>1. k - 1 \in 1 .. Len(active) - 1 /\ (k - 1) + 1 = k /\ k + (0 - 1) = k - 1
            BY <1>2
        <3>2. active'[k - 1] = active[k]
            BY <3>1, <1>2
        <3> QED BY <3>1, <3>2, <1>5
    <2>2. Sum(active', time', 2 + (0 - 1)) = Behind(2) + (0 - Behind(2))
        <3>1. 1 \in 0 .. Len(active') /\ 2 + (0 - 1) = 1
            BY <1>2
        <3>2. Behind(2) + (0 - Behind(2)) = 0
            BY <1>2
        <3>3. Sum(active', time', 1) = 0
            BY <3>1, <1>5, NextSums
        <3> QED BY <3>1, <3>2, <3>3
    <2>3. /\ 2 \in Nat /\ 2 >= 1 /\ Len(active) \in Nat /\ Len(active) <= Len(active)
          /\ 0 - 1 \in Int /\ 2 + (0 - 1) >= 1 /\ Len(active) + (0 - 1) <= Len(active')
          /\ 0 - Behind(2) \in Int
          /\ \A k \in 2 + 1 .. Len(active) : time'[active'[k + (0 - 1)]] = time[active[k]]
        <3>1. 2 + 1 = 3
            OBVIOUS
        <3> QED BY <3>1, <2>1, <1>2
    <2> QED BY <2>2, <2>3, <1>1, <1>5, Shift
<1>7. /\ Served' /\ Hurried \in Nat
      /\ \E h \in Nat : h >= Hurried /\ Lead' = (Behind(2) + Raw) + h
      /\ Lag' = Larger(Behind(2) + Raw, 1) - (Delay + (LATENCY + 2))
    <2>1. Behind(2) + Raw \in Nat /\ hw' = Start(Behind(2) + Raw)
        BY <1>2, <1>4, <1>5
    <2> QED BY <2>1, <1>1, HeadRestarts
<1>8. PICK h \in Nat : h >= Hurried /\ Lead' = (Behind(2) + Raw) + h
    BY <1>7
<1>9. (0 - Behind(2)) + ((Behind(2) + Raw) + h) >= Lead
    <2>1. h >= Hurried /\ Hurried \in Nat
        BY <1>7, <1>8
    <2> QED BY <2>1, <1>2, <1>4 DEF Lead
<1>10. (0 - Behind(2)) + (Larger(Behind(2) + Raw, 1) - (Delay + (LATENCY + 2))) <= Lag
    <2>1. Larger(Behind(2) + Raw, 1) = Behind(2) + Raw
        BY <1>2, <1>3, <1>4 DEF Larger
    <2> QED BY <2>1, <1>2, <1>4, BoundAssumption DEF Lag
<1>11. ASSUME NEW j \in 1 .. Len(active') PROVE Carried(j + 1, j, 0 - Behind(2))
    <2>1. j \in 1 .. Len(active) - 1 /\ j + 1 \in 2 .. Len(active) /\ (j + 1) + (0 - 1) = j
        BY <1>2
    <2>2. active'[j] = active[j + 1] /\ left'[active[j + 1]] = left[active[j + 1]]
          /\ overdue'[active[j + 1]] = overdue[active[j + 1]]
        BY <2>1, <1>2
    <2>3. Sum(active', time', j) = Behind(j + 1) + (0 - Behind(2))
        BY <2>1, <1>6 DEF Shifted
    <2> QED BY <2>2, <2>3, <1>7, <1>8, <1>9, <1>10, Zenon DEF Carried
<1>12. ASSUME NEW j \in 1 .. Len(active')
       PROVE  \E i \in 1 .. Len(active) : \E c \in Int : Carried(i, j, c)
    <2>1. j + 1 \in 1 .. Len(active) /\ 0 - Behind(2) \in Int
        BY <1>2
    <2> QED BY <2>1, <1>11
<1> QED BY <1>5, <1>7, <1>12

\* The head stops after its expiry: the times that its successors get.
LEMMA CaughtUp ==
    ASSUME TypeOK, ListsAgree, SuccessorsCatchUp
    PROVE  /\ time' = [v \in Timer |-> time'[v]]
           /\ \A u \in Timer : \A k \in 1 .. Len(active) : active[k] = u =>
                   time'[u] = IF Behind(k - 1) > Missed THEN time[u]
                              ELSE IF Behind(k) <= Missed THEN 0 ELSE Behind(k) - Missed
           /\ \A u \in Timer : (\A k \in 1 .. Len(active) : active[k] # u) => time'[u] = time[u]
<1>1. time' = [v \in Timer |-> time'[v]]
    BY DEF SuccessorsCatchUp
<1>2. ASSUME NEW u \in Timer
      PROVE /\ \A k \in 1 .. Len(active) : active[k] = u =>
                  time'[u] = IF Behind(k - 1) > Missed THEN time[u]
                             ELSE IF Behind(k) <= Missed THEN 0 ELSE Behind(k) - Missed
            /\ (\A k \in 1 .. Len(active) : active[k] # u) => time'[u] = time[u]
    <2> DEFINE I == {i \in 1 .. Len(active) : active[i] = u}
               i == IF I # {} THEN CHOOSE x \in I : \A y \in I : x <= y ELSE 0
    <2>1. time'[u] = IF i = 0 \/ Behind(i - 1) > Missed THEN time[u]
                     ELSE IF Behind(i) <= Missed THEN 0 ELSE Behind(i) - Missed
        BY DEF SuccessorsCatchUp, SelectInSeq, Min
    <2>2. ASSUME NEW k \in 1 .. Len(active), active[k] = u PROVE i = k
        <3>1. I = {k}
            BY <2>2, ActiveTimers
        <3>2. k <= k
            BY TypeFacts
        <3> QED BY <3>1, <3>2
    <2>3. (\A k \in 1 .. Len(active) : active[k] # u) => i = 0
        OBVIOUS
    <2> HIDE DEF i
    <2> QED BY <2>1, <2>2, <2>3, TypeFacts
<1> QED BY <1>1, <1>2

\* What is left of the time between the head and the one at position k.
LeftBehind(k) == IF Behind(k) > Missed THEN Behind(k) - Missed ELSE 0

\* The stop itself.
LEMMA CatchUpTimes ==
    ASSUME IInv, TInv, NEW t \in Timer, hwtimer_stop(t), StopHead(t), active # <<>>,
           Len(active) # 1, SuccessorsCatchUp, active' \in Seq(Timer)
    PROVE  /\ time' \in [Timer -> Nat] /\ Served'
           /\ \A j \in 1 .. Len(active') : \E i \in 1 .. Len(active) : \E c \in Int : Carried(i, j, c)
<1>1. TypeOK /\ Served /\ HeadArmed /\ ListsAgree
    BY DEF IInv, TInv
<1>2. /\ Len(active) \in Nat /\ Len(active) >= 2
      /\ Len(active') = Len(active) - 1
      /\ \A j \in 1 .. Len(active) - 1 : active'[j] = active[j + 1]
      /\ \A k \in 1 .. Len(active) : active[k] \in Timer /\ time[active[k]] \in Nat
      /\ \A k \in 2 .. Len(active) : left'[active[k]] = left[active[k]]
                                     /\ overdue'[active[k]] = overdue[active[k]]
      /\ Behind(1) = 0
      /\ hw' = Start(time'[active[2]])
    BY HeadGoes
<1>3. /\ hw.load \in Nat /\ hw.elapsed \in Nat /\ Larger(hw.load, 1) \in Nat
      /\ hw.elapsed >= hw.load /\ Delay \in Nat
      /\ hw.elapsed <= Larger(hw.load, 1) + 1 + LATENCY
      /\ Missed = hw.elapsed - hw.load /\ Missed \in Nat
    <2>1. Raw = 0
        BY DEF SuccessorsCatchUp
    <2>2. /\ hw.load \in Nat /\ hw.elapsed \in Nat /\ Delay \in Nat
        BY <1>1, TypeFacts
    <2>3. /\ Larger(hw.load, 1) \in Nat /\ Larger(hw.load, 1) >= hw.load
          /\ Expiry >= Larger(hw.load, 1) /\ Expiry <= Larger(hw.load, 1) + 1
          /\ ~ (hw.elapsed < Expiry)
        BY <2>1, <2>2, RawFacts
    <2>4. Expiry \in Nat
        BY <2>2, RawFacts DEF Larger
    <2>5. hw.elapsed >= hw.load
        BY <2>2, <2>3, <2>4
    <2>6. hw.on /\ Missed = IF hw.elapsed > hw.load THEN hw.elapsed - hw.load ELSE 0
        BY <1>1, MissedFacts
    <2>7. hw.elapsed <= Expiry + LATENCY
        BY <2>6, <1>1 DEF Served
    <2>8. hw.elapsed <= Larger(hw.load, 1) + 1 + LATENCY
        BY <2>2, <2>3, <2>4, <2>7, BoundAssumption
    <2>9. Missed = hw.elapsed - hw.load /\ Missed \in Nat
        BY <2>2, <2>5, <2>6
    <2> QED BY <2>2, <2>3, <2>5, <2>8, <2>9
<1>4. /\ \A k \in 0 .. Len(active) : Behind(k) \in Nat /\ LeftBehind(k) \in Nat
      /\ \A k \in 2 .. Len(active) : Behind(k) = Behind(k - 1) + time[active[k]]
    <2>1. \A k \in 0 .. Len(active) : Behind(k) \in Nat
        BY <1>1, TypeFacts
    <2>2. \A k \in 0 .. Len(active) : LeftBehind(k) \in Nat
        BY <2>1, <1>3 DEF LeftBehind
    <2>3. ASSUME NEW k \in 2 .. Len(active) PROVE Behind(k) = Behind(k - 1) + time[active[k]]
        <3>1. k \in 0 .. Len(active) /\ ~ (k <= 1)
            BY <1>2
        <3> QED BY <3>1, <1>1, TypeFacts
    <2> QED BY <2>1, <2>2, <2>3
<1>5. \A k \in 1 .. Len(active) :
         time'[active[k]] = IF Behind(k - 1) > Missed THEN time[active[k]]
                            ELSE LeftBehind(k)
    <2>1. ASSUME NEW k \in 1 .. Len(active)
          PROVE  time'[active[k]] = IF Behind(k - 1) > Missed THEN time[active[k]]
                            ELSE IF Behind(k) <= Missed THEN 0 ELSE Behind(k) - Missed
        BY <1>1, <1>2, CaughtUp
    <2>2. ASSUME NEW k \in 1 .. Len(active)
          PROVE  (IF Behind(k) <= Missed THEN 0 ELSE Behind(k) - Missed) = LeftBehind(k)
        <3>1. k \in 0 .. Len(active)
            BY <1>2
        <3> QED BY <3>1, <1>3, <1>4 DEF LeftBehind
    <2> QED BY <2>1, <2>2
<1>6. time' \in [Timer -> Nat]
    <2>1. ASSUME NEW u \in Timer PROVE time'[u] \in Nat
        <3>1. CASE \A k \in 1 .. Len(active) : active[k] # u
            <4>1. time'[u] = time[u]
                BY <3>1, <1>1, CaughtUp
            <4> QED BY <4>1, <1>1 DEF TypeOK
        <3>2. CASE \E k \in 1 .. Len(active) : active[k] = u
            <4>1. PICK k \in 1 .. Len(active) : active[k] = u
                BY <3>2
            <4>2. k \in 0 .. Len(active)
                BY <1>2
            <4> QED BY <4>1, <4>2, <1>2, <1>4, <1>5
        <3> QED BY <3>1, <3>2
    <2>2. time' = [v \in Timer |-> time'[v]]
        BY <1>1, CaughtUp
    <2> QED BY <2>1, <2>2
<1>7. PICK load \in Nat : load = time'[active[2]]
    <2>1. 2 \in 1 .. Len(active)
        BY <1>2
    <2> QED BY <2>1, <1>2, <1>6
<1>8. load = LeftBehind(2)
    <2>1. 2 \in 1 .. Len(active) /\ 2 - 1 = 1 /\ ~ (0 > Missed)
        BY <1>2, <1>3
    <2>2. time'[active[2]] = IF Behind(2 - 1) > Missed THEN time[active[2]] ELSE LeftBehind(2)
        BY <2>1, <1>5
    <2>3. ~ (Behind(2 - 1) > Missed)
        BY <2>1, <1>2
    <2> QED BY <2>2, <2>3, <1>7
<1> DEFINE Bad == {k \in 2 .. Len(active) : Sum(active', time', k - 1) + load # LeftBehind(k)}
<1>9. /\ \A k : k \in Bad <=> k \in 2 .. Len(active)
                               /\ Sum(active', time', k - 1) + load # LeftBehind(k)
      /\ \A k \in Bad : k \in Nat
    OBVIOUS
<1> HIDE DEF Bad
<1>10. Bad = {}
    <2> SUFFICES ASSUME NEW x \in Bad PROVE FALSE
        OBVIOUS
    <2>1. PICK k \in Bad : \A j \in Bad : k <= j
        BY LeastElement, <1>9
    <2>2. k \in 2 .. Len(active) /\ Sum(active', time', k - 1) + load # LeftBehind(k)
        BY <1>9, <2>1
    <2>3. k # 2
        <3>1. 1 \in 0 .. Len(active') /\ 1 <= 1 /\ 2 - 1 = 1
            BY <1>2
        <3>2. Sum(active', time', 1) = 0
            BY <3>1, <1>6, NextSums
        <3>3. Sum(active', time', 2 - 1) + load = LeftBehind(2)
            BY <3>1, <3>2, <1>8
        <3>4. k = 2 => Sum(active', time', k - 1) + load = LeftBehind(k)
            BY <3>3, Zenon
        <3> QED BY <2>2, <3>4
    <2>4. /\ k - 1 \in 2 .. Len(active) /\ k - 1 < k /\ k - 1 \in 2 .. Len(active')
          /\ k - 1 \in 1 .. Len(active) - 1 /\ (k - 1) + 1 = k /\ k \in 1 .. Len(active)
          /\ k \in 0 .. Len(active) /\ k - 1 \in 0 .. Len(active)
          /\ (k - 1) - 1 \in 0 .. Len(active')
        BY <2>2, <2>3, <1>2
    <2>5. Sum(active', time', (k - 1) - 1) + load = LeftBehind(k - 1)
        <3>1. k - 1 \notin Bad
            <4>1. ~ (k <= k - 1)
                BY <2>4
            <4> QED BY <4>1, <2>1
        <3> QED BY <3>1, <2>4, <1>9
    <2>6. Sum(active', time', k - 1) = Sum(active', time', (k - 1) - 1) + time'[active[k]]
        <3>1. active'[k - 1] = active[k]
            BY <2>4, <1>2
        <3>2. Sum(active', time', k - 1) = Sum(active', time', (k - 1) - 1) + time'[active'[k - 1]]
            BY <2>4, <1>6, NextSums
        <3> QED BY <3>1, <3>2
    <2>7. Sum(active', time', (k - 1) - 1) \in Nat
        BY <2>4, <1>6, NextSums
    <2>8. LeftBehind(k) = LeftBehind(k - 1) + time'[active[k]] /\ time'[active[k]] \in Nat
        <3>1. /\ Behind(k) = Behind(k - 1) + time[active[k]] /\ time[active[k]] \in Nat
              /\ Behind(k) \in Nat /\ Behind(k - 1) \in Nat
            BY <2>2, <2>4, <1>2, <1>4
        <3>2. time'[active[k]] = IF Behind(k - 1) > Missed THEN time[active[k]] ELSE LeftBehind(k)
            BY <2>4, <1>5
        <3>3. CASE Behind(k - 1) > Missed
            <4>1. time'[active[k]] = time[active[k]]
                BY <3>2, <3>3
            <4>2. Behind(k) > Missed
                BY <3>1, <3>3, <1>3
            <4>3. LeftBehind(k) = Behind(k) - Missed /\ LeftBehind(k - 1) = Behind(k - 1) - Missed
                BY <3>3, <4>2 DEF LeftBehind
            <4> QED BY <3>1, <4>1, <4>3, <1>3
        <3>4. CASE ~ (Behind(k - 1) > Missed)
            <4>1. LeftBehind(k - 1) = 0 /\ LeftBehind(k) \in Nat
                BY <3>4, <2>4, <1>4 DEF LeftBehind
            <4>2. time'[active[k]] = LeftBehind(k)
                BY <3>2, <3>4
            <4> QED BY <4>1, <4>2
        <3> QED BY <3>3, <3>4
    <2>9. PICK s \in Nat, d \in Nat : s = Sum(active', time', (k - 1) - 1) /\ d = time'[active[k]]
        BY <2>7, <2>8
    <2>10. Sum(active', time', k - 1) = s + d /\ LeftBehind(k) = (s + load) + d
        BY <2>5, <2>6, <2>8, <2>9, Zenon
    <2>11. (s + d) + load = (s + load) + d
        OBVIOUS
    <2> QED BY <2>2, <2>10, <2>11, Zenon
<1>11. /\ Served' /\ Hurried \in Nat
       /\ \E h \in Nat : h >= Hurried /\ Lead' = load + h
       /\ Lag' = Larger(load, 1) - (Delay + (LATENCY + 2))
    BY <1>1, <1>2, <1>7, HeadRestarts
<1>12. PICK h \in Nat : h >= Hurried /\ Lead' = load + h
    BY <1>11
<1>13. ASSUME NEW k \in 2 .. Len(active)
       PROVE  /\ LeftBehind(k) - load - Behind(k) \in Int
              /\ Carried(k, k - 1, LeftBehind(k) - load - Behind(k))
    <2> DEFINE c == LeftBehind(k) - load - Behind(k)
    <2>1. /\ k \in 0 .. Len(active) /\ k - 1 \in 1 .. Len(active) - 1 /\ (k - 1) + 1 = k
          /\ k - 1 \in 0 .. Len(active')
        BY <1>2
    <2>2. Behind(k) \in Nat /\ LeftBehind(k) \in Nat
        BY <2>1, <1>4
    <2>3. Behind(k) - Missed <= LeftBehind(k) /\ LeftBehind(k) <= Behind(k)
        BY <2>2, <1>3 DEF LeftBehind
    <2>4. active'[k - 1] = active[k] /\ left'[active[k]] = left[active[k]]
          /\ overdue'[active[k]] = overdue[active[k]]
        BY <2>1, <1>2
    <2>5. Sum(active', time', k - 1) = Behind(k) + c
        <3>1. Sum(active', time', k - 1) + load = LeftBehind(k)
            BY <1>9, <1>10
        <3>2. Sum(active', time', k - 1) \in Nat
            BY <2>1, <1>6, NextSums
        <3>3. PICK s \in Nat : s = Sum(active', time', k - 1)
            BY <3>2
        <3>4. s + load = LeftBehind(k)
            BY <3>1, <3>3
        <3>5. s = Behind(k) + c
            BY <3>4, <2>2
        <3> QED BY <3>3, <3>5, Zenon
    <2>6. c + (load + h) >= Lead
        <3>1. h >= Hurried /\ Hurried \in Nat
            BY <1>11, <1>12
        <3>2. c + (load + h) = LeftBehind(k) - Behind(k) + h
            BY <2>2
        <3>3. LeftBehind(k) - Behind(k) >= hw.load - hw.elapsed
            BY <2>2, <2>3, <1>3
        <3>4. LeftBehind(k) - Behind(k) + h >= hw.load - hw.elapsed + Hurried
            BY <3>1, <3>3, <2>2, <1>3
        <3> QED BY <3>2, <3>4, Zenon DEF Lead
    <2>7. c + (Larger(load, 1) - (Delay + (LATENCY + 2))) <= Lag
        <3>1. Larger(load, 1) \in Nat /\ Larger(load, 1) <= load + 1
            BY DEF Larger
        <3> DEFINE l == Larger(load, 1)
                   m == Larger(hw.load, 1)
        <3>2. c + (l - (Delay + (LATENCY + 2)))
                 = (LeftBehind(k) - Behind(k)) + (l - load) - (Delay + (LATENCY + 2))
            BY <3>1, <2>2, <1>3, BoundAssumption
        <3>3. LeftBehind(k) - Behind(k) <= 0 /\ l - load <= 1
              /\ LeftBehind(k) - Behind(k) \in Int /\ l - load \in Int
            BY <3>1, <2>2, <2>3
        <3>4. (LeftBehind(k) - Behind(k)) + (l - load) - (Delay + (LATENCY + 2))
                 <= 1 - (Delay + (LATENCY + 2))
            BY <3>3, <1>3, BoundAssumption
        <3>5. 1 - (Delay + (LATENCY + 2)) <= m - hw.elapsed - Delay
            BY <1>3, BoundAssumption
        <3>6. \A x, y, z \in Int : x <= y /\ y <= z => x <= z
            OBVIOUS
        <3>7. /\ (LeftBehind(k) - Behind(k)) + (l - load) - (Delay + (LATENCY + 2)) \in Int
              /\ 1 - (Delay + (LATENCY + 2)) \in Int /\ m - hw.elapsed - Delay \in Int
            BY <3>3, <1>3, BoundAssumption
        <3>8. (LeftBehind(k) - Behind(k)) + (l - load) - (Delay + (LATENCY + 2))
                 <= m - hw.elapsed - Delay
            BY <3>4, <3>5, <3>6, <3>7
        <3> QED BY <3>2, <3>8, Zenon DEF Lag
    <2>8. c \in Int
        BY <2>2
    <2> HIDE DEF c
    <2>9. Carried(k, k - 1, c)
        BY <2>4, <2>5, <2>6, <2>7, <1>11, <1>12, Zenon DEF Carried
    <2> QED BY <2>8, <2>9 DEF c
<1>14. ASSUME NEW j \in 1 .. Len(active')
       PROVE  \E i \in 1 .. Len(active) : \E c \in Int : Carried(i, j, c)
    <2>1. j + 1 \in 2 .. Len(active) /\ j + 1 \in 1 .. Len(active) /\ (j + 1) - 1 = j
        BY <1>2
    <2>2. Carried(j + 1, (j + 1) - 1, LeftBehind(j + 1) - load - Behind(j + 1))
          /\ LeftBehind(j + 1) - load - Behind(j + 1) \in Int
        BY <2>1, <1>13
    <2> QED BY <2>1, <2>2
<1> QED BY <1>6, <1>11, <1>14

\* What holds of the fired timers, from one state to the next.
LEMMA StillNotEarly ==
    ASSUME TypeOK, NeverEarly, NEW d \in Nat, stops' = stops + d, left' \in [Timer -> Int],
           overdue' \in [Timer -> Nat],
           \A u \in Timer : state'[u] \in {"FIRED", "CALLBACK"} =>
              \/ /\ state[u] \in {"FIRED", "CALLBACK"}
                 /\ left'[u] = left[u] /\ overdue'[u] = overdue[u]
              \/ left'[u] <= overdue'[u] + (stops + d)
    PROVE  NeverEarly'
<1>1. stops \in Nat
    BY TypeFacts
<1>2. ASSUME NEW u \in Timer, state'[u] \in {"FIRED", "CALLBACK"}
      PROVE  left'[u] <= overdue'[u] + (stops + d)
    <2>1. CASE left'[u] <= overdue'[u] + (stops + d)
        BY <2>1
    <2>2. CASE /\ state[u] \in {"FIRED", "CALLBACK"}
               /\ left'[u] = left[u] /\ overdue'[u] = overdue[u]
        <3>1. left[u] <= overdue[u] + stops * 1
            BY <2>2 DEF NeverEarly, HAL_TIMER_LOAD_DELTA
        <3>2. left[u] \in Int /\ overdue[u] \in Nat
            BY DEF TypeOK
        <3>3. left[u] <= overdue[u] + (stops + d)
            BY <3>1, <3>2, <1>1
        <3> QED BY <3>3, <2>2, Zenon
    <2> QED BY <2>1, <2>2, <1>2
<1>3. (stops + d) * 1 = stops + d
    BY <1>1
<1> QED BY <1>2, <1>3 DEF NeverEarly, HAL_TIMER_LOAD_DELTA

\* hwtimer_start keeps the times right.
LEMMA StartTimes ==
    ASSUME IInv, TInv, IInv', NEW t \in Timer, NEW ticks \in Ticks, hwtimer_start(t, ticks)
    PROVE  TInv'
<1>1. TypeOK /\ NotEarlyYet /\ NotLateYet /\ NeverEarly
    BY DEF TInv
<1>2. active' \in Seq(Timer) /\ fired' \in Seq(Timer) /\ state' \in [Timer -> TimerState]
      /\ irq' \in {"idle", "entered", "in_callback"}
    BY DEF IInv, Shape
<1>3. /\ time' \in [Timer -> Nat] /\ Served'
      /\ \A j \in 1 .. Len(active') :
            Fresh(j) \/ \E i \in 1 .. Len(active) : \E c \in Int : Carried(i, j, c)
    <2>1. CASE StartFirst(t, ticks)
        BY <2>1, StartFirstTimes
    <2>2. CASE StartHead(t, ticks)
        BY <2>2, <1>2, StartHeadTimes
    <2>3. CASE StartBehind(t, ticks)
        BY <2>3, <1>2, StartBehindTimes
    <2> QED BY <2>1, <2>2, <2>3 DEF hwtimer_start
<1>4. hw' \in [on : BOOLEAN, load : Nat, elapsed : Nat, taken : BOOLEAN]
    <2>1. hw' = hw \/ hw' = Start(ticks)
        BY DEF hwtimer_start, StartFirst, StartHead, StartBehind
    <2>2. ticks \in Nat
        BY <1>1, StartKeeps
    <2>3. [on |-> TRUE, load |-> ticks, elapsed |-> 0, taken |-> FALSE]
             \in [on : BOOLEAN, load : Nat, elapsed : Nat, taken : BOOLEAN]
        BY <2>2
    <2>4. Start(ticks) \in [on : BOOLEAN, load : Nat, elapsed : Nat, taken : BOOLEAN]
        BY <2>3 DEF Start
    <2>5. hw \in [on : BOOLEAN, load : Nat, elapsed : Nat, taken : BOOLEAN]
        BY <1>1 DEF TypeOK
    <2> QED BY <2>1, <2>4, <2>5, Zenon
<1>5. /\ state' = [state EXCEPT ![t] = "ACTIVE"]
      /\ left' \in [Timer -> Int] /\ overdue' \in [Timer -> Nat] /\ stops' = stops
      /\ \A u \in Timer : u # t => left'[u] = left[u] /\ overdue'[u] = overdue[u]
    BY <1>1, StartKeeps
<1>6. TypeOK'
    BY <1>1, <1>2, <1>3, <1>4, <1>5 DEF TypeOK
<1>7. NotEarlyYet' /\ NotLateYet'
    BY <1>1, <1>3, <1>6, Promises
<1>8. NeverEarly'
    <2>1. stops' = stops + 0 /\ 0 \in Nat
        BY <1>1, <1>5, TypeFacts
    <2>2. ASSUME NEW u \in Timer, state'[u] \in {"FIRED", "CALLBACK"}
          PROVE  /\ state[u] \in {"FIRED", "CALLBACK"}
                 /\ left'[u] = left[u] /\ overdue'[u] = overdue[u]
        <3>1. u # t /\ state'[u] = state[u]
            BY <2>2, <1>1, <1>5 DEF TypeOK
        <3> QED BY <3>1, <2>2, <1>5
    <2> QED BY <2>1, <2>2, <1>1, <1>5, StillNotEarly
<1> QED BY <1>3, <1>6, <1>7, <1>8 DEF TInv

\* hwtimer_stop keeps them right.
LEMMA StopTimes ==
    ASSUME IInv, TInv, IInv', NEW t \in Timer, hwtimer_stop(t)
    PROVE  TInv'
<1>1. TypeOK /\ Served /\ NotEarlyYet /\ NotLateYet /\ NeverEarly /\ ListsAgree
    BY DEF TInv, IInv
<1>2. active' \in Seq(Timer) /\ fired' \in Seq(Timer) /\ state' \in [Timer -> TimerState]
      /\ irq' \in {"idle", "entered", "in_callback"}
    BY DEF IInv, Shape
<1>3. /\ stops \in Nat /\ stops' = stops + 1 /\ stops' \in 0 .. MaxStops /\ irq' = irq
      /\ \A u \in Timer : u # t => left'[u] = left[u] /\ overdue'[u] = overdue[u]
      /\ left' \in [Timer -> Int] /\ overdue' \in [Timer -> Nat]
      /\ state' = [state EXCEPT ![t] = "ALLOC"]
    BY <1>1, StopKeeps
<1>4. /\ time' \in [Timer -> Nat] /\ Served'
      /\ hw' \in [on : BOOLEAN, load : Nat, elapsed : Nat, taken : BOOLEAN]
      /\ \A j \in 1 .. Len(active') : \E i \in 1 .. Len(active) : \E c \in Int : Carried(i, j, c)
    <2>1. CASE state[t] = "ACTIVE" /\ StopHead(t)
        <3>1. active # <<>> /\ active \in Seq(Timer) /\ Len(active) \in Nat
            BY <2>1, <1>1, ActiveTimers, TypeFacts DEF TypeOK
        <3>2. CASE Len(active) = 1
            <4>1. hw' = Off /\ time' = [time EXCEPT ![t] = 0] /\ active' = Tail(active)
                BY <2>1, <3>2 DEF StopHead
            <4>2. Len(active') = 0
                BY <3>1, <3>2, <4>1
            <4>3. time' \in [Timer -> Nat]
                BY <4>1, <1>1 DEF TypeOK
            <4>4. hw' = [on |-> FALSE, load |-> 0, elapsed |-> 0, taken |-> FALSE]
                BY <4>1 DEF Off
            <4>5. stops' >= 1
                BY <1>3
            <4>6. ~ hw'.on /\ ~ hw'.taken
                BY <4>4
            <4>7. Served'
                BY <4>5, <4>6 DEF Served
            <4> QED BY <4>2, <4>3, <4>4, <4>7
        <3>3. CASE Len(active) # 1
            <4>1. SuccessorInherits \/ SuccessorsCatchUp
                BY <2>1, <3>1, <3>3, HeadGoes
            <4>2. /\ time' \in [Timer -> Nat] /\ Served'
                  /\ \A j \in 1 .. Len(active') : \E i \in 1 .. Len(active) : \E c \in Int : Carried(i, j, c)
                <5>1. CASE SuccessorInherits
                    BY <5>1, <2>1, <3>1, <3>3, <1>2, InheritTimes
                <5>2. CASE SuccessorsCatchUp
                    BY <5>2, <2>1, <3>1, <3>3, <1>2, CatchUpTimes
                <5> QED BY <4>1, <5>1, <5>2
            <4>3. hw' = Start(time'[active[2]]) /\ active[2] \in Timer
                <5>1. hw' = Start(time'[active[2]]) /\ Len(active) >= 2
                      /\ \A k \in 1 .. Len(active) : active[k] \in Timer
                    BY <2>1, <3>1, <3>3, HeadGoes
                <5> QED BY <5>1, <3>1
            <4>4. PICK load \in Nat : load = time'[active[2]]
                BY <4>2, <4>3
            <4>5. hw' = [on |-> TRUE, load |-> load, elapsed |-> 0, taken |-> FALSE]
                BY <4>3, <4>4 DEF Start
            <4> QED BY <4>2, <4>5
        <3> QED BY <3>2, <3>3
    <2>2. CASE StopFollower(t)
        <3>1. hw' = hw
            BY <2>2 DEF StopFollower
        <3> QED BY <2>2, <3>1, <1>1, <1>2, StopFollowerTimes DEF TypeOK
    <2>3. CASE state[t] = "FIRED" /\ StopFired(t)
        <3>1. hw' = hw
            BY <2>3 DEF StopFired
        <3> QED BY <2>3, <3>1, <1>1, StopFiredTimes DEF TypeOK
    <2> QED BY <2>1, <2>2, <2>3 DEF hwtimer_stop
<1>5. TypeOK'
    BY <1>2, <1>3, <1>4 DEF TypeOK
<1>6. NotEarlyYet' /\ NotLateYet'
    BY <1>1, <1>4, <1>5, Promises
<1>7. NeverEarly'
    <2>1. ASSUME NEW u \in Timer, state'[u] \in {"FIRED", "CALLBACK"}
          PROVE  /\ state[u] \in {"FIRED", "CALLBACK"}
                 /\ left'[u] = left[u] /\ overdue'[u] = overdue[u]
        <3>1. u # t /\ state'[u] = state[u]
            BY <2>1, <1>1, <1>3 DEF TypeOK
        <3> QED BY <3>1, <2>1, <1>3
    <2>2. 1 \in Nat
        OBVIOUS
    <2> QED BY <2>1, <2>2, <1>1, <1>3, StillNotEarly
<1> QED BY <1>4, <1>5, <1>6, <1>7 DEF TInv

-----------------------------------------------------------------------------
(***************************************************************************)
(* The handler.                                                            *)
(***************************************************************************)

\* The timers that have expired are the first of the list.
LEMMA ExpiredFirst ==
    ASSUME TypeOK, HeadArmed, active # <<>>
    PROVE  /\ Cardinality(Expired) \in 1 .. Len(active)
           /\ \A i \in 1 .. Len(active) : Behind(i) <= Missed <=> i <= Cardinality(Expired)
<1>1. Len(active) \in Nat /\ Len(active) >= 1 /\ Missed \in Nat
    BY TypeFacts, MissedFacts
<1>2. /\ \A i : i \in Expired <=> i \in 1 .. Len(active) /\ Behind(i) <= Missed
      /\ Expired \subseteq 1 .. Len(active)
    BY DEF Expired
<1>3. \A x \in Expired : \A y \in 1 .. x : y \in Expired
    <2>1. ASSUME NEW x \in Expired, NEW y \in 1 .. x PROVE y \in Expired
        <3>1. x \in 1 .. Len(active) /\ y \in 1 .. Len(active) /\ y <= x /\ Behind(x) <= Missed
              /\ x \in 0 .. Len(active) /\ y \in 0 .. Len(active)
            BY <2>1, <1>1, <1>2
        <3>2. Behind(y) <= Behind(x) /\ Behind(y) \in Nat /\ Behind(x) \in Nat
            BY <3>1, TypeFacts
        <3>3. Behind(y) <= Missed
            BY <3>1, <3>2, <1>1
        <3> QED BY <3>1, <3>3, <1>2
    <2> QED BY <2>1
<1>4. /\ Cardinality(Expired) \in 0 .. Len(active) - 1 + 1
      /\ \A y \in 1 .. Len(active) : y \in Expired <=> y < 1 + Cardinality(Expired)
    <2>1. 1 \in Nat /\ 1 <= Len(active) + 1
        BY <1>1
    <2> QED BY <2>1, <1>1, <1>2, <1>3, FirstOnes
<1>5. 1 \in Expired
    <2>1. 1 \in 0 .. Len(active) /\ 1 \in 1 .. Len(active)
        BY <1>1
    <2>2. Behind(1) = 0
        BY <2>1, TypeFacts
    <2> QED BY <2>1, <2>2, <1>1, <1>2
<1>6. PICK n \in Nat : n = Cardinality(Expired)
    BY <1>1, <1>4
<1>7. n \in 1 .. Len(active)
    <2>1. 1 \in 1 .. Len(active) /\ 1 < 1 + n
        BY <1>1, <1>4, <1>5, <1>6
    <2> QED BY <2>1, <1>1, <1>4, <1>6
<1>8. ASSUME NEW i \in 1 .. Len(active) PROVE Behind(i) <= Missed <=> i <= n
    <2>1. i \in Expired <=> i < 1 + n
        BY <1>4, <1>6
    <2>2. i < 1 + n <=> i <= n
        BY <1>1
    <2> QED BY <2>1, <2>2, <1>2
<1> QED BY <1>6, <1>7, <1>8

\* What the handler finds: the expiry of the head has come, or is the next tick
\* away because a stop has taken the interrupt from under it.
LEMMA HandlerFinds ==
    ASSUME TypeOK, Served, HeadArmed, hwtimer_handler
    PROVE  /\ active # <<>> /\ Hurried \in Nat /\ Hurried <= stops
           /\ Missed + (hw.load - hw.elapsed) + Hurried <= stops
           /\ hw.load \in Nat /\ hw.elapsed \in Nat /\ Missed \in Nat /\ stops \in Nat
           /\ 0 - Missed <= Larger(hw.load, 1) - hw.elapsed
<1>1. active # <<>> /\ irq = "entered" /\ ~ (time[Head(active)] > hw.elapsed + 1)
    BY DEF hwtimer_handler, Spurious, HAL_TIMER_LOAD_DELTA
<1>2. /\ hw.load \in Nat /\ hw.elapsed \in Nat /\ stops \in Nat
      /\ Hurried \in Nat /\ Hurried <= stops
    BY TypeFacts, HurriedFacts
<1>3. /\ Head(active) = active[1] /\ time[active[1]] = hw.load /\ Missed \in Nat
      /\ Missed = IF hw.elapsed > hw.load THEN hw.elapsed - hw.load ELSE 0
    BY <1>1, MissedFacts
<1>4. hw.load <= hw.elapsed + 1
    BY <1>1, <1>2, <1>3
<1>5. Missed + (hw.load - hw.elapsed) + Hurried <= stops
    <2>1. CASE hw.taken
        <3>1. hw.elapsed >= hw.load
            <4>1. hw.elapsed >= Larger(hw.load, 2)
                BY <2>1, <1>2, RawFacts DEF Served
            <4> QED BY <4>1, <1>2 DEF Larger
        <3>2. Missed + (hw.load - hw.elapsed) = 0
            BY <3>1, <1>2, <1>3
        <3> QED BY <3>2, <1>2
    <2>2. CASE ~ hw.taken
        <3>1. Hurried = stops - 1
            BY <2>2, <1>1 DEF Hurried
        <3>2. Missed + (hw.load - hw.elapsed) <= 1 /\ Missed + (hw.load - hw.elapsed) \in Int
            BY <1>2, <1>3, <1>4
        <3> QED BY <3>1, <3>2, <1>2
    <2> QED BY <2>1, <2>2
<1>6. 0 - Missed <= Larger(hw.load, 1) - hw.elapsed
    BY <1>2, <1>3 DEF Larger
<1> QED BY <1>1, <1>2, <1>3, <1>5, <1>6

\* hwtimer_handler keeps the times right: the timers that are due have waited, and
\* those that stay are counted from the end of the handler.
LEMMA HandlerTimes ==
    ASSUME IInv, TInv, IInv', hwtimer_handler
    PROVE  TInv'
<1>1. TypeOK /\ Served /\ NotEarlyYet /\ NotLateYet /\ NeverEarly /\ ListsAgree /\ HeadArmed
    BY DEF TInv, IInv
<1>2. active' \in Seq(Timer) /\ fired' \in Seq(Timer) /\ state' \in [Timer -> TimerState]
      /\ irq' \in {"idle", "entered", "in_callback"}
    BY DEF IInv, Shape
<1>3. /\ active # <<>> /\ Hurried \in Nat /\ Hurried <= stops
      /\ Missed + (hw.load - hw.elapsed) + Hurried <= stops
      /\ hw.load \in Nat /\ hw.elapsed \in Nat /\ Missed \in Nat /\ stops \in Nat
      /\ 0 - Missed <= Larger(hw.load, 1) - hw.elapsed
    BY <1>1, HandlerFinds
<1> DEFINE n      == Cardinality(Expired)
           due    == SubSeq(active, 1, n)
           rest   == SubSeq(active, n + 1, Len(active))
           states == [t \in Timer |-> IF t \in ToSet(due) THEN "FIRED" ELSE state[t]]
           over   == Missed - Behind(n)
<1>4. /\ Call(due, states) /\ active' = rest
      /\ time' = [t \in Timer |-> IF t \in ToSet(due) THEN 0
                                  ELSE IF rest # <<>> /\ t = Head(rest)
                                       THEN time[t] - over ELSE time[t]]
      /\ hw' = IF rest = <<>> THEN Off ELSE Start(time'[Head(rest)])
      /\ stops' = stops /\ left' = left /\ overdue' = overdue
    BY DEF hwtimer_handler
<1>5. /\ n \in 1 .. Len(active) /\ Len(active) \in Nat
      /\ \A i \in 1 .. Len(active) : Behind(i) <= Missed <=> i <= n
    BY <1>1, <1>3, ExpiredFirst, TypeFacts
<1> HIDE DEF n
<1>6. /\ due \in Seq(Timer) /\ IsInjective(due) /\ ToSet(due) \subseteq ToSet(active)
      /\ Len(due) = n /\ Len(rest) = Len(active) - n
      /\ \A j \in 1 .. n : due[j] = active[j]
      /\ \A j \in 1 .. Len(active) - n : rest[j] = active[n + j]
    <2>1. n \in 0 .. Len(active) /\ active \in Seq(Timer) /\ IsInjective(active)
        BY <1>1, <1>5 DEF ListsAgree, TypeOK
    <2>2. Parts(active, due, rest, Timer) /\ Len(due) = n
        BY <2>1, SplitKeepsOrder
    <2> HIDE DEF due, rest
    <2>3. Len(rest) \in Nat
        <3>1. rest \in Seq(Timer)
            BY <2>2 DEF Parts
        <3> QED BY <3>1, Elements
    <2>4. Len(rest) = Len(active) - n
        BY <2>2, <2>3, <1>5 DEF Parts
    <2> QED BY <2>2, <2>4 DEF Parts
<1> HIDE DEF due, rest, over
<1>7. \A t \in Timer : t \in ToSet(due) => \E i \in 1 .. n : active[i] = t
    BY <1>6, Elements DEF ByElements
<1>8. \A i \in 1 .. n : active[i] \in ToSet(due)
    BY <1>6, Elements DEF ByElements
<1>9. /\ \A t \in Timer : state[t] # "FIRED"
      /\ states \in [Timer -> TimerState]
      /\ ToSet(due) = {t \in Timer : states[t] = "FIRED"}
    <2>1. irq = "entered"
        BY DEF hwtimer_handler
    <2>2. fired = <<>>
        BY <2>1 DEF IInv, FiredInCallback
    <2>3. \A t \in Timer : state[t] # "FIRED"
        BY <2>2, <1>1 DEF ListsAgree, ToSet
    <2>4. states \in [Timer -> TimerState]
        BY <1>1 DEF TypeOK, TimerState
    <2>5. ToSet(due) \subseteq Timer
        BY <1>1, <1>6 DEF ListsAgree
    <2> QED BY <2>3, <2>4, <2>5
<1>10. /\ irq' # "entered"
       /\ \A t \in Timer : state'[t] \in {"FIRED", "CALLBACK"} =>
                              states[t] \in {"FIRED", "CALLBACK"}
    <2> HIDE DEF states
    <2> QED BY <1>4, <1>6, <1>9, CallInv
<1>11. NeverEarly'
    <2>1. ASSUME NEW u \in Timer, state'[u] \in {"FIRED", "CALLBACK"}
          PROVE  \/ /\ state[u] \in {"FIRED", "CALLBACK"}
                    /\ left'[u] = left[u] /\ overdue'[u] = overdue[u]
                 \/ left'[u] <= overdue'[u] + (stops + 0)
        <3>1. CASE u \in ToSet(due)
            <4>1. PICK i \in 1 .. n : active[i] = u
                BY <3>1, <1>7
            <4>2. i \in 1 .. Len(active) /\ i \in 0 .. Len(active) /\ i <= n
                BY <1>5
            <4>3. left[u] <= Behind(i) + overdue[u] + Lead /\ Behind(i) <= Missed
                BY <4>1, <4>2, <1>1, <1>5 DEF NotEarlyYet
            <4>4. Behind(i) \in Nat /\ left[u] \in Int /\ overdue[u] \in Nat
                BY <4>2, <1>1, TypeFacts DEF TypeOK
            <4>5. Lead = hw.load - hw.elapsed + Hurried
                BY DEF Lead
            <4>6. left[u] <= overdue[u] + (stops + 0)
                <5>1. PICK l \in Int, b \in Nat, o \in Nat, lead \in Int :
                         l = left[u] /\ b = Behind(i) /\ o = overdue[u] /\ lead = Lead
                    BY <4>4, <1>1, NumberTypes
                <5>2. l <= b + o + lead /\ b <= Missed
                    BY <5>1, <4>3, Zenon
                <5>3. Missed + lead <= stops
                    BY <5>1, <4>5, <1>3
                <5>4. l <= o + (stops + 0)
                    BY <5>2, <5>3, <1>3
                <5> QED BY <5>1, <5>4, Zenon
            <4> QED BY <4>6, <1>4
        <3>2. CASE u \notin ToSet(due)
            <4>1. states[u] = state[u]
                BY <3>2
            <4> QED BY <4>1, <2>1, <1>4, <1>10
        <3> QED BY <3>1, <3>2
    <2>2. /\ stops' = stops + 0 /\ 0 \in Nat
          /\ left' \in [Timer -> Int] /\ overdue' \in [Timer -> Nat]
        BY <1>1, <1>3, <1>4 DEF TypeOK
    <2> QED BY <2>1, <2>2, <1>1, StillNotEarly
<1>12. CASE n = Len(active)
    <2>1. rest = <<>> /\ Len(active') = 0
        <3>1. Len(active') = 0
            BY <1>4, <1>5, <1>6, <1>12
        <3> QED BY <3>1, <1>2, <1>4, EmptySeq
    <2>2. hw' = [on |-> FALSE, load |-> 0, elapsed |-> 0, taken |-> FALSE]
        BY <2>1, <1>4 DEF Off
    <2>3. time' \in [Timer -> Nat]
        <3>1. \A u \in Timer : time'[u] = IF u \in ToSet(due) THEN 0 ELSE time[u]
            BY <2>1, <1>4
        <3>2. \A u \in Timer : time[u] \in Nat
            BY <1>1 DEF TypeOK
        <3>3. \A u \in Timer : time'[u] \in Nat
            BY <3>1, <3>2
        <3> QED BY <3>3, <1>4
    <2>4. TypeOK'
        BY <2>2, <2>3, <1>1, <1>2, <1>4 DEF TypeOK
    <2>5. Served'
        BY <2>2, <1>10 DEF Served
    <2>6. NotEarlyYet' /\ NotLateYet'
        BY <2>1 DEF NotEarlyYet, NotLateYet
    <2> QED BY <2>4, <2>5, <2>6, <1>11 DEF TInv
<1>13. CASE n # Len(active)
    <2>1. /\ n + 1 \in 1 .. Len(active) /\ n + 1 \in 0 .. Len(active) /\ n \in 0 .. Len(active)
          /\ ~ (n + 1 <= 1) /\ (n + 1) - 1 = n /\ 1 \in 1 .. Len(active) - n
          /\ Len(active') = Len(active) - n /\ ~ (n + 1 <= n)
        BY <1>4, <1>5, <1>6, <1>13
    <2>2. rest # <<>> /\ Head(rest) = active[n + 1]
        <3>1. Len(rest) > 0 /\ rest[1] = active[n + 1]
            BY <2>1, <1>5, <1>6
        <3>2. rest \in Seq(Timer)
            BY <1>2, <1>4
        <3> QED BY <3>1, <3>2, EmptySeq
    <2>3. /\ Behind(n + 1) = Behind(n) + time[active[n + 1]] /\ Behind(n) \in Nat
          /\ Behind(n + 1) \in Nat /\ time[active[n + 1]] \in Nat
          /\ Behind(n + 1) > Missed
        <3>1. Behind(n + 1) = Behind((n + 1) - 1) + time[active[n + 1]]
            BY <2>1, <1>1, TypeFacts
        <3>2. ~ (Behind(n + 1) <= Missed)
            BY <2>1, <1>5
        <3>3. Behind(n) \in Nat /\ Behind(n + 1) \in Nat /\ time[active[n + 1]] \in Nat
            BY <2>1, <1>1, TypeFacts
        <3> QED BY <3>1, <3>2, <3>3, <2>1, <1>3
    <2> DEFINE load == Behind(n + 1) - Missed
    <2>4. load \in Nat /\ load >= 1 /\ time[active[n + 1]] - over = load
        BY <2>3, <1>3 DEF over
    <2> HIDE DEF load
    <2>5. /\ \A i \in 1 .. Len(active) : active[i] \in Timer
          /\ \A i, k \in 1 .. Len(active) : active[i] = active[k] => i = k
          /\ \A i \in n + 1 .. Len(active) : active[i] \notin ToSet(due)
        <3>1. /\ \A i \in 1 .. Len(active) : active[i] \in Timer
              /\ \A i, k \in 1 .. Len(active) : active[i] = active[k] => i = k
            BY <1>1, ActiveTimers
        <3>2. ASSUME NEW i \in n + 1 .. Len(active), active[i] \in ToSet(due) PROVE FALSE
            <4>1. i \in 1 .. Len(active) /\ \A k \in 1 .. n : k # i /\ k \in 1 .. Len(active)
                BY <1>5
            <4>2. PICK k \in 1 .. n : active[k] = active[i]
                BY <4>1, <3>1, <3>2, <1>7
            <4> QED BY <4>1, <4>2, <3>1
        <3> QED BY <3>1, <3>2
    <2>6. /\ time' \in [Timer -> Nat] /\ time'[active[n + 1]] = load
          /\ \A i \in n + 2 .. Len(active) : time'[active[i]] = time[active[i]]
        <3>1. \A u \in Timer : time'[u] = IF u \in ToSet(due) THEN 0
                                          ELSE IF u = active[n + 1] THEN time[u] - over ELSE time[u]
            BY <2>2, <1>4
        <3>2. \A u \in Timer : time[u] \in Nat
            BY <1>1 DEF TypeOK
        <3>3. ASSUME NEW u \in Timer PROVE time'[u] \in Nat
            <4>1. u = active[n + 1] => time[u] - over \in Nat
                BY <2>4
            <4> QED BY <4>1, <3>1, <3>2
        <3>4. time' \in [Timer -> Nat]
            BY <3>3, <1>4
        <3>5. time'[active[n + 1]] = load
            <4>1. n + 1 \in n + 1 .. Len(active)
                BY <2>1, <1>5
            <4> QED BY <4>1, <3>1, <2>1, <2>4, <2>5
        <3>6. ASSUME NEW i \in n + 2 .. Len(active) PROVE time'[active[i]] = time[active[i]]
            <4>1. i \in n + 1 .. Len(active) /\ i \in 1 .. Len(active) /\ i # n + 1
                BY <1>5
            <4>2. active[i] \in Timer /\ active[i] \notin ToSet(due) /\ active[i] # active[n + 1]
                BY <4>1, <2>1, <2>5
            <4> QED BY <4>2, <3>1
        <3> QED BY <3>4, <3>5, <3>6
    <2>7. Shifted(n + 1, Len(active), 0 - n, 0 - Behind(n + 1))
        <3>1. ASSUME NEW k \in n + 2 .. Len(active) PROVE time'[active'[k + (0 - n)]] = time[active[k]]
            <4>1. k - n \in 1 .. Len(active) - n /\ n + (k - n) = k /\ k + (0 - n) = k - n
                BY <1>5
            <4>2. active'[k - n] = active[k]
                <5>1. active'[k - n] = active[n + (k - n)]
                    BY <4>1, <1>4, <1>6
                <5> QED BY <5>1, <4>1
            <4> QED BY <4>1, <4>2, <2>6
        <3>2. Sum(active', time', (n + 1) + (0 - n)) = Behind(n + 1) + (0 - Behind(n + 1))
            <4>1. 1 \in 0 .. Len(active') /\ (n + 1) + (0 - n) = 1
                BY <2>1, <1>5
            <4>2. Behind(n + 1) + (0 - Behind(n + 1)) = 0
                BY <2>3
            <4>3. Sum(active', time', 1) = 0
                BY <4>1, <2>6, <1>2, NextSums
            <4> QED BY <4>1, <4>2, <4>3
        <3>3. /\ n + 1 \in Nat /\ n + 1 >= 1 /\ Len(active) \in Nat /\ Len(active) <= Len(active)
              /\ 0 - n \in Int /\ (n + 1) + (0 - n) >= 1 /\ Len(active) + (0 - n) <= Len(active')
              /\ 0 - Behind(n + 1) \in Int
              /\ \A k \in (n + 1) + 1 .. Len(active) : time'[active'[k + (0 - n)]] = time[active[k]]
            <4>1. (n + 1) + 1 = n + 2
                BY <1>5
            <4> QED BY <4>1, <3>1, <2>1, <2>3, <1>5
        <3> QED BY <3>2, <3>3, <2>6, <1>1, <1>2, Shift
    <2>8. hw' = Start(load)
        BY <2>2, <2>6, <1>4
    <2>9. TypeOK'
        <3>1. hw' = [on |-> TRUE, load |-> load, elapsed |-> 0, taken |-> FALSE]
            BY <2>8 DEF Start
        <3>2. hw' \in [on : BOOLEAN, load : Nat, elapsed : Nat, taken : BOOLEAN]
            BY <3>1, <2>4
        <3> QED BY <3>2, <2>6, <1>1, <1>2, <1>4 DEF TypeOK
    <2>10. Served' /\ Lead' = load + stops /\ Lag' = load - Delay /\ Delay \in Nat
        <3>1. stops' \in Nat /\ irq' # "entered"
            BY <1>3, <1>4, <1>10
        <3>2. /\ Served' /\ Lead' = load + Hurried' /\ Lag' = Larger(load, 1) - Delay'
              /\ Hurried' = (IF irq' = "entered" THEN stops' - 1 ELSE stops')
            BY <3>1, <2>4, <2>8, Restarted
        <3>3. Hurried' = stops /\ Delay' = Delay
            BY <3>1, <3>2, <1>4 DEF Delay
        <3>4. Larger(load, 1) = load
            BY <2>4 DEF Larger
        <3>5. Lead' = load + stops /\ Lag' = load - Delay
            BY <3>2, <3>3, <3>4, Zenon
        <3> QED BY <3>2, <3>5, <1>1, TypeFacts
    <2>11. (0 - Behind(n + 1)) + (load + stops) >= Lead
        <3>1. (0 - Behind(n + 1)) + (load + stops) = stops - Missed
            BY <2>3, <1>3 DEF load
        <3>2. stops - Missed >= hw.load - hw.elapsed + Hurried
            BY <1>3
        <3> QED BY <3>1, <3>2, Zenon DEF Lead
    <2>12. (0 - Behind(n + 1)) + (load - Delay) <= Lag
        <3>1. (0 - Behind(n + 1)) + (load - Delay) = (0 - Missed) - Delay
            BY <2>3, <2>10, <1>3 DEF load
        <3>2. Larger(hw.load, 1) \in Nat
            BY <1>3 DEF Larger
        <3>3. (0 - Missed) - Delay <= Larger(hw.load, 1) - hw.elapsed - Delay
            BY <3>2, <2>10, <1>3
        <3> QED BY <3>1, <3>3, Zenon DEF Lag
    <2>13. ASSUME NEW j \in 1 .. Len(active')
           PROVE  \E i \in 1 .. Len(active) : \E c \in Int : Carried(i, j, c)
        <3>1. /\ n + j \in 1 .. Len(active) /\ n + j \in n + 1 .. Len(active)
              /\ (n + j) + (0 - n) = j /\ j \in 1 .. Len(active) - n
            BY <2>1, <1>5
        <3>2. active'[j] = active[n + j] /\ Sum(active', time', j) = Behind(n + j) + (0 - Behind(n + 1))
            <4>1. Sum(active', time', (n + j) + (0 - n)) = Behind(n + j) + (0 - Behind(n + 1))
                BY <3>1, <2>7 DEF Shifted
            <4> QED BY <4>1, <3>1, <1>4, <1>6
        <3>3. Carried(n + j, j, 0 - Behind(n + 1))
            BY <3>2, <2>10, <2>11, <2>12, <1>4, Zenon DEF Carried
        <3>4. 0 - Behind(n + 1) \in Int
            BY <2>3
        <3> QED BY <3>1, <3>3, <3>4
    <2>14. NotEarlyYet' /\ NotLateYet'
        BY <2>9, <2>13, <1>1, Promises
    <2> QED BY <2>9, <2>10, <2>14, <1>11 DEF TInv
<1> QED BY <1>12, <1>13

-----------------------------------------------------------------------------
(***************************************************************************)
(* The other steps, and the theorems.                                      *)
(***************************************************************************)

\* The return of a callback does.
LEMMA ReturnTimes ==
    ASSUME IInv, TInv, IInv', CallbackReturns
    PROVE  TInv'
<1>1. TypeOK /\ Served /\ NotEarlyYet /\ NotLateYet /\ NeverEarly /\ ListsAgree
    BY DEF TInv, IInv
<1>2. fired' \in Seq(Timer) /\ state' \in [Timer -> TimerState]
      /\ irq' \in {"idle", "entered", "in_callback"}
    BY DEF IInv, Shape
<1> DEFINE states == [t \in Timer |-> IF state[t] = "CALLBACK" THEN "ALLOC" ELSE state[t]]
<1>3. /\ Call(fired, states) /\ irq = "in_callback"
      /\ left' = [t \in Timer |-> IF state[t] = "CALLBACK" THEN 0 ELSE left[t]]
      /\ overdue' = [t \in Timer |-> IF state[t] = "CALLBACK" THEN 0 ELSE overdue[t]]
      /\ time' = time /\ active' = active /\ hw' = hw /\ stops' = stops
    BY DEF CallbackReturns
<1>4. states \in [Timer -> TimerState] /\ ToSet(fired) = {t \in Timer : states[t] = "FIRED"}
    BY <1>1 DEF TypeOK, TimerState, ListsAgree
<1> HIDE DEF states
<1>5. /\ irq' # "entered"
      /\ \A t \in Timer : state'[t] \in {"FIRED", "CALLBACK"} =>
                             states[t] \in {"FIRED", "CALLBACK"}
    BY <1>1, <1>3, <1>4, CallInv DEF ListsAgree, TypeOK
<1>6. left' \in [Timer -> Int] /\ overdue' \in [Timer -> Nat]
    BY <1>1, <1>3 DEF TypeOK
<1>7. TypeOK'
    BY <1>1, <1>2, <1>3, <1>6 DEF TypeOK
<1>8. Hurried' = Hurried /\ Delay' = Delay /\ Expiry' = Expiry
    BY <1>3, <1>5 DEF Hurried, Delay, Expiry, Register, HAL_TIMER_LOAD_DELTA
<1>9. Served'
    BY <1>1, <1>3, <1>5, <1>8 DEF Served
<1>10. Lead' = Lead /\ Lag' = Lag
    BY <1>3, <1>8 DEF Lead, Lag, Larger
<1>11. ASSUME NEW j \in 1 .. Len(active') PROVE Carried(j, j, 0)
    <2>1. j \in 1 .. Len(active) /\ j \in 0 .. Len(active)
        BY <1>3
    <2>2. active[j] \in Timer /\ state[active[j]] = "ACTIVE"
        BY <2>1, <1>1, ActiveTimers
    <2>3. left'[active[j]] = left[active[j]] /\ overdue'[active[j]] = overdue[active[j]]
        BY <2>2, <1>3
    <2>4. Behind(j) \in Nat /\ Behind(j) = Sum(active, time, j)
        BY <2>1, <1>1, TypeFacts
    <2>5. Sum(active, time, j) = Behind(j) + 0
        BY <2>4
    <2>6. Sum(active', time', j) = Behind(j) + 0
        BY <2>5, <1>3, Zenon
    <2>7. 0 + Lead >= Lead /\ 0 + Lag <= Lag
        BY <1>1, NumberTypes
    <2> QED BY <2>3, <2>6, <2>7, <1>3, <1>10, Zenon DEF Carried
<1>12. \A j \in 1 .. Len(active') : \E i \in 1 .. Len(active) : \E c \in Int : Carried(i, j, c)
    <2>1. 0 \in Int
        OBVIOUS
    <2> QED BY <2>1, <1>3, <1>11
<1>13. NotEarlyYet' /\ NotLateYet'
    BY <1>1, <1>7, <1>12, Promises
<1>14. NeverEarly'
    <2>1. ASSUME NEW u \in Timer, state'[u] \in {"FIRED", "CALLBACK"}
          PROVE  /\ state[u] \in {"FIRED", "CALLBACK"}
                 /\ left'[u] = left[u] /\ overdue'[u] = overdue[u]
        <3>1. states[u] \in {"FIRED", "CALLBACK"}
            BY <2>1, <1>5
        <3>2. state[u] # "CALLBACK" /\ state[u] = states[u]
            BY <3>1 DEF states
        <3> QED BY <3>1, <3>2, <1>3
    <2>2. stops' = stops + 0 /\ 0 \in Nat
        BY <1>1, <1>3, TypeFacts
    <2> QED BY <2>1, <2>2, <1>1, <1>6, StillNotEarly
<1> QED BY <1>7, <1>9, <1>13, <1>14 DEF TInv

\* A tick brings the expiry one tick nearer, of every active timer.
LEMMA TickTimes ==
    ASSUME IInv, TInv, Tick
    PROVE  TInv'
<1>1. TypeOK /\ Served /\ NotEarlyYet /\ NotLateYet /\ NeverEarly /\ ListsAgree
    BY DEF TInv, IInv
<1>2. /\ hw.on /\ hw.elapsed < Expiry + LATENCY
      /\ hw' = [hw EXCEPT !.elapsed = @ + 1]
      /\ left' = [t \in Timer |-> IF state[t] = "ACTIVE" THEN left[t] - 1 ELSE left[t]]
      /\ state' = state /\ time' = time /\ active' = active /\ fired' = fired /\ irq' = irq
      /\ stops' = stops /\ overdue' = overdue
    BY DEF Tick
<1>3. /\ hw'.on = hw.on /\ hw'.load = hw.load /\ hw'.taken = hw.taken
      /\ hw'.elapsed = hw.elapsed + 1
      /\ hw' \in [on : BOOLEAN, load : Nat, elapsed : Nat, taken : BOOLEAN]
    <2>1. hw \in [on : BOOLEAN, load : Nat, elapsed : Nat, taken : BOOLEAN]
        BY <1>1 DEF TypeOK
    <2>2. PICK e \in Nat : e = hw.elapsed
        BY <2>1
    <2>3. hw' = [hw EXCEPT !.elapsed = e + 1] /\ e + 1 \in Nat
        BY <1>2, <2>2
    <2>4. PICK f \in Nat : f = e + 1
        BY <2>3
    <2>5. hw' = [hw EXCEPT !.elapsed = f]
        BY <2>3, <2>4, Zenon
    <2>6. /\ hw'.on = hw.on /\ hw'.load = hw.load /\ hw'.taken = hw.taken
          /\ hw'.elapsed = f
          /\ hw' \in [on : BOOLEAN, load : Nat, elapsed : Nat, taken : BOOLEAN]
        BY <2>1, <2>5
    <2> QED BY <2>2, <2>4, <2>6, Zenon
<1>4. hw.load \in Nat /\ hw.elapsed \in Nat /\ stops \in Nat /\ Delay \in Nat
    BY <1>1, TypeFacts
<1>5. left' \in [Timer -> Int]
    BY <1>1, <1>2 DEF TypeOK
<1>6. TypeOK'
    BY <1>1, <1>2, <1>3, <1>5 DEF TypeOK
<1>7. Hurried' = Hurried /\ Delay' = Delay /\ Expiry' = Expiry /\ Expiry \in Nat
    <2>1. Hurried' = Hurried /\ Delay' = Delay
        BY <1>2, <1>3 DEF Hurried, Delay
    <2>2. Expiry' = Expiry
        BY <1>3 DEF Expiry, Register, HAL_TIMER_LOAD_DELTA
    <2>3. Expiry \in Nat
        BY <1>4, RawFacts DEF Larger
    <2> QED BY <2>1, <2>2, <2>3
<1>8. Served'
    <2>1. hw.elapsed + 1 <= Expiry + LATENCY
        BY <1>2, <1>4, <1>7, BoundAssumption
    <2>2. hw.taken => hw.on /\ hw.elapsed + 1 >= Expiry
        BY <1>1, <1>4, <1>7 DEF Served
    <2>3. irq = "entered" /\ ~ hw.taken => stops >= 1
        BY <1>1 DEF Served
    <2> QED BY <2>1, <2>2, <2>3, <1>2, <1>3, <1>7 DEF Served
<1>9. Lead' = Lead - 1 /\ Lag' = Lag - 1
    <2>1. Hurried \in Int /\ Larger(hw.load, 1) \in Nat
        BY <1>1, <1>4, NumberTypes DEF Larger
    <2>2. Lead' = hw.load - (hw.elapsed + 1) + Hurried
        BY <1>3, <1>7 DEF Lead
    <2>3. Larger(hw.load, 1)' = Larger(hw.load, 1)
        BY <1>3 DEF Larger
    <2>4. Lag' = Larger(hw.load, 1) - (hw.elapsed + 1) - Delay
        BY <2>3, <1>3, <1>7 DEF Lag
    <2>5. hw.load - (hw.elapsed + 1) + Hurried = Lead - 1
        BY <2>1, <1>4 DEF Lead
    <2>6. Larger(hw.load, 1) - (hw.elapsed + 1) - Delay = Lag - 1
        BY <2>1, <1>4 DEF Lag
    <2> QED BY <2>2, <2>4, <2>5, <2>6, Zenon
<1>10. ASSUME NEW j \in 1 .. Len(active) PROVE Fresh(j)
    <2>1. active[j] \in Timer /\ state[active[j]] = "ACTIVE" /\ j \in 0 .. Len(active)
        BY <1>1, ActiveTimers
    <2>2. left'[active[j]] = left[active[j]] - 1
        BY <2>1, <1>2
    <2>3. PICK l \in Int, o \in Nat, b \in Nat, lead \in Int, lag \in Int :
             /\ l = left[active[j]] /\ o = overdue[active[j]] /\ b = Behind(j)
             /\ lead = Lead /\ lag = Lag
        <3>1. left[active[j]] \in Int /\ overdue[active[j]] \in Nat
            BY <2>1, <1>1 DEF TypeOK
        <3>2. Behind(j) \in Nat /\ Lead \in Int /\ Lag \in Int
            BY <2>1, <1>1, TypeFacts, NumberTypes
        <3> QED BY <3>1, <3>2
    <2>4. l <= b + o + lead /\ b + lag <= l
        BY <2>3, <1>1, Zenon DEF NotEarlyYet, NotLateYet
    <2>5. l - 1 <= b + o + (lead - 1) /\ b + (lag - 1) <= l - 1
        BY <2>4
    <2>6. Sum(active', time', j) = b
        BY <2>3, <1>1, <1>2, TypeFacts
    <2> QED BY <2>2, <2>3, <2>5, <2>6, <1>2, <1>9, Zenon DEF Fresh
<1>11. NotEarlyYet' /\ NotLateYet'
    BY <1>1, <1>2, <1>6, <1>10, Promises
<1>12. NeverEarly'
    <2>1. ASSUME NEW u \in Timer, state'[u] \in {"FIRED", "CALLBACK"}
          PROVE  /\ state[u] \in {"FIRED", "CALLBACK"}
                 /\ left'[u] = left[u] /\ overdue'[u] = overdue[u]
        BY <2>1, <1>2
    <2>2. stops' = stops + 0 /\ 0 \in Nat /\ overdue' \in [Timer -> Nat]
        BY <1>1, <1>2, <1>4 DEF TypeOK
    <2> QED BY <2>1, <2>2, <1>1, <1>5, StillNotEarly
<1> QED BY <1>6, <1>8, <1>11, <1>12 DEF TInv

\* Nothing but the handler's progress, or the state of one timer, changes.
LEMMA QuietTimes ==
    ASSUME IInv, TInv,
           \/ \E t \in Timer : hwtimer_alloc(t) \/ hwtimer_free(t)
           \/ hal_timer_irq_handler \/ IgnoreIrq \/ UNCHANGED vars
    PROVE  TInv'
<1>1. TypeOK /\ Served /\ NotEarlyYet /\ NotLateYet /\ NeverEarly /\ ListsAgree
    BY DEF TInv, IInv
<1>2. /\ time' = time /\ active' = active /\ fired' = fired /\ stops' = stops
      /\ left' = left /\ overdue' = overdue
      /\ hw'.on = hw.on /\ hw'.load = hw.load /\ hw'.elapsed = hw.elapsed
      /\ hw' \in [on : BOOLEAN, load : Nat, elapsed : Nat, taken : BOOLEAN]
      /\ irq' \in {"idle", "entered", "in_callback"}
    BY <1>1 DEF hwtimer_alloc, hwtimer_free, hal_timer_irq_handler, IgnoreIrq, vars, TypeOK
<1>3. /\ state' \in [Timer -> TimerState]
      /\ \A u \in Timer : state'[u] \in {"FIRED", "CALLBACK"} => state'[u] = state[u]
    BY <1>1 DEF hwtimer_alloc, hwtimer_free, hal_timer_irq_handler, IgnoreIrq, vars, TypeOK,
                TimerState
<1>4. TypeOK'
    BY <1>1, <1>2, <1>3 DEF TypeOK
<1>5. hw.load \in Nat /\ hw.elapsed \in Nat /\ stops \in Nat
    BY <1>1, TypeFacts
<1>6. Expiry' = Expiry /\ Delay' = Delay /\ Larger(hw.load, 1)' = Larger(hw.load, 1)
    BY <1>2 DEF Expiry, Register, HAL_TIMER_LOAD_DELTA, Delay, Larger
<1>7. /\ hw'.taken /\ ~ hw.taken => hw.on /\ hw.elapsed >= Expiry
      /\ hw.taken => hw'.taken
      /\ irq' = "entered" /\ ~ hw'.taken => irq = "entered"
      /\ irq = "entered" /\ ~ hw.taken => irq' = "idle" \/ (irq' = irq /\ hw' = hw)
    BY <1>1 DEF hwtimer_alloc, hwtimer_free, hal_timer_irq_handler, IgnoreIrq, vars, Pending, TypeOK
<1>8. Served'
    BY <1>1, <1>2, <1>6, <1>7 DEF Served
<1>9. PICK h \in Int : h = Hurried' /\ h >= Hurried
    <2>1. Hurried' = (IF irq' = "entered" /\ ~ hw'.taken THEN stops - 1 ELSE stops)
        BY <1>2 DEF Hurried
    <2>2. Hurried = (IF irq = "entered" /\ ~ hw.taken THEN stops - 1 ELSE stops)
        BY DEF Hurried
    <2>3. irq' = "entered" /\ ~ hw'.taken => irq = "entered" /\ ~ hw.taken
        BY <1>7
    <2> QED BY <2>1, <2>2, <2>3, <1>5
<1>10. 0 + (hw.load - hw.elapsed + h) >= Lead
    <2>1. Hurried \in Int /\ h >= Hurried
        BY <1>1, <1>9, NumberTypes
    <2> QED BY <2>1, <1>5 DEF Lead
<1>11. Lead' = hw.load - hw.elapsed + h
    BY <1>2, <1>9 DEF Lead
<1>12. Lag' = Lag /\ 0 + Lag <= Lag
    <2>1. Lag' = Lag
        BY <1>2, <1>6 DEF Lag
    <2> QED BY <2>1, <1>1, NumberTypes
<1>13. ASSUME NEW j \in 1 .. Len(active') PROVE Carried(j, j, 0)
    <2>1. j \in 0 .. Len(active)
        BY <1>2
    <2>2. Behind(j) \in Nat /\ Behind(j) = Sum(active, time, j)
        BY <2>1, <1>1, TypeFacts
    <2>3. Sum(active, time, j) = Behind(j) + 0
        BY <2>2
    <2> QED BY <2>3, <1>2, <1>10, <1>11, <1>12, Zenon DEF Carried
<1>14. \A j \in 1 .. Len(active') : \E i \in 1 .. Len(active) : \E c \in Int : Carried(i, j, c)
    <2>1. 0 \in Int
        OBVIOUS
    <2> QED BY <2>1, <1>2, <1>13
<1>15. NotEarlyYet' /\ NotLateYet'
    BY <1>1, <1>4, <1>14, Promises
<1>16. NeverEarly'
    <2>1. stops' = stops + 0 /\ 0 \in Nat
        BY <1>2, <1>5
    <2>2. left' \in [Timer -> Int] /\ overdue' \in [Timer -> Nat]
        BY <1>1, <1>2 DEF TypeOK
    <2>3. ASSUME NEW u \in Timer, state'[u] \in {"FIRED", "CALLBACK"}
          PROVE  /\ state[u] \in {"FIRED", "CALLBACK"}
                 /\ left'[u] = left[u] /\ overdue'[u] = overdue[u]
        <3>1. state'[u] = state[u]
            BY <2>3, <1>3
        <3> QED BY <3>1, <2>3, <1>2
    <2> QED BY <2>1, <2>2, <2>3, <1>1, StillNotEarly
<1> QED BY <1>4, <1>8, <1>15, <1>16 DEF TInv

\* Init: no timer is active.
LEMMA InitTimes == Init => TInv
<1> SUFFICES ASSUME Init PROVE TInv
    OBVIOUS
<1>1. TypeOK
    BY BoundAssumption DEF Init, TypeOK, TimerState, Off
<1>2. Served
    BY DEF Init, Served, Off
<1>3. NotEarlyYet /\ NotLateYet
    <2>1. active = <<>> /\ Len(active) = 0
        BY DEF Init
    <2> QED BY <2>1 DEF NotEarlyYet, NotLateYet
<1>4. NeverEarly
    BY DEF Init, NeverEarly
<1> QED BY <1>1, <1>2, <1>3, <1>4 DEF TInv

\* Every step keeps the times right.
LEMMA NextTimes == IInv /\ TInv /\ [Next]_vars => TInv'
<1> SUFFICES ASSUME IInv, TInv, [Next]_vars PROVE TInv'
    OBVIOUS
<1>1. IInv'
    BY NextInv
<1>2. CASE \E t \in Timer, ticks \in Ticks : hwtimer_start(t, ticks)
    BY <1>1, <1>2, StartTimes
<1>3. CASE \E t \in Timer : hwtimer_stop(t)
    BY <1>1, <1>3, StopTimes
<1>4. CASE hwtimer_handler
    BY <1>1, <1>4, HandlerTimes
<1>5. CASE CallbackReturns
    BY <1>1, <1>5, ReturnTimes
<1>6. CASE Tick
    BY <1>6, TickTimes
<1>7. CASE \/ \E t \in Timer : hwtimer_alloc(t) \/ hwtimer_free(t)
           \/ hal_timer_irq_handler \/ IgnoreIrq \/ UNCHANGED vars
    BY <1>7, QuietTimes
<1>8. CASE \E t \in Timer : Refused(t)
    BY <1>8, QuietTimes DEF Refused
<1> QED BY <1>2, <1>3, <1>4, <1>5, <1>6, <1>7, <1>8 DEF Next

\* The two invariants hold in every state.
THEOREM Timing == Spec => [](IInv /\ TInv)
<1>1. Init => IInv /\ TInv
    BY InitInv, InitTimes
<1>2. IInv /\ TInv /\ [Next]_vars => (IInv /\ TInv)'
    BY NextInv, NextTimes
<1> QED BY <1>1, <1>2, PTL DEF Spec

\* Every variable has its type: no time between two timers is ever negative,
\* whatever is started, stopped or fired in between.
THEOREM AlwaysTyped == Spec => []TypeOK
<1>1. TInv => TypeOK
    BY DEF TInv
<1> QED BY <1>1, Timing, PTL

\* No assertion "HWTIMER collapsed" fails.
THEOREM NeverCollapses == Spec => []NoCollapse
<1>1. IInv /\ TInv => NoCollapse
    <2> SUFFICES ASSUME IInv, TInv PROVE NoCollapse
        OBVIOUS
    <2>1. TypeOK /\ HeadArmed /\ FiredInCallback
        BY DEF IInv, TInv
    <2>2. ASSUME active # <<>>
          PROVE  /\ Raw <= time[Head(active)] \/ Raw <= 1
                 /\ Raw = 0 => hw.elapsed + 1 >= time[Head(active)]
                 /\ hw.on
        <3>1. hw.load \in Nat /\ hw.elapsed \in Nat
            BY <2>1, TypeFacts
        <3>2. time[Head(active)] = hw.load /\ hw.on
            BY <2>1, <2>2, MissedFacts
        <3>3. /\ Raw \in Nat /\ Raw <= Larger(hw.load, 1) /\ Expiry = Larger(hw.load, 2)
              /\ hw.elapsed < Expiry => Raw >= 1
            BY <3>1, RawFacts
        <3>4. Raw <= hw.load \/ Raw <= 1
            BY <3>1, <3>3 DEF Larger
        <3>5. ASSUME Raw = 0 PROVE hw.elapsed + 1 >= hw.load
            <4>1. ~ (hw.elapsed < Larger(hw.load, 2))
                BY <3>3, <3>5
            <4> QED BY <4>1, <3>1 DEF Larger
        <3> QED BY <3>2, <3>4, <3>5
    <2>3. active = <<>> => ~ hw.on
        BY <2>1 DEF HeadArmed
    <2> QED BY <2>1, <2>2, <2>3 DEF NoCollapse, FiredInCallback, HAL_TIMER_LOAD_DELTA
<1> QED BY <1>1, Timing, PTL

\* A fired timer has waited for what its caller asked, up to what a late head and
\* the stops may have cost it.
THEOREM FiredNeverEarly == Spec => []NeverEarly
<1>1. TInv => NeverEarly
    BY DEF TInv
<1> QED BY <1>1, Timing, PTL

\* An active timer expires in time, however many are started and expire before it.
THEOREM ActiveNeverLate == Spec => []NeverLate
<1>1. TInv => NeverLate
    <2> SUFFICES ASSUME TInv, NEW i \in 1 .. Len(active)
                 PROVE  Remaining(i) <= left[active[i]] + 1 + stops * (LATENCY + 2 * 1)
        BY DEF NeverLate, HAL_TIMER_LOAD_DELTA
    <2>1. TypeOK /\ NotLateYet
        BY DEF TInv
    <2>2. i \in 0 .. Len(active) /\ Behind(i) \in Nat /\ hw.load \in Nat /\ hw.elapsed \in Nat
          /\ active[i] \in Timer /\ Delay \in Nat
        BY <2>1, TypeFacts
    <2>3. left[active[i]] \in Int
        BY <2>1, <2>2 DEF TypeOK
    <2>4. Larger(hw.load, Expiry) <= Larger(hw.load, 1) + 1
          /\ Larger(hw.load, Expiry) \in Nat /\ Larger(hw.load, 1) \in Nat
        BY <2>2, RawFacts DEF Larger
    <2>5. PICK l \in Int, b \in Nat, d \in Nat, m \in Nat, r \in Nat :
             /\ l = left[active[i]] /\ b = Behind(i) /\ d = Delay
             /\ m = Larger(hw.load, Expiry) /\ r = Larger(hw.load, 1)
        BY <2>2, <2>3, <2>4
    <2>6. b + (r - hw.elapsed - d) <= l
        BY <2>1, <2>5 DEF NotLateYet, Lag
    <2>7. m <= r + 1
        BY <2>4, <2>5
    <2>8. b + m - hw.elapsed <= l + 1 + d
        BY <2>2, <2>6, <2>7
    <2>9. Delay = stops * (LATENCY + 2 * 1)
        BY DEF Delay
    <2> QED BY <2>5, <2>8, <2>9, Zenon DEF Remaining
<1> QED BY <1>1, Timing, PTL
=============================================================================
