------------------------ MODULE NorflashMutex_proofs -------------------------
(***************************************************************************)
(* Proofs of what NorflashApi promises when norflash_api_flush is entered  *)
(* by one thread at a time: no ASSERT fires, the suspended operation is the*)
(* current module's, a flush that returns 0 has drained every module, a    *)
(* synchronous call drains its own, and the queue implements FlashStore.   *)
(* Two builds give it: the multi-flash one, by its mutex, and one where no *)
(* more than one thread besides the idle task flushes.  MCNorflashRace.cfg *)
(* has two such threads, and checks what still holds then.                 *)
(***************************************************************************)
EXTENDS NorflashApi_proofs, WellFoundedInduction

OneAtATime == MULTI_FLASH \/ \A f, g \in Flushers \ {IDLE} : f = g

\* The strengthening: one caller at most is between its choice of a module and
\* the end of its flush, and nobody has made another module current since.
Alone == \A f, g \in Flushers : pc[f] = "exec" /\ pc[g] = "exec" => f = g
PickIsCurrent == \A f \in Flushers : pc[f] = "exec" /\ cur_mod # NULL => pick[f] = cur_mod
HalReset == hal.mod = NULL => hal = HalNone
MInv == Alone /\ PickIsCurrent /\ HalReset /\ SuspendedIsCurrent /\ NoPanic

LEMMA HalWhose ==
    ASSUME IInv, MInv, hal # HalNone
    PROVE  /\ hal.mod \in Modules /\ hal.mod = cur_mod /\ cur_mod # NULL
           /\ state[hal.mod] # "IDLE" /\ Current(hal.mod) # {}
<1>1. hal.mod \in Modules /\ hal.mod = cur_mod /\ cur_mod # NULL
  BY DEF IInv, TypeOK, MInv, HalReset, SuspendedIsCurrent
<1>2. state[hal.mod] # "IDLE"
  BY <1>1 DEF IInv, SuspendedAgrees
<1>3. cur_opera_info[hal.mod] \in Tails(hal.mod)
  BY <1>1, <1>2 DEF IInv, SuspendedAgrees
<1> QED
  BY <1>1, <1>2, <1>3 DEF Current

\* The flushers that are between their choice and the end of their flush.
LEMMA ReturnKeeps ==
    ASSUME IInv, Alone, NEW f \in Flushers, pc[f] = "exec", NEW r \in {"ret0", "ret1"},
           Return(f, r)
    PROVE  \A g \in Flushers : pc'[g] # "exec"
BY DEF IInv, TypeOK, Alone, Return

LEMMA PickAlone ==
    ASSUME IInv, MInv, OneAtATime, NEW f \in Flushers, FlushPick(f)
    PROVE  MInv'
<1>1. pc' = [pc EXCEPT ![f] = "exec"] /\ pc \in [Flushers -> {"idle", "exec", "ret0", "ret1"}]
  BY DEF FlushPick, IInv, TypeOK
<1>2. \A g \in Flushers : pc[g] = "exec" => g = f
  BY DEF FlushPick, OneAtATime, MayEnter, Entered, IdleRuns, Scheduled
<1>3. PICK m \in GetCurMod : pick' = [pick EXCEPT ![f] = m]
  BY DEF FlushPick
<1>4. cur_mod # NULL => m = cur_mod
  BY DEF GetCurMod
<1>5. pick \in [Flushers -> Modules \cup {NULL}]
  BY DEF IInv, TypeOK
<1>6. UNCHANGED <<hal, cur_mod, panic>>
  BY DEF FlushPick, chipVars, modVars
<1>7. Alone'
  BY <1>1, <1>2 DEF Alone
<1>8. PickIsCurrent'
  BY <1>1, <1>2, <1>3, <1>4, <1>5, <1>6 DEF PickIsCurrent
<1> QED
  BY <1>6, <1>7, <1>8 DEF MInv, HalReset, SuspendedIsCurrent, NoPanic

\* A caller that finishes its flush leaves the current module its own, or none
\* when there was nothing left to execute.
LEMMA ExecAlone ==
    ASSUME IInv, MInv, NEW f \in Flushers, FlushExec(f)
    PROVE  MInv'
<1> DEFINE m == pick[f]
<1>1. pc[f] = "exec" /\ m \in Modules /\ m # NULL
  <2>1. pc[f] = "exec"
    BY DEF FlushExec, FlushEmpty, FlushComplete, FlushSuspend, FlushAssert
  <2> QED
    BY <2>1, HalFacts DEF IInv, TypeOK
<1>2. hal # HalNone => hal.mod = m
  BY <1>1, HalWhose DEF MInv, PickIsCurrent
<1>3. ASSUME NEW r \in {"ret0", "ret1"}, Return(f, r) PROVE Alone' /\ PickIsCurrent'
  BY <1>1, <1>3, ReturnKeeps DEF MInv, Alone, PickIsCurrent
<1>4. ~FlushAssert(f)
  BY <1>2, HalWhose DEF FlushAssert
<1>5. CASE FlushEmpty(f)
  <2>1. hal = HalNone /\ UNCHANGED <<hal, panic>>
    BY <1>2, <1>5, HalWhose DEF FlushEmpty, chipVars
  <2> QED
    BY <1>3, <1>5, <2>1 DEF FlushEmpty, FlushReturn, MInv, HalReset, SuspendedIsCurrent,
                            NoPanic, HalNone
<1>6. CASE FlushComplete(f)
  BY <1>3, <1>6 DEF FlushComplete, FlushReturn, MInv, HalReset, SuspendedIsCurrent, NoPanic
<1>7. CASE FlushSuspend(f)
  <2>1. hal'.mod = m /\ cur_mod' = m /\ UNCHANGED panic
    BY <1>7 DEF FlushSuspend
  <2> QED
    BY <1>1, <1>3, <1>7, <2>1 DEF FlushSuspend, FlushReturn, MInv, HalReset,
                                  SuspendedIsCurrent, NoPanic
<1> QED
  BY <1>4, <1>5, <1>6, <1>7 DEF FlushExec

\* A synchronous call finds the suspended operation, drains it, and asserts
\* nothing.
LEMMA SyncAlone ==
    ASSUME IInv, MInv, NEW m \in Modules, NEW n, SyncOp(m, n)
    PROVE  MInv'
<1>1. ~(Drains(m) /\ HalBusy(m))
  BY HalWhose DEF HalBusy, Other
<1>2. UNCHANGED <<cur_mod, pc, pick>> /\ UNCHANGED panic
  BY <1>1 DEF SyncOp, modVars, callVars
<1>3. hal' \in {hal, HalNone}
  BY <1>1 DEF SyncOp
<1> QED
  BY <1>2, <1>3 DEF MInv, Alone, PickIsCurrent, HalReset, SuspendedIsCurrent, NoPanic

LEMMA StillAlone ==
    ASSUME IInv, MInv, UNCHANGED <<hal, cur_mod, pc, pick, panic>>
    PROVE  MInv'
BY DEF MInv, Alone, PickIsCurrent, HalReset, SuspendedIsCurrent, NoPanic

LEMMA MutexNext ==
    ASSUME OneAtATime, IInv, MInv, [Next]_vars
    PROVE  MInv'
<1>1. ASSUME NEW m \in Modules, NEW n, SyncOp(m, n) PROVE MInv'
  BY <1>1, SyncAlone
<1>2. ASSUME NEW m, NEW s, NEW o, NEW l, NEW v, WriteAsync(m, s, o, l, v) PROVE MInv'
  BY <1>2, StillAlone DEF WriteAsync, chipVars, modVars, callVars
<1>3. ASSUME NEW m, NEW a, NEW l, EraseAsync(m, a, l) PROVE MInv'
  BY <1>3, StillAlone DEF EraseAsync, chipVars, modVars, callVars
<1>4. CASE Client
  BY <1>1, <1>2, <1>3, <1>4 DEF Client, ClientWrite, ClientErase, WriteSync, EraseSync
<1>5. ASSUME NEW f \in Flushers, FlushAll(f) \/ FlushSkip(f) PROVE MInv'
  <2>1. \A g \in Flushers : pc'[g] = "exec" => pc[g] = "exec" /\ pick'[g] = pick[g]
    BY <1>5 DEF FlushAll, FlushSkip, Return, Scheduled, IInv, TypeOK
  <2>2. UNCHANGED <<hal, cur_mod, panic>>
    BY <1>5 DEF FlushAll, FlushSkip, chipVars, modVars
  <2> QED
    BY <2>1, <2>2 DEF MInv, Alone, PickIsCurrent, HalReset, SuspendedIsCurrent, NoPanic
<1>6. CASE Flush
  BY <1>5, <1>6, PickAlone, ExecAlone DEF Flush
<1>7. CASE Cp
  BY <1>7, StillAlone DEF Cp, FlushDisable, CpInitDone, FlushEnable, chipVars, modVars, callVars
<1>8. CASE UNCHANGED vars
  BY <1>8, StillAlone DEF vars, chipVars, modVars, callVars
<1> QED
  BY <1>4, <1>6, <1>7, <1>8 DEF Next

LEMMA MutexInit == Init => MInv
BY DEF Init, MInv, Alone, PickIsCurrent, HalReset, SuspendedIsCurrent, NoPanic, HalNone

LEMMA MutexInvariance ==
    ASSUME OneAtATime
    PROVE  Spec => []MInv
<1>1. IInv /\ MInv /\ [Next]_vars => MInv'
  BY MutexNext
<1> QED
  BY <1>1, MutexInit, Invariance, PTL DEF Spec

\* _opera_flush never asserts that the chip refused an operation.
THEOREM NoAssertFires ==
    ASSUME OneAtATime
    PROVE  Spec => []NoPanic
BY MutexInvariance, PTL DEF MInv

\* What a synchronous call relies on: a suspended operation is the current
\* module's, the only one it looks at.
THEOREM SuspendedFound ==
    ASSUME OneAtATime
    PROVE  Spec => []SuspendedIsCurrent
BY MutexInvariance, PTL DEF MInv

-----------------------------------------------------------------------------
(* When no client boots the coprocessor, flushing is always allowed.        *)

NInv == allowed_cb = FALSE /\ SyncNotRefused /\ Protected

LEMMA SyncServed ==
    ASSUME IInv, MInv, NInv, NEW m \in Modules, NEW n, SyncOp(m, n)
    PROVE  NInv'
<1>1. Drains(m)
  BY DEF NInv, Drains, FlushIsAllowed
<1>2. ~HalBusy(m)
  BY <1>1, HalWhose DEF HalBusy, Other
<1>3. ret' = "OK" /\ unprot' = Unprotect(m, {}) /\ allowed_cb' = FALSE
  BY <1>1, <1>2 DEF SyncOp, ClearCallback, NInv
<1>4. hal' = HalNone
  BY <1>1, <1>2 DEF SyncOp
<1>5. \A o \in Modules : state'[o] = "IDLE"
  <2>1. IInv'
    BY SyncKeeps
  <2> QED
    BY <1>4, <2>1, HalFacts DEF IInv, SuspendedAgrees, HalNone
<1> QED
  BY <1>3, <1>5 DEF NInv, SyncNotRefused, Protected, Unprotect

\* A suspended node keeps its sectors, and stays.
LEMMA ProtectedKept ==
    ASSUME IInv, Protected, UNCHANGED <<unprot, state, cur_opera_info>>,
           \A m \in Modules : state[m] # "IDLE" =>
              LET x == cur_opera_info[m]
              IN  heap'[x].addr = heap[x].addr /\ heap'[x].len = heap[x].len
    PROVE  Protected'
BY DEF Protected, Range

LEMMA SuspendedNode ==
    ASSUME IInv, NEW m \in Modules, state[m] # "IDLE"
    PROVE  LET x == cur_opera_info[m]
           IN  /\ x \in Slots /\ x \in UsedSlots /\ x \in opera_info[m] /\ x \in Tails(m)
               /\ heap[x] \in Node /\ heap[x].lock
<1>1. cur_opera_info[m] \in Tails(m) /\ cur_opera_info[m] \in opera_info[m]
  BY DEF IInv, SuspendedAgrees, Tails
<1>2. cur_opera_info[m] \in UsedSlots
  BY <1>1 DEF IInv, PoolAccounted
<1>3. heap[cur_opera_info[m]].lock
  BY <1>1 DEF IInv, SuspendedAgrees
<1> QED
  BY <1>1, <1>2, <1>3 DEF UsedSlots, IInv, TypeOK

LEMMA FreedRange ==
    ASSUME IInv, NEW D, NEW x \in UsedSlots, x \notin D
    PROVE  Freed(D)[x].addr = heap[x].addr /\ Freed(D)[x].len = heap[x].len
<1>1. heap[x] \in Node /\ x \in Slots /\ heap[x] # NULL
  BY DEF UsedSlots, IInv, TypeOK
<1>2. Freed(D)[x] = Cut(heap[x], D)
  BY <1>1 DEF Freed
<1> QED
  BY <1>1, <1>2 DEF Cut, Node

LEMMA WriteProtected ==
    ASSUME IInv, Protected, NEW m \in Modules, NEW s, NEW o, NEW l, NEW v,
           WriteAsync(m, s, o, l, v)
    PROVE  Protected'
<1>1. UNCHANGED <<unprot, state, cur_opera_info>>
  BY DEF WriteAsync, chipVars
<1>2. heap \in [Slots -> Node \cup {NULL}]
  BY DEF IInv, TypeOK
<1>3. CASE MergeWrite(m, s, o, l, v)
  <2>1. PICK x \in WriteHit(m, s) : /\ heap[x].type = "W"
                                    /\ heap' = [heap EXCEPT ![x] = Merged(@, o, l, v)]
    BY <1>3 DEF MergeWrite
  <2>2. ~heap[x].lock
    BY <2>1 DEF WriteHit, Newest
  <2>3. ASSUME NEW q \in Modules, state[q] # "IDLE"
        PROVE  heap'[cur_opera_info[q]] = heap[cur_opera_info[q]]
    BY <1>2, <2>1, <2>2, <2>3, SuspendedNode
  <2> QED
    BY <1>1, <2>3, ProtectedKept
<1>4. CASE AddWrite(m, s, o, l, v)
  <2>1. PICK x \in Slots \ UsedSlots : \E n : heap' = [heap EXCEPT ![x] = n]
    BY <1>4 DEF AddWrite, FirstFree
  <2>2. ASSUME NEW q \in Modules, state[q] # "IDLE"
        PROVE  heap'[cur_opera_info[q]] = heap[cur_opera_info[q]]
    BY <1>2, <2>1, <2>2, SuspendedNode
  <2> QED
    BY <1>1, <2>2, ProtectedKept
<1> QED
  BY <1>3, <1>4 DEF WriteAsync

LEMMA EraseProtected ==
    ASSUME IInv, Protected, NEW m \in Modules, NEW a, NEW l, EraseAsync(m, a, l)
    PROVE  Protected'
<1> DEFINE gone == Superseded(m, a, l)
<1>1. UNCHANGED <<unprot, state, cur_opera_info>>
  BY DEF EraseAsync, chipVars
<1>2. \A x \in gone : ~heap[x].lock
  BY DEF Superseded
<1>3. \/ heap' = Freed(gone)
      \/ \E x \in Slots \ (UsedSlots \ gone) : \E n : heap' = [Freed(gone) EXCEPT ![x] = n]
  BY DEF EraseAsync, Free, FirstFree
<1> HIDE DEF gone
<1>4. ASSUME NEW q \in Modules, state[q] # "IDLE"
      PROVE  LET x == cur_opera_info[q]
             IN  heap'[x].addr = heap[x].addr /\ heap'[x].len = heap[x].len
  <2> DEFINE y == cur_opera_info[q]
  <2>1. y \in UsedSlots /\ y \in Slots /\ y \notin gone
    BY <1>2, <1>4, SuspendedNode
  <2>2. Freed(gone)[y].addr = heap[y].addr /\ Freed(gone)[y].len = heap[y].len
    BY <2>1, FreedRange
  <2>3. heap'[y] = Freed(gone)[y]
    BY <1>3, <2>1 DEF Freed
  <2> QED
    BY <2>2, <2>3
<1> QED
  BY <1>1, <1>4, ProtectedKept

LEMMA ExecProtected ==
    ASSUME IInv, IInv', Protected, NEW f \in Flushers, FlushComplete(f) \/ FlushSuspend(f)
    PROVE  Protected'
<1> DEFINE m == pick[f]
<1>1. m \in Modules
  BY DEF FlushComplete, FlushSuspend, IInv, TypeOK
<1>2. \A q \in Modules : q # m => state[q] = "IDLE"
  BY <1>1, OthersIdle DEF FlushComplete, FlushSuspend
<1> HIDE DEF m
<1>3. CASE FlushComplete(f)
  <2>1. state' = [state EXCEPT ![m] = "IDLE"] /\ unprot' = Unprotect(m, {})
    BY <1>3 DEF FlushComplete, m
  <2> QED
    BY <1>1, <1>2, <2>1 DEF Protected, Unprotect, IInv, TypeOK
<1>4. CASE FlushSuspend(f)
  <2>1. PICK x \in Current(m) :
          /\ unprot' = Unprotect(m, Open(m, heap[x]))
          /\ heap' = [heap EXCEPT ![x] = Locked(heap[x])]
          /\ state' = [state EXCEPT ![m] = Suspended(heap[x])]
          /\ cur_opera_info' = [cur_opera_info EXCEPT ![m] = x]
    BY <1>4 DEF FlushSuspend, m
  <2>2. x \in Slots /\ heap[x] \in Node
    BY <1>1, <2>1, CurrentFacts
  <2>3. Range(Locked(heap[x])) = Range(heap[x])
    BY <2>2 DEF Locked, Node, Range
  <2>4. Open(m, heap[x]) = Range(heap[x])
    <3>1. CASE state[m] = "IDLE"
      BY <3>1 DEF Open
    <3>2. CASE state[m] # "IDLE"
      <4>1. cur_opera_info[m] # NULL
        BY <1>1, <3>2, SuspendedNode, NullAssumption DEF Slots
      <4> QED
        BY <1>1, <2>1, <3>2, <4>1 DEF Open, Protected, Current
    <3> QED
      BY <3>1, <3>2
  <2>5. heap'[x] = Locked(heap[x]) /\ cur_opera_info'[m] = x
    BY <1>1, <2>1, <2>2 DEF IInv, TypeOK
  <2>6. state'[m] # "IDLE" /\ unprot'[m] = Range(heap'[cur_opera_info'[m]])
    BY <1>1, <2>1, <2>3, <2>4, <2>5 DEF Suspended, Unprotect, IInv, TypeOK, Range
  <2>7. \A q \in Modules : q # m => state'[q] = "IDLE" /\ unprot'[q] = {}
    BY <1>1, <1>2, <2>1 DEF Unprotect, IInv, TypeOK
  <2> QED
    BY <2>6, <2>7 DEF Protected, Range
<1> QED
  BY <1>3, <1>4

LEMMA ServedNext ==
    ASSUME ~CP_USER, IInv, IInv', MInv, NInv, [Next]_vars
    PROVE  NInv'
<1>1. ASSUME NEW m \in Modules, NEW n, SyncOp(m, n) PROVE NInv'
  BY <1>1, SyncServed
<1>2. ASSUME NEW m \in Modules, NEW s, NEW o, NEW l, NEW v, WriteAsync(m, s, o, l, v)
      PROVE  NInv'
  BY <1>2, WriteProtected DEF WriteAsync, cpVars, NInv, SyncNotRefused
<1>3. ASSUME NEW m \in Modules, NEW a, NEW l, EraseAsync(m, a, l) PROVE NInv'
  <2>1. UNCHANGED <<allowed_cb, ret>>
    BY <1>3 DEF EraseAsync, cpVars
  <2>2. Protected'
    BY <1>3, EraseProtected DEF NInv
  <2> QED
    BY <2>1, <2>2 DEF NInv, SyncNotRefused
<1>4. CASE Client
  BY <1>1, <1>2, <1>3, <1>4 DEF Client, ClientWrite, ClientErase, WriteSync, EraseSync
<1>5. ASSUME NEW f \in Flushers, FlushComplete(f) \/ FlushSuspend(f) PROVE NInv'
  BY <1>5, ExecProtected DEF FlushComplete, FlushSuspend, cpVars, NInv, SyncNotRefused
<1>6. ASSUME UNCHANGED <<heap, state, cur_opera_info, unprot, ret>>, allowed_cb' = FALSE
      PROVE  NInv'
  BY <1>6 DEF NInv, SyncNotRefused, Protected, Range
<1>7. ASSUME NEW f \in Flushers, FlushAll(f) \/ FlushPick(f) \/ FlushSkip(f) PROVE NInv'
  BY <1>6, <1>7 DEF FlushAll, FlushPick, FlushSkip, ClearCallback, queueVars, chipVars, NInv
<1>8. ASSUME NEW f \in Flushers, FlushEmpty(f) \/ FlushAssert(f) PROVE NInv'
  BY <1>6, <1>8 DEF FlushEmpty, FlushAssert, queueVars, chipVars, cpVars, NInv
<1>9. CASE Flush
  BY <1>5, <1>7, <1>8, <1>9 DEF Flush, FlushExec
<1>10. CASE Cp
  BY <1>6, <1>10 DEF Cp, FlushDisable, CpInitDone, FlushEnable, queueVars, chipVars, NInv
<1>11. CASE UNCHANGED vars
  BY <1>6, <1>11 DEF vars, queueVars, chipVars, cpVars, NInv
<1> QED
  BY <1>4, <1>9, <1>10, <1>11 DEF Next

LEMMA ServedInvariance ==
    ASSUME OneAtATime, ~CP_USER
    PROVE  Spec => []NInv
<1>1. Init => NInv
  BY DEF Init, NInv, SyncNotRefused, Protected
<1>2. IInv /\ IInv' /\ MInv /\ NInv /\ [Next]_vars => NInv'
  BY ServedNext
<1> QED
  BY <1>1, <1>2, Invariance, MutexInvariance, PTL DEF Spec

\* With no coprocessor client a synchronous write or erase is always executed.
THEOREM SyncServedTheorem ==
    ASSUME OneAtATime, ~CP_USER
    PROVE  Spec => []SyncNotRefused
BY ServedInvariance, PTL DEF NInv

\* With no coprocessor client the chip is protected except for the sectors of
\* the operation it has suspended.
THEOREM ProtectedTheorem ==
    ASSUME OneAtATime, ~CP_USER
    PROVE  Spec => []Protected
BY ServedInvariance, PTL DEF NInv

-----------------------------------------------------------------------------
(* A flush that returns 0, and a call that waits: nothing is left behind.   *)

\* A set of numbers has a least one.
LEMMA LeastElement ==
    ASSUME NEW T, \A n \in T : n \in Nat, NEW n \in T
    PROVE  \E m \in T : \A k \in T : m <= k
<1> DEFINE R == OpToRel(<, Nat)
<1>1. IsWellFoundedOn(R, Nat)
  BY NatLessThanWellFounded
<1>2. \A x, y \in Nat : x < y => <<x, y>> \in R
  BY DEF OpToRel
<1> HIDE DEF R
<1>3. T \subseteq Nat /\ T # {}
  OBVIOUS
<1>4. PICK x \in T : \A y \in T : ~ (<<y, x>> \in R)
  BY <1>1, <1>3, WFMin
<1>5. ASSUME NEW k \in T PROVE x <= k
  <2>1. x \in Nat /\ k \in Nat
    BY <1>3
  <2>2. ~ (k < x)
    BY <1>2, <1>4, <2>1
  <2> QED
    BY <2>1, <2>2
<1> QED
  BY <1>5

\* When a module has work, _get_cur_mod finds one: its turn comes first.
LEMMA SomeModule ==
    ASSUME IInv, Pending # {}
    PROVE  GetCurMod # {}
<1> DEFINE T == {Turn(m) : m \in Pending}
<1>1. cur_mod_id \in 0 .. MODULES /\ MODULES \in Nat \ {0} /\ Pending \subseteq Modules
  BY SizeAssumption DEF IInv, TypeOK, Pending
<1>2. Start \in 0 .. MODULES - 1
  BY <1>1 DEF Start
<1>3. \A m \in Pending : Turn(m) \in Nat
  BY <1>1, <1>2 DEF Turn, Modules
<1>4. /\ \A k \in T : k \in Nat
      /\ \A k : k \in T <=> \E m \in Pending : k = Turn(m)
  BY <1>3
<1>5. PICK m \in Pending : TRUE
  OBVIOUS
<1>6. Turn(m) \in T
  BY <1>4
<1> HIDE DEF T
<1>7. PICK k \in T : \A j \in T : k <= j
  BY <1>4, <1>6, LeastElement
<1>8. PICK n \in Pending : k = Turn(n)
  BY <1>4, <1>7
<1>9. \A q \in Pending : Turn(n) <= Turn(q)
  BY <1>4, <1>7, <1>8
<1>10. cur_mod = NULL => n \in GetCurMod
  BY <1>8, <1>9 DEF GetCurMod
<1>11. cur_mod # NULL => cur_mod \in GetCurMod
  BY DEF GetCurMod
<1> QED
  BY <1>10, <1>11

\* A flush that returns 0 found no module with work, or executed the last node.
ZeroDrained == \A f \in Flushers : pc'[f] = "ret0" /\ pc[f] # "ret0" => Pending' = {}

LEMMA ReturnOthers ==
    ASSUME IInv, NEW f \in Flushers, NEW r, Return(f, r)
    PROVE  pc'[f] = r /\ \A g \in Flushers : g # f => pc'[g] = pc[g]
BY DEF Return, IInv, TypeOK

LEMMA SkipDrained ==
    ASSUME IInv, NInv, NEW f \in Flushers, FlushSkip(f)
    PROVE  ZeroDrained
<1>1. GetCurMod = {}
  BY DEF FlushSkip, FlushIsAllowed, NInv
<1>2. Pending = {}
  BY <1>1, SomeModule
<1>3. opera_info' = opera_info
  BY DEF FlushSkip, queueVars
<1> QED
  BY <1>2, <1>3 DEF ZeroDrained, Pending

LEMMA ReturnDrained ==
    ASSUME IInv, NEW f \in Flushers, FlushReturn(f)
    PROVE  ZeroDrained
<1> DEFINE r == IF cur_mod' # NULL \/ \E m \in Modules : opera_info'[m] # {}
                THEN "ret1" ELSE "ret0"
<1>1. Return(f, r)
  BY DEF FlushReturn
<1>2. r = "ret0" => Pending' = {}
  BY DEF Pending
<1> HIDE DEF r
<1>3. pc'[f] = r /\ \A g \in Flushers : g # f => pc'[g] = pc[g]
  BY <1>1, ReturnOthers
<1> QED
  BY <1>2, <1>3 DEF ZeroDrained

\* Only the two returns of norflash_api_flush return 0.
LEMMA ZeroDrainedNext ==
    ASSUME IInv, NInv, [Next]_vars
    PROVE  ZeroDrained
<1>1. ASSUME pc' = pc PROVE ZeroDrained
  BY <1>1 DEF ZeroDrained
<1>2. CASE Client
  <2>1. ASSUME NEW m, NEW n, SyncOp(m, n) PROVE pc' = pc
    BY <2>1 DEF SyncOp, callVars
  <2>2. ASSUME NEW m, NEW s, NEW o, NEW l, NEW v, WriteAsync(m, s, o, l, v) PROVE pc' = pc
    BY <2>2 DEF WriteAsync, callVars
  <2>3. ASSUME NEW m, NEW a, NEW l, EraseAsync(m, a, l) PROVE pc' = pc
    BY <2>3 DEF EraseAsync, callVars
  <2> QED
    BY <1>1, <1>2, <2>1, <2>2, <2>3 DEF Client, ClientWrite, ClientErase, WriteSync, EraseSync
<1>3. ASSUME NEW f \in Flushers, FlushExec(f) PROVE ZeroDrained
  <2>1. CASE FlushEmpty(f)
    BY <2>1, ReturnDrained DEF FlushEmpty
  <2>2. CASE FlushComplete(f)
    BY <2>2, ReturnDrained DEF FlushComplete
  <2>3. CASE FlushSuspend(f)
    BY <2>3, ReturnDrained DEF FlushSuspend
  <2>4. CASE FlushAssert(f)
    BY <1>1, <2>4 DEF FlushAssert, callVars
  <2> QED
    BY <1>3, <2>1, <2>2, <2>3, <2>4 DEF FlushExec
<1>4. ASSUME NEW f \in Flushers, FlushAll(f) \/ FlushPick(f) PROVE ZeroDrained
  <2>1. \A g \in Flushers : pc'[g] # pc[g] => pc'[g] \in {"idle", "exec"}
    BY <1>4 DEF FlushAll, FlushPick, IInv, TypeOK
  <2> QED
    BY <2>1 DEF ZeroDrained
<1>5. CASE Flush
  BY <1>3, <1>4, <1>5, SkipDrained DEF Flush
<1>6. CASE Cp
  BY <1>1, <1>6 DEF Cp, FlushDisable, CpInitDone, FlushEnable, callVars
<1>7. CASE UNCHANGED vars
  BY <1>1, <1>7 DEF vars, callVars
<1> QED
  BY <1>2, <1>5, <1>6, <1>7 DEF Next

\* What every caller that waits relies on: norflash_api_flush returns 0 only
\* when nothing is pending, for any module.
THEOREM FlushZeroMeansDrainedTheorem ==
    ASSUME OneAtATime, ~CP_USER
    PROVE  Spec => FlushZeroMeansDrained
<1>1. IInv /\ NInv /\ [Next]_vars => [ZeroDrained]_vars
  BY ZeroDrainedNext
<1>2. Spec => [][ZeroDrained]_vars
  BY <1>1, Invariance, ServedInvariance, PTL DEF Spec
<1>3. FlushZeroMeansDrained <=> [][ZeroDrained]_vars
  BY DEF FlushZeroMeansDrained, ZeroDrained
<1> QED
  BY <1>2, <1>3

\* "flush all of cur module opera".
SyncDrained ==
    \A m \in Modules, l \in EraseLens, a \in Sectors :
        EraseSync(m, a, l) /\ ~panic' => opera_info'[m] = {}

LEMMA SyncDrainedStep ==
    ASSUME IInv, MInv, NInv
    PROVE  SyncDrained
<1> SUFFICES ASSUME NEW m \in Modules, NEW l \in EraseLens, NEW a \in Sectors,
                    EraseSync(m, a, l), ~panic'
             PROVE  opera_info'[m] = {}
  BY DEF SyncDrained
<1>1. Drains(m)
  BY DEF NInv, Drains, FlushIsAllowed
<1>2. opera_info' = [o \in Modules |-> opera_info[o] \ Drained(m)]
  BY DEF EraseSync, SyncOp
<1>3. opera_info[m] \subseteq Drained(m)
  BY <1>1 DEF Drained
<1> QED
  BY <1>2, <1>3

\* A synchronous call executes everything its module has queued before its own
\* operation, so that what is queued never overtakes it.
THEOREM SyncDrainsTheorem ==
    ASSUME OneAtATime, ~CP_USER
    PROVE  Spec => SyncDrains
<1>1. IInv /\ MInv /\ NInv /\ [Next]_vars => [SyncDrained]_vars
  BY SyncDrainedStep
<1>2. Spec => [][SyncDrained]_vars
  BY <1>1, Invariance, MutexInvariance, ServedInvariance, PTL DEF Spec
<1>3. SyncDrains <=> [][SyncDrained]_vars
  BY DEF SyncDrains, SyncDrained
<1> QED
  BY <1>2, <1>3

-----------------------------------------------------------------------------
(* What a sector reads, one page at a time, when the clients erase single   *)
(* sectors: the erases of a list that cover sector s start there.          *)
Erases(H, N, s) == {e \in N : H[e].type = "E" /\ H[e].addr = s}
Counts(H, N, s, x) ==
    /\ H[x].type = "W" /\ H[x].addr = s
    /\ \A e \in Erases(H, N, s) : x \notin H[e].rest
Reads(fl, H, N, s, c) ==
    {b \in Bits : /\ Erases(H, N, s) # {} \/ b \in fl[s][c]
                  /\ \A x \in N : Counts(H, N, s, x) /\ c \in Programs(H[x])
                                    => b \in H[x].data[c]}

\* A bit is read as set when the chip or an erase sets it and no write clears it.
LEMMA ReadsOf ==
    ASSUME NEW fl, NEW H, NEW N, NEW s, NEW c
    PROVE  \A b : b \in Reads(fl, H, N, s, c) <=>
              /\ b \in Bits
              /\ Erases(H, N, s) # {} \/ b \in fl[s][c]
              /\ \A x \in N : Counts(H, N, s, x) /\ c \in Programs(H[x]) => b \in H[x].data[c]
BY DEF Reads

LEMMA ReadsBits ==
    ASSUME NEW fl, NEW H, NEW N, NEW s, NEW c
    PROVE  Reads(fl, H, N, s, c) \subseteq Bits
BY DEF Reads

\* The nodes as they are read, and their order.
SameNodes(H, G, N) ==
    \A x \in N :
        /\ G[x].type = H[x].type /\ G[x].addr = H[x].addr /\ G[x].data = H[x].data
        /\ Programs(G[x]) = Programs(H[x])
        /\ \A y \in N : y \in G[x].rest <=> y \in H[x].rest

\* A page is read alike in two heaps that agree on the nodes.
LEMMA SameReads ==
    ASSUME NEW H, NEW G, NEW N, SameNodes(H, G, N), NEW fl, NEW gl, NEW s, NEW c,
           gl[s][c] = fl[s][c]
    PROVE  Reads(gl, G, N, s, c) = Reads(fl, H, N, s, c)
<1>1. Erases(G, N, s) = Erases(H, N, s)
  BY DEF Erases, SameNodes
<1>2. \A e \in Erases(H, N, s) : e \in N
  BY DEF Erases
<1>3. \A x \in N : Counts(G, N, s, x) <=> Counts(H, N, s, x)
  BY <1>1, <1>2 DEF Counts, SameNodes
<1>4. \A b : b \in Reads(gl, G, N, s, c) <=> b \in Reads(fl, H, N, s, c)
  <2>1. \A b : b \in Reads(gl, G, N, s, c) <=>
              /\ b \in Bits
              /\ Erases(G, N, s) # {} \/ b \in gl[s][c]
              /\ \A x \in N : Counts(G, N, s, x) /\ c \in Programs(G[x]) => b \in G[x].data[c]
    BY ReadsOf
  <2>2. \A b : b \in Reads(fl, H, N, s, c) <=>
              /\ b \in Bits
              /\ Erases(H, N, s) # {} \/ b \in fl[s][c]
              /\ \A x \in N : Counts(H, N, s, x) /\ c \in Programs(H[x]) => b \in H[x].data[c]
    BY ReadsOf
  <2> QED
    BY <1>1, <1>3, <2>1, <2>2 DEF SameNodes
<1> QED
  BY <1>4

\* A list without its last nodes D, executed.
Oldest(H, N, D) ==
    /\ D \subseteq N
    /\ \A y \in D, z \in N \ D : y \in H[z].rest /\ z \notin H[y].rest

\* Executing the oldest node of a list and taking it away changes no page.
LEMMA ExecutedReads ==
    ASSUME NEW H, NEW N, NEW D, Oldest(H, N, D), NEW fl, NEW gl, NEW s, NEW c,
           gl[s][c] = Reads(fl, H, D, s, c)
    PROVE  Reads(gl, H, N \ D, s, c) = Reads(fl, H, N, s, c)
<1> DEFINE K == N \ D
<1>1. /\ \A e : e \in Erases(H, N, s) <=> e \in Erases(H, K, s) \/ e \in Erases(H, D, s)
      /\ \A e \in Erases(H, K, s) : e \in K
      /\ \A e \in Erases(H, D, s) : e \in D
  BY DEF Erases, Oldest
<1>2. \A x \in K : Counts(H, N, s, x) <=> Counts(H, K, s, x)
  BY <1>1 DEF Counts, Oldest
<1>3. \A b : b \in Reads(gl, H, K, s, c) <=>
            /\ b \in Bits
            /\ Erases(H, K, s) # {} \/ b \in Reads(fl, H, D, s, c)
            /\ \A x \in K : Counts(H, K, s, x) /\ c \in Programs(H[x]) => b \in H[x].data[c]
  BY Zenon DEF Reads
<1>4. \A b : b \in Reads(fl, H, N, s, c) <=>
            /\ b \in Bits
            /\ Erases(H, N, s) # {} \/ b \in fl[s][c]
            /\ \A x \in N : Counts(H, N, s, x) /\ c \in Programs(H[x]) => b \in H[x].data[c]
  BY ReadsOf
<1>5. \A x \in N : x \in K \/ x \in D
  OBVIOUS
<1>6. \A x \in D : x \in N
  BY DEF Oldest
<1>7. CASE Erases(H, K, s) # {}
  <2>1. PICK e \in Erases(H, K, s) : TRUE
    BY <1>7
  <2>2. e \in K /\ e \in Erases(H, N, s)
    BY <1>1, <2>1
  <2>3. \A x \in D : x \in H[e].rest
    BY <2>2 DEF Oldest
  <2>4. \A x \in D : ~Counts(H, N, s, x)
    BY <2>2, <2>3 DEF Counts
  <2>5. \A b : b \in Reads(gl, H, K, s, c) <=> b \in Reads(fl, H, N, s, c)
    BY <1>2, <1>3, <1>4, <1>5, <1>7, <2>2, <2>4
  <2> QED
    BY <2>5
<1>8. CASE Erases(H, K, s) = {}
  <2>1. \A x \in D : Counts(H, N, s, x) <=> Counts(H, D, s, x)
    BY <1>1, <1>8 DEF Counts
  <2>2. Erases(H, N, s) # {} <=> Erases(H, D, s) # {}
    BY <1>1, <1>8
  <2>3. \A b : b \in Reads(fl, H, D, s, c) <=>
            /\ b \in Bits
            /\ Erases(H, D, s) # {} \/ b \in fl[s][c]
            /\ \A x \in D : Counts(H, D, s, x) /\ c \in Programs(H[x]) => b \in H[x].data[c]
    BY ReadsOf
  <2>4. \A b : b \in Reads(gl, H, K, s, c) <=> b \in Reads(fl, H, N, s, c)
    BY <1>2, <1>3, <1>4, <1>5, <1>6, <1>8, <2>1, <2>2, <2>3
  <2> QED
    BY <2>4
<1> QED
  BY <1>7, <1>8

\* Without a queue a page is what the chip holds.
LEMMA EmptyReads ==
    ASSUME NEW fl, NEW H, NEW s, NEW c, fl[s][c] \in Byte
    PROVE  Reads(fl, H, {}, s, c) = fl[s][c]
BY DEF Reads, Erases, Byte

\* A write in front of a list clears what it does not hold, in its range.
LEMMA WrittenReads ==
    ASSUME NEW H, NEW N, NEW x, NEW M, \A y : y \in M <=> y \in N \/ y = x, x \notin N,
           \A y \in N : H[y].rest \subseteq N,
           H[x].type = "W", NEW fl, NEW s, NEW c
    PROVE  \A b : b \in Reads(fl, H, M, s, c) <=>
              /\ b \in Reads(fl, H, N, s, c)
              /\ H[x].addr = s /\ c \in Programs(H[x]) => b \in H[x].data[c]
<1>1. Erases(H, M, s) = Erases(H, N, s)
  BY DEF Erases
<1>2. \A e \in Erases(H, N, s) : e \in N
  BY DEF Erases
<1>3. \A y \in N : Counts(H, M, s, y) <=> Counts(H, N, s, y)
  BY <1>1, <1>2 DEF Counts
<1>4. Counts(H, M, s, x) <=> H[x].addr = s
  BY <1>1, <1>2 DEF Counts
<1>5. \A b : b \in Reads(fl, H, M, s, c) <=>
            /\ b \in Bits
            /\ Erases(H, M, s) # {} \/ b \in fl[s][c]
            /\ \A y \in M : Counts(H, M, s, y) /\ c \in Programs(H[y]) => b \in H[y].data[c]
  BY ReadsOf
<1>6. \A b : b \in Reads(fl, H, N, s, c) <=>
            /\ b \in Bits
            /\ Erases(H, N, s) # {} \/ b \in fl[s][c]
            /\ \A y \in N : Counts(H, N, s, y) /\ c \in Programs(H[y]) => b \in H[y].data[c]
  BY ReadsOf
<1> QED
  BY <1>1, <1>3, <1>4, <1>5, <1>6

\* An erase in front of a list sets its sector, whatever is behind it.
LEMMA ErasedReads ==
    ASSUME NEW H, NEW N, NEW x, NEW M, \A y : y \in M <=> y \in N \/ y = x, x \notin N,
           H[x].type = "E", H[x].rest = N, NEW fl, NEW s, NEW c
    PROVE  Reads(fl, H, M, s, c) =
              IF H[x].addr = s THEN Bits ELSE Reads(fl, H, N, s, c)
<1>1. CASE H[x].addr = s
  <2>1. x \in Erases(H, M, s)
    BY <1>1 DEF Erases
  <2>2. \A y \in M : ~Counts(H, M, s, y)
    BY <2>1 DEF Counts
  <2>3. \A b : b \in Reads(fl, H, M, s, c) <=> b \in Bits
    BY <2>1, <2>2, ReadsOf
  <2> QED
    BY <1>1, <2>3
<1>2. CASE H[x].addr # s
  <2>1. Erases(H, M, s) = Erases(H, N, s)
    BY <1>2 DEF Erases
  <2>2. \A e \in Erases(H, N, s) : e \in N
    BY DEF Erases
  <2>3. \A y \in N : Counts(H, M, s, y) <=> Counts(H, N, s, y)
    BY <2>1, <2>2 DEF Counts
  <2>4. ~Counts(H, M, s, x)
    BY <1>2 DEF Counts
  <2>5. \A b : b \in Reads(fl, H, M, s, c) <=> b \in Reads(fl, H, N, s, c)
    <3>1. \A b : b \in Reads(fl, H, M, s, c) <=>
            /\ b \in Bits
            /\ Erases(H, M, s) # {} \/ b \in fl[s][c]
            /\ \A y \in M : Counts(H, M, s, y) /\ c \in Programs(H[y]) => b \in H[y].data[c]
      BY ReadsOf
    <3>2. \A b : b \in Reads(fl, H, N, s, c) <=>
            /\ b \in Bits
            /\ Erases(H, N, s) # {} \/ b \in fl[s][c]
            /\ \A y \in N : Counts(H, N, s, y) /\ c \in Programs(H[y]) => b \in H[y].data[c]
      BY ReadsOf
    <3> QED
      BY <2>1, <2>3, <2>4, <3>1, <3>2
  <2> QED
    BY <1>2, <2>5
<1> QED
  BY <1>1, <1>2

\* Every node covers one sector.
Short == \A x \in UsedSlots : heap[x].len = 1

\* A list has a newest node.
LEMMA NewestExists ==
    ASSUME IInv, NEW m \in Modules, NEW N \in SUBSET opera_info[m], N # {}
    PROVE  Newest(N) # {}
<1> DEFINE Bad(M, k) == /\ M \subseteq opera_info[m] /\ M # {} /\ M \subseteq 1 .. k
                        /\ \A x \in M : \E y \in M : Newer(y, x)
           T == {k \in Nat : \E M \in SUBSET opera_info[m] : Bad(M, k)}
<1>1. OPRA_NUM \in Nat /\ N \subseteq 1 .. OPRA_NUM
  BY SizeAssumption DEF IInv, TypeOK, Slots
<1> SUFFICES ASSUME Newest(N) = {} PROVE FALSE
  OBVIOUS
<1>2. Bad(N, OPRA_NUM)
  BY <1>1 DEF Newest
<1>3. OPRA_NUM \in T
  BY <1>1, <1>2
<1>4. /\ \A k \in T : k \in Nat
      /\ \A k \in Nat : k \in T <=> \E M \in SUBSET opera_info[m] : Bad(M, k)
  OBVIOUS
<1> HIDE DEF T
<1>5. PICK k \in T : \A j \in T : k <= j
  BY <1>3, <1>4, LeastElement
<1>6. PICK M \in SUBSET opera_info[m] : Bad(M, k)
  BY <1>4, <1>5
<1>7. k \in Nat /\ k # 0 /\ k - 1 \in Nat
  <2>1. k \in Nat
    BY <1>4, <1>5
  <2>2. PICK x \in M : x \in 1 .. k
    BY <1>6
  <2> HIDE DEF Bad
  <2> QED
    BY <2>1, <2>2
<1>8. \A L \in SUBSET opera_info[m] : ~Bad(L, k - 1)
  <2>1. k - 1 \notin T
    BY <1>4, <1>5, <1>7
  <2> QED
    BY <1>4, <1>7, <2>1
<1>9. k \in M
  <2>1. ~(M \subseteq 1 .. k - 1)
    BY <1>6, <1>8
  <2> QED
    BY <1>6, <1>7, <2>1
<1>10. PICK y \in M : Newer(y, k)
  BY <1>6, <1>9
<1>11. y # k
  BY <1>6, <1>9, <1>10 DEF IInv, ListChained, Newer
<1>12. PICK x \in M \ {k} : \A z \in M \ {k} : ~Newer(z, x)
  <2>1. M \ {k} \subseteq 1 .. k - 1 /\ M \ {k} # {} /\ M \ {k} \in SUBSET opera_info[m]
    BY <1>6, <1>7, <1>11
  <2>2. ~Bad(M \ {k}, k - 1)
    BY <1>8, <2>1
  <2> QED
    BY <2>1, <2>2
<1>13. Newer(k, x)
  BY <1>6, <1>12
<1>14. heap[k].rest \subseteq heap[y].rest
  BY <1>6, <1>9, <1>10, <1>11 DEF IInv, ListChained
<1> QED
  BY <1>11, <1>12, <1>13, <1>14 DEF Newer

\* What the model's Contents says of a page.
LEMMA ContentsReads ==
    ASSUME IInv, Short, NEW m \in Modules, NEW N \in SUBSET opera_info[m],
           NEW s \in Sectors, NEW c \in Cells
    PROVE  Contents(m, N, s)[c] = Reads(flash[m], heap, N, s, c)
<1> DEFINE E == Erases(heap, N, s)
           erases == Newest({x \in N : heap[x].type = "E" /\ s \in Range(heap[x])})
           writes == {x \in N : /\ heap[x].type = "W" /\ heap[x].addr = s
                                /\ \A e \in erases : Newer(x, e)}
<1>1. \A x \in N : x \in UsedSlots /\ heap[x] \in Node
  BY ListFacts DEF UsedSlots
<1>2. \A x \in N : s \in Range(heap[x]) <=> heap[x].addr = s
  <2> SUFFICES ASSUME NEW x \in N PROVE s \in Range(heap[x]) <=> heap[x].addr = s
    OBVIOUS
  <2>1. heap[x].len = 1 /\ heap[x].addr \in Int /\ s \in Int
    BY <1>1, SizeAssumption DEF Short, Node, Sectors
  <2> QED
    BY <2>1 DEF Range
<1>3. {x \in N : heap[x].type = "E" /\ s \in Range(heap[x])} = E
  BY <1>2 DEF Erases
<1>4. erases = Newest(E) /\ E \in SUBSET opera_info[m] /\ E \subseteq N
  BY <1>3 DEF Erases
<1>5. erases = {} <=> E = {}
  <2>1. erases \subseteq E
    BY <1>4 DEF Newest
  <2> QED
    BY <1>4, <2>1, NewestExists
<1>6. \A x \in N : x \in writes <=> Counts(heap, N, s, x)
  <2> SUFFICES ASSUME NEW x \in N, heap[x].type = "W", heap[x].addr = s
               PROVE  (\A e \in erases : Newer(x, e)) <=> (\A e \in E : x \notin heap[e].rest)
    BY DEF Counts
  <2>1. \A e \in E : e # x /\ e \in opera_info[m] /\ x \in opera_info[m]
    BY <1>4 DEF Erases
  <2>2. \A e \in E : Newer(x, e) <=> x \notin heap[e].rest
    BY <2>1 DEF IInv, ListChained, Newer
  <2>3. CASE E = {}
    BY <1>5, <2>3
  <2>4. CASE E # {}
    <3>1. PICK e \in Newest(E) : TRUE
      BY <1>4, <2>4, NewestExists
    <3>2. e \in E /\ \A d \in E : ~Newer(d, e)
      BY DEF Newest
    <3>3. ASSUME Newer(x, e), NEW d \in E PROVE Newer(x, d)
      <4>1. CASE d = e
        BY <3>3, <4>1
      <4>2. CASE d # e
        <5>1. Newer(e, d)
          BY <2>1, <3>2, <4>2 DEF IInv, ListChained
        <5>2. heap[e].rest \subseteq heap[x].rest
          BY <2>1, <3>2, <3>3 DEF IInv, ListChained
        <5> QED
          BY <5>1, <5>2 DEF Newer
      <4> QED
        BY <4>1, <4>2
    <3>4. \A d \in erases : d \in E
      BY <1>4 DEF Newest
    <3>5. e \in erases
      BY <1>4
    <3> HIDE DEF erases, E
    <3> QED
      BY <2>2, <3>2, <3>3, <3>4, <3>5
  <2> QED
    BY <2>3, <2>4
<1>7. Contents(m, N, s)[c] =
         {b \in IF erases # {} THEN Bits ELSE flash[m][s][c] :
              \A x \in writes : c \in Programs(heap[x]) => b \in heap[x].data[c]}
  BY Zenon DEF Contents
<1>8. flash[m][s][c] \subseteq Bits
  BY DEF IInv, TypeOK, Sector, Byte
<1>9. \A x : x \in writes => x \in N
  OBVIOUS
<1> HIDE DEF erases, writes
<1>10. \A b : b \in Contents(m, N, s)[c] <=> b \in Reads(flash[m], heap, N, s, c)
  BY <1>5, <1>6, <1>7, <1>8, <1>9, ReadsOf
<1> QED
  BY <1>10

View(m, s, c) == Reads(flash[m], heap, opera_info[m], s, c)

\* The pages outside the range of a queued write that lie in its buffer: a later
\* write may draw them into the range, and then they must clear no bit.
BackedNode(fl, H, x) ==
    \A c \in Cells \ Programs(H[x]) : Reads(fl, H, H[x].rest, H[x].addr, c) \subseteq H[x].data[c]
Backed == \A m \in Modules : \A x \in opera_info[m] :
              heap[x].type = "W" => BackedNode(flash[m], heap, x)

SInv == Short /\ Backed

\* The parts of a list: the whole of it, and what a node's next chain reaches.
Part(m, N) == N \subseteq opera_info[m] /\ \A x \in N : heap[x].rest \subseteq N

LEMMA Parts ==
    ASSUME IInv, NEW m \in Modules
    PROVE  /\ Part(m, opera_info[m])
           /\ \A x \in opera_info[m] : Part(m, heap[x].rest)
BY DEF Part, IInv, ListChained, Newer

LEMMA TailLast ==
    ASSUME IInv, NEW m \in Modules, NEW t \in Tails(m)
    PROVE  /\ t \in opera_info[m] /\ heap[t].rest = {}
           /\ \A y \in opera_info[m] \ {t} : t \in heap[y].rest
BY DEF Tails, IInv, ListChained, Newer

LEMMA PartOldest ==
    ASSUME IInv, NEW m \in Modules, NEW t \in Tails(m), NEW N, Part(m, N), N # {}
    PROVE  t \in N /\ Oldest(heap, N, {t})
<1>1. t \in N
  <2>1. PICK y \in N : TRUE
    OBVIOUS
  <2> QED
    BY <2>1, TailLast DEF Part
<1> QED
  BY <1>1, TailLast DEF Part, Oldest

\* What the chip holds after one operation of one sector.
LEMMA NodeExecuted ==
    ASSUME NEW H, NEW t, H[t] \in Node, H[t].len = 1, H[t].rest = {},
           NEW fl \in [Sectors -> Sector], NEW s \in Sectors, NEW c \in Cells
    PROVE  Execute(fl, H[t], CELLS, Range(H[t]))[s][c] = Reads(fl, H, {t}, s, c)
<1>1. fl[s][c] \in Byte /\ Byte = SUBSET Bits
  BY DEF Sector, Byte
<1>2. s \in Range(H[t]) <=> H[t].addr = s
  <2>1. H[t].addr \in Int /\ s \in Int
    BY SizeAssumption DEF Node, Sectors
  <2> QED
    BY <2>1 DEF Range
<1>3. c < CELLS
  BY SizeAssumption DEF Cells
<1>4. \A b : b \in Reads(fl, H, {t}, s, c) <=>
            /\ b \in Bits
            /\ Erases(H, {t}, s) # {} \/ b \in fl[s][c]
            /\ Counts(H, {t}, s, t) /\ c \in Programs(H[t]) => b \in H[t].data[c]
  BY ReadsOf
<1>5. \A e : e \in Erases(H, {t}, s) <=> e = t /\ H[t].type = "E" /\ H[t].addr = s
  BY DEF Erases
<1>6. CASE H[t].type = "E"
  <2>1. Execute(fl, H[t], CELLS, Range(H[t]))[s][c] = IF H[t].addr = s THEN Bits ELSE fl[s][c]
    BY <1>2, <1>6 DEF Execute, Blank
  <2>2. ~Counts(H, {t}, s, t)
    BY <1>6 DEF Counts
  <2>3. \A b : b \in Reads(fl, H, {t}, s, c)
                  <=> b \in IF H[t].addr = s THEN Bits ELSE fl[s][c]
    BY <1>1, <1>4, <1>5, <1>6, <2>2
  <2> QED
    BY <2>1, <2>3
<1>7. CASE H[t].type = "W"
  <2>1. Execute(fl, H[t], CELLS, Range(H[t]))[s][c] =
           IF H[t].addr = s /\ c \in Programs(H[t]) THEN fl[s][c] \cap H[t].data[c] ELSE fl[s][c]
    BY <1>2, <1>3, <1>7 DEF Execute
  <2>2. Erases(H, {t}, s) = {}
    BY <1>5, <1>7
  <2>3. Counts(H, {t}, s, t) <=> H[t].addr = s
    BY <1>7, <2>2 DEF Counts
  <2>4. \A b : b \in Reads(fl, H, {t}, s, c) <=>
                /\ b \in fl[s][c]
                /\ H[t].addr = s /\ c \in Programs(H[t]) => b \in H[t].data[c]
    BY <1>1, <1>4, <2>2, <2>3
  <2>5. CASE H[t].addr = s /\ c \in Programs(H[t])
    <3>1. \A b : b \in Reads(fl, H, {t}, s, c) <=> b \in fl[s][c] /\ b \in H[t].data[c]
      BY <2>4, <2>5
    <3> QED
      BY <2>1, <2>5, <3>1
  <2>6. CASE ~(H[t].addr = s /\ c \in Programs(H[t]))
    <3>1. \A b : b \in Reads(fl, H, {t}, s, c) <=> b \in fl[s][c]
      BY <2>4, <2>6
    <3> QED
      BY <2>1, <2>6, <3>1
  <2> QED
    BY <2>5, <2>6
<1> QED
  BY <1>6, <1>7 DEF Node

\* The nodes that stay when others are freed.
LEMMA FreedSame ==
    ASSUME IInv, NEW m \in Modules, NEW D
    PROVE  /\ \A x \in opera_info[m] \ D :
                /\ Freed(D)[x].type = heap[x].type /\ Freed(D)[x].addr = heap[x].addr
                /\ Freed(D)[x].data = heap[x].data /\ Freed(D)[x].len = heap[x].len
                /\ Programs(Freed(D)[x]) = Programs(heap[x])
                /\ Freed(D)[x].rest = heap[x].rest \ D
           /\ \A N : N \subseteq opera_info[m] /\ N \cap D = {}
                      => SameNodes(heap, Freed(D), N)
<1>1. ASSUME NEW x \in opera_info[m] \ D
      PROVE  /\ Freed(D)[x].type = heap[x].type /\ Freed(D)[x].addr = heap[x].addr
             /\ Freed(D)[x].data = heap[x].data /\ Freed(D)[x].len = heap[x].len
             /\ Programs(Freed(D)[x]) = Programs(heap[x])
             /\ Freed(D)[x].rest = heap[x].rest \ D
  <2>1. heap[x] \in Node /\ x \in Slots /\ heap[x] # NULL
    BY ListFacts
  <2>2. Freed(D)[x] = Cut(heap[x], D)
    BY <2>1 DEF Freed
  <2> QED
    BY <2>1, <2>2 DEF Cut, Node, Programs
<1> QED
  BY <1>1 DEF SameNodes

\* A module's list that keeps its order, and what its parts read.
Reading(q, D) ==
    /\ opera_info'[q] = opera_info[q] \ D
    /\ \A x \in opera_info[q] \ D :
         /\ heap'[x].type = heap[x].type /\ heap'[x].addr = heap[x].addr
         /\ heap'[x].data = heap[x].data /\ Programs(heap'[x]) = Programs(heap[x])
         /\ heap'[x].rest = heap[x].rest \ D

\* A write rests on its older nodes alone, which are read as before.
LEMMA BackedKept ==
    ASSUME Backed, NEW q \in Modules, NEW D, Reading(q, D),
           \A x \in opera_info[q] \ D : heap[x].type = "W" =>
            \A c \in Cells \ Programs(heap[x]) :
                Reads(flash'[q], heap', heap[x].rest \ D, heap[x].addr, c)
                 = Reads(flash[q], heap, heap[x].rest, heap[x].addr, c)
    PROVE  \A x \in opera_info'[q] : heap'[x].type = "W" => BackedNode(flash'[q], heap', x)
BY DEF Backed, BackedNode, Reading

Steady(q) == \A s \in Sectors, c \in Cells :
    Reads(flash'[q], heap', opera_info'[q], s, c) = View(q, s, c)
Backing(q) == \A x \in opera_info'[q] : heap'[x].type = "W" => BackedNode(flash'[q], heap', x)

\* A step that takes the nodes D away leaves module q's sectors, and what its
\* queued writes rest on, as they are read.
LEMMA ReadingKept ==
    ASSUME IInv, Backed, NEW q \in Modules, NEW D, Reading(q, D),
           \A s \in Sectors, c \in Cells :
              Reads(flash'[q], heap', opera_info[q] \ D, s, c) = View(q, s, c),
           \A x \in opera_info[q] \ D : heap[x].type = "W" =>
              \A c \in Cells \ Programs(heap[x]) :
                 Reads(flash'[q], heap', heap[x].rest \ D, heap[x].addr, c)
                    = Reads(flash[q], heap, heap[x].rest, heap[x].addr, c)
    PROVE  Steady(q) /\ Backing(q)
<1>1. Steady(q)
  BY DEF Steady, Reading
<1>2. Backing(q)
  BY BackedKept DEF Backing
<1> QED
  BY <1>1, <1>2

\* Outside a coprocessor's boot the chip is always open where it must be.
LEMMA OpenRange ==
    ASSUME IInv, Protected, NEW m \in Modules, NEW x \in Current(m)
    PROVE  Open(m, heap[x]) = Range(heap[x])
<1>1. CASE state[m] = "IDLE"
  BY <1>1 DEF Open
<1>2. CASE state[m] # "IDLE"
  <2>1. cur_opera_info[m] # NULL
    BY <1>2, SuspendedNode, NullAssumption DEF Slots
  <2> QED
    BY <1>2, <2>1 DEF Open, Protected, Current
<1> QED
  BY <1>1, <1>2

\* Module m's oldest node, executed and freed.
LEMMA TailExecuted ==
    ASSUME IInv, Short, NEW m \in Modules, NEW x \in Tails(m)
    PROVE  \A N : Part(m, N) /\ N # {} => \A s \in Sectors, c \in Cells :
              Reads(Execute(flash[m], heap[x], CELLS, Range(heap[x])), heap, N \ {x}, s, c)
                 = Reads(flash[m], heap, N, s, c)
<1>1. heap[x] \in Node /\ heap[x].len = 1 /\ heap[x].rest = {}
  BY ListFacts, TailLast DEF Short, UsedSlots
<1>2. flash[m] \in [Sectors -> Sector]
  BY DEF IInv, TypeOK
<1>3. ASSUME NEW s \in Sectors, NEW c \in Cells
      PROVE  Execute(flash[m], heap[x], CELLS, Range(heap[x]))[s][c]
                = Reads(flash[m], heap, {x}, s, c)
  BY ONLY <1>1, <1>2, <1>3, NodeExecuted
<1> DEFINE fl == Execute(flash[m], heap[x], CELLS, Range(heap[x]))
<1>5. \A s \in Sectors, c \in Cells : fl[s][c] = Reads(flash[m], heap, {x}, s, c)
  BY <1>3
<1> HIDE DEF fl
<1>4. ASSUME NEW N, Part(m, N), N # {}, NEW s \in Sectors, NEW c \in Cells
      PROVE  Reads(fl, heap, N \ {x}, s, c) = Reads(flash[m], heap, N, s, c)
  <2>1. x \in N /\ Oldest(heap, N, {x})
    BY <1>4, PartOldest
  <2> QED
    BY <1>5, <2>1, ExecutedReads
<1> QED
  BY <1>4 DEF fl

\* _opera_flush executes the oldest node of the current module and frees it.
LEMMA CompleteRefines ==
    ASSUME IInv, Protected, SInv, NEW f \in Flushers, FlushComplete(f)
    PROVE  \A q \in Modules : Steady(q) /\ Backing(q)
<1>1. PICK m \in Modules : m = pick[f]
  BY DEF FlushComplete, IInv, TypeOK
<1>2. PICK x \in Current(m) :
        /\ flash' = [flash EXCEPT ![m] = Execute(flash[m], heap[x], CELLS, Open(m, heap[x]))]
        /\ OperaDel(m, x)
  BY <1>1 DEF FlushComplete
<1>3. x \in Tails(m) /\ heap[x].rest = {}
  BY ListFacts, TailLast
<1>4. /\ heap' = Freed({x})
      /\ opera_info' = [opera_info EXCEPT ![m] = @ \ ({x} \cup heap[x].rest)]
  BY <1>2 DEF OperaDel, Free
<1>5. {x} \cup heap[x].rest = {x}
  BY <1>3
<1>6. ASSUME NEW q \in Modules PROVE opera_info'[q] = opera_info[q] \ {x}
  <2>1. q # m => opera_info[q] \ {x} = opera_info[q]
    BY CurrentFacts
  <2> QED
    BY <1>4, <1>5, <2>1 DEF IInv, TypeOK
<1>7. \A q \in Modules : Reading(q, {x})
  BY <1>4, <1>6, FreedSame DEF Reading
<1> DEFINE fl == Execute(flash[m], heap[x], CELLS, Range(heap[x]))
<1>8. \A N : Part(m, N) /\ N # {} => \A s \in Sectors, c \in Cells :
        Reads(fl, heap, N \ {x}, s, c) = Reads(flash[m], heap, N, s, c)
  BY <1>3, TailExecuted DEF SInv
<1>9. flash'[m] = fl /\ \A q \in Modules : q # m => flash'[q] = flash[q]
  BY <1>2, OpenRange DEF IInv, TypeOK
<1> HIDE DEF fl
<1>10. ASSUME NEW q \in Modules,
              NEW N, N = opera_info[q] \/ (\E y \in opera_info[q] \ {x} : N = heap[y].rest),
              NEW s \in Sectors, NEW c \in Cells
       PROVE  Reads(flash'[q], heap', N \ {x}, s, c) = Reads(flash[q], heap, N, s, c)
  <2>1. Part(q, N)
    BY <1>10, Parts
  <2>2. SameNodes(heap, heap', N \ {x})
    BY <1>4, <2>1, FreedSame DEF Part
  <2>3. Reads(flash'[q], heap', N \ {x}, s, c) = Reads(flash'[q], heap, N \ {x}, s, c)
    BY <2>2, SameReads
  <2>4. CASE q = m
    <3>1. N # {}
      BY <1>3, <1>10, <2>4, TailLast
    <3> QED
      BY <1>8, <1>9, <2>1, <2>3, <2>4, <3>1
  <2>5. CASE q # m
    <3>1. N \ {x} = N
      BY <2>1, <2>5, CurrentFacts DEF Part
    <3> QED
      BY <1>9, <2>3, <2>5, <3>1
  <2> QED
    BY <2>4, <2>5
<1>11. ASSUME NEW q \in Modules PROVE Steady(q) /\ Backing(q)
  <2>1. \A s \in Sectors, c \in Cells :
          Reads(flash'[q], heap', opera_info[q] \ {x}, s, c) = View(q, s, c)
    BY <1>10 DEF View
  <2>2. \A y \in opera_info[q] \ {x} : heap[y].addr \in Sectors
    BY ListFacts DEF Node
  <2>3. \A y \in opera_info[q] \ {x} : heap[y].type = "W" =>
          \A c \in Cells \ Programs(heap[y]) :
             Reads(flash'[q], heap', heap[y].rest \ {x}, heap[y].addr, c)
                = Reads(flash[q], heap, heap[y].rest, heap[y].addr, c)
    BY <1>10, <2>2
  <2>4. Reading(q, {x}) /\ Backed
    BY <1>7 DEF SInv
  <2> QED
    BY <2>1, <2>3, <2>4, ReadingKept
<1> QED
  BY <1>11

\* While a node waits, what the chip has done of it does not show.
Hides(n, fl, gl) == \A s \in Sectors, c \in Cells :
    /\ s # n.addr => gl[s][c] = fl[s][c]
    /\ n.type = "W" => gl[s][c] \cap n.data[c] = fl[s][c] \cap n.data[c]
    /\ n.type = "W" /\ c \notin Programs(n) => gl[s][c] = fl[s][c]

LEMMA HiddenReads ==
    ASSUME NEW H, NEW N, NEW t, Oldest(H, N, {t}), H[t].type \in {"W", "E"},
           NEW fl, NEW gl, Hides(H[t], fl, gl), NEW s \in Sectors, NEW c \in Cells
    PROVE  Reads(gl, H, N, s, c) = Reads(fl, H, N, s, c)
<1>1. \A e : e \in Erases(H, {t}, s) <=> e = t /\ H[t].type = "E" /\ H[t].addr = s
  BY DEF Erases
<1>2. \A b : b \in Reads(fl, H, {t}, s, c) <=>
            /\ b \in Bits
            /\ Erases(H, {t}, s) # {} \/ b \in fl[s][c]
            /\ Counts(H, {t}, s, t) /\ c \in Programs(H[t]) => b \in H[t].data[c]
  BY ReadsOf
<1>3. \A b : b \in Reads(gl, H, {t}, s, c) <=>
            /\ b \in Bits
            /\ Erases(H, {t}, s) # {} \/ b \in gl[s][c]
            /\ Counts(H, {t}, s, t) /\ c \in Programs(H[t]) => b \in H[t].data[c]
  BY ReadsOf
<1>4. /\ s # H[t].addr => gl[s][c] = fl[s][c]
      /\ H[t].type = "W" => \A b : b \in gl[s][c] /\ b \in H[t].data[c]
                                    <=> b \in fl[s][c] /\ b \in H[t].data[c]
      /\ H[t].type = "W" /\ c \notin Programs(H[t]) => gl[s][c] = fl[s][c]
  <2>1. H[t].type = "W" => gl[s][c] \cap H[t].data[c] = fl[s][c] \cap H[t].data[c]
    BY DEF Hides
  <2> QED
    BY <2>1 DEF Hides
<1>5. \A b : b \in Reads(gl, H, {t}, s, c) <=> b \in Reads(fl, H, {t}, s, c)
  <2>1. CASE H[t].type = "E" /\ H[t].addr = s
    BY <1>1, <1>2, <1>3, <2>1
  <2>2. CASE H[t].addr # s
    BY <1>2, <1>3, <1>4, <2>2
  <2>3. CASE H[t].type = "W" /\ H[t].addr = s
    <3>1. Counts(H, {t}, s, t)
      BY <1>1, <2>3 DEF Counts
    <3> QED
      BY <1>1, <1>2, <1>3, <1>4, <2>3, <3>1
  <2> QED
    BY <2>1, <2>2, <2>3
<1> DEFINE hl == [u \in {s} |-> [w \in {c} |-> Reads(fl, H, {t}, s, c)]]
<1>6. hl[s][c] = Reads(fl, H, {t}, s, c) /\ hl[s][c] = Reads(gl, H, {t}, s, c)
  BY <1>5
<1> HIDE DEF hl
<1>7. Reads(hl, H, N \ {t}, s, c) = Reads(fl, H, N, s, c)
  BY <1>6, ExecutedReads
<1>8. Reads(hl, H, N \ {t}, s, c) = Reads(gl, H, N, s, c)
  BY <1>6, ExecutedReads
<1> QED
  BY <1>7, <1>8

LEMMA ShortRange ==
    ASSUME NEW n \in Node, n.len = 1
    PROVE  \A s \in Sectors : s \in Range(n) <=> s = n.addr
<1> SUFFICES ASSUME NEW s \in Sectors PROVE s \in Range(n) <=> s = n.addr
  OBVIOUS
<1>1. n.addr \in Int /\ s \in Int
  BY SizeAssumption DEF Node, Sectors
<1> QED
  BY <1>1 DEF Range

\* The part of a write that the chip has programmed is hidden by the node, which
\* stays queued.
LEMMA PartHides ==
    ASSUME NEW n \in Node, n.len = 1, n.type = "W", NEW k \in Programs(n), NEW g,
           NEW fl \in [Sectors -> Sector]
    PROVE  Hides(n, fl, PartWritten(Execute(fl, n, k, Range(n)), n, k, g, Range(n)))
<1> DEFINE ex == Execute(fl, n, k, Range(n))
           gl == PartWritten(ex, n, k, g, Range(n))
<1> SUFFICES ASSUME NEW s \in Sectors, NEW c \in Cells
             PROVE  /\ s # n.addr => gl[s][c] = fl[s][c]
                    /\ gl[s][c] \cap n.data[c] = fl[s][c] \cap n.data[c]
                    /\ c \notin Programs(n) => gl[s][c] = fl[s][c]
  BY DEF Hides
<1>1. s \in Range(n) <=> s = n.addr
  BY ShortRange
<1>2. k \in Int /\ ~(k < k)
  BY SizeAssumption DEF Programs, Node, Cells
<1>3. CASE s # n.addr
  <2>1. ex[s] = fl[s]
    BY <1>1, <1>3 DEF Execute
  <2>2. gl[s] = ex[s]
    BY <1>1, <1>3 DEF PartWritten
  <2> QED
    BY <1>3, <2>1, <2>2
<1>4. CASE s = n.addr
  <2>1. ex[s] = [d \in Cells |-> IF d \in Programs(n) /\ d < k
                                 THEN fl[s][d] \cap n.data[d] ELSE fl[s][d]]
    BY <1>1, <1>4 DEF Execute
  <2>2. gl[s] = [ex[s] EXCEPT ![k] = @ \cap (n.data[k] \cup g)]
    BY <1>1, <1>4 DEF PartWritten
  <2> HIDE DEF ex, gl
  <2>3. CASE c = k
    <3>1. ex[s][c] = fl[s][c]
      BY <1>2, <2>1, <2>3
    <3>2. gl[s][c] = fl[s][c] \cap (n.data[c] \cup g)
      BY <2>1, <2>2, <2>3, <3>1
    <3> QED
      BY <1>4, <2>3, <3>2
  <2>4. CASE c # k
    <3>1. gl[s][c] = ex[s][c]
      BY <2>1, <2>2, <2>4
    <3> QED
      BY <1>4, <2>1, <3>1
  <2> QED
    BY <2>3, <2>4
<1> QED
  BY <1>3, <1>4

LEMMA LockedSame ==
    ASSUME NEW n \in Node
    PROVE  /\ Locked(n).type = n.type /\ Locked(n).addr = n.addr /\ Locked(n).len = n.len
           /\ Locked(n).data = n.data /\ Locked(n).rest = n.rest
           /\ Programs(Locked(n)) = Programs(n)
BY DEF Locked, Node, Programs

\* An operation that the driver suspends has changed part of its sector only.
LEMMA SuspendRefines ==
    ASSUME IInv, Protected, SInv, NEW f \in Flushers, FlushSuspend(f)
    PROVE  \A q \in Modules : Steady(q) /\ Backing(q)
<1>1. PICK m \in Modules : m = pick[f]
  BY DEF FlushSuspend, IInv, TypeOK
<1>2. PICK x \in Current(pick[f]) :
        /\ \/ /\ heap[x].type = "W"
              /\ \E k \in Programs(heap[x]), g \in Byte :
                   /\ state[pick[f]] # "IDLE" => hal.next <= k
                   /\ flash' = [flash EXCEPT ![pick[f]] =
                        PartWritten(Execute(flash[pick[f]], heap[x], k, Open(pick[f], heap[x])),
                                    heap[x], k, g, Open(pick[f], heap[x]))]
                   /\ hal' = [st |-> Suspended(heap[x]), mod |-> pick[f], next |-> k]
           \/ /\ heap[x].type = "E"
              /\ \E D \in SUBSET (Open(pick[f], heap[x]) \cap Range(heap[x])) :
                 \E g \in [D -> Byte] :
                   flash' = [flash EXCEPT ![pick[f]] =
                      [s \in Sectors |-> IF s \in D THEN [c \in Cells |-> g[s]]
                                         ELSE flash[pick[f]][s]]]
              /\ hal' = [st |-> Suspended(heap[x]), mod |-> pick[f], next |-> 0]
        /\ heap' = [heap EXCEPT ![x] = Locked(heap[x])]
  BY DEF FlushSuspend
<1>3. x \in Tails(m) /\ heap[x].rest = {} /\ x \in opera_info[m]
  BY <1>1, <1>2, ListFacts, TailLast
<1>4. heap[x] \in Node /\ heap[x].len = 1 /\ x \in Slots /\ heap[x].type \in {"W", "E"}
  BY <1>3, ListFacts DEF SInv, Short, UsedSlots, Node
<1>5. UNCHANGED opera_info
  BY DEF FlushSuspend
<1>6. flash[m] \in [Sectors -> Sector] /\ flash \in [Modules -> [Sectors -> Sector]]
  BY DEF IInv, TypeOK
<1>7. Open(m, heap[x]) = Range(heap[x])
  BY <1>1, <1>2, OpenRange
<1>8. Hides(heap[x], flash[m], flash'[m]) /\ \A q \in Modules : q # m => flash'[q] = flash[q]
  <2>1. CASE heap[x].type = "W"
    <3>1. PICK k \in Programs(heap[x]), g \in Byte :
             flash' = [flash EXCEPT ![m] =
                PartWritten(Execute(flash[m], heap[x], k, Range(heap[x])),
                            heap[x], k, g, Range(heap[x]))]
      BY <1>1, <1>2, <1>7, <2>1
    <3>2. flash'[m] = PartWritten(Execute(flash[m], heap[x], k, Range(heap[x])),
                                  heap[x], k, g, Range(heap[x]))
      BY <1>6, <3>1
    <3>3. Hides(heap[x], flash[m], flash'[m])
      BY ONLY <1>4, <1>6, <2>1, <3>2, PartHides
    <3> QED
      BY <1>6, <3>1, <3>3
  <2>2. CASE heap[x].type = "E"
    <3>1. PICK D \in SUBSET (Open(pick[f], heap[x]) \cap Range(heap[x])) :
             \E g \in [D -> Byte] :
                flash' = [flash EXCEPT ![pick[f]] =
                   [s \in Sectors |-> IF s \in D THEN [c \in Cells |-> g[s]]
                                      ELSE flash[pick[f]][s]]]
      BY <1>2, <2>2
    <3>2. PICK g \in [D -> Byte] : flash' = [flash EXCEPT ![pick[f]] =
             [s \in Sectors |-> IF s \in D THEN [c \in Cells |-> g[s]]
                                ELSE flash[pick[f]][s]]]
      BY <3>1
    <3>3. flash'[m] = [s \in Sectors |-> IF s \in D THEN [c \in Cells |-> g[s]]
                                         ELSE flash[m][s]]
      BY <1>1, <1>6, <3>2
    <3>4. Hides(heap[x], flash[m], flash'[m])
      <4>1. \A s \in Sectors : s \in D => s = heap[x].addr
        BY <1>4, ShortRange
      <4>2. \A s \in Sectors : s # heap[x].addr => flash'[m][s] = flash[m][s]
        BY <3>3, <4>1
      <4> QED
        BY <2>2, <4>2 DEF Hides
    <3> QED
      BY <1>1, <1>6, <3>2, <3>4
  <2> QED
    BY <1>4, <2>1, <2>2
<1>9. \A q \in Modules : \A y \in opera_info[q] :
         /\ heap'[y].type = heap[y].type /\ heap'[y].addr = heap[y].addr
         /\ heap'[y].data = heap[y].data /\ heap'[y].rest = heap[y].rest
         /\ Programs(heap'[y]) = Programs(heap[y])
  <2>1. \A q \in Modules : \A y \in opera_info[q] : y # x => heap'[y] = heap[y]
    BY <1>2, ListFacts DEF IInv, TypeOK
  <2>2. heap'[x] = Locked(heap[x])
    BY <1>2, <1>4 DEF IInv, TypeOK
  <2> QED
    BY <1>4, <2>1, <2>2, LockedSame
<1>10. ASSUME NEW q \in Modules PROVE Reading(q, {})
  BY <1>5, <1>9 DEF Reading
<1>11. ASSUME NEW q \in Modules, NEW N, Part(q, N), NEW s \in Sectors, NEW c \in Cells,
              q = m => N # {} \/ flash'[q][s][c] = flash[q][s][c]
       PROVE  Reads(flash'[q], heap', N, s, c) = Reads(flash[q], heap, N, s, c)
  <2>1. SameNodes(heap, heap', N)
    BY <1>9, <1>11 DEF SameNodes, Part
  <2>2. CASE flash'[q][s][c] = flash[q][s][c]
    BY <2>1, <2>2, SameReads
  <2>3. CASE q = m /\ N # {}
    <3>1. Oldest(heap, N, {x})
      BY <1>3, <1>11, <2>3, PartOldest
    <3>2. Reads(flash'[m], heap, N, s, c) = Reads(flash[m], heap, N, s, c)
      BY <1>4, <1>8, <3>1, HiddenReads
    <3>3. Reads(flash'[q], heap', N, s, c) = Reads(flash'[q], heap, N, s, c)
      BY <2>1, SameReads
    <3> QED
      BY <2>3, <3>2, <3>3
  <2> QED
    BY <1>8, <1>11, <2>2, <2>3
<1>12. ASSUME NEW q \in Modules PROVE Steady(q) /\ Backing(q)
  <2>1. q = m => opera_info[q] # {}
    BY <1>3
  <2>2. \A s \in Sectors, c \in Cells :
          Reads(flash'[q], heap', opera_info[q], s, c) = View(q, s, c)
    BY <1>11, <2>1, Parts DEF View
  <2>3. ASSUME NEW y \in opera_info[q], heap[y].type = "W", NEW c \in Cells \ Programs(heap[y])
        PROVE  Reads(flash'[q], heap', heap[y].rest, heap[y].addr, c)
                  = Reads(flash[q], heap, heap[y].rest, heap[y].addr, c)
    <3>1. heap[y].addr \in Sectors /\ Part(q, heap[y].rest)
      BY ListFacts, Parts DEF Node
    <3>2. CASE q = m /\ y = x
      <4>1. flash'[q][heap[y].addr][c] = flash[q][heap[y].addr][c]
        BY <1>8, <2>3, <3>1, <3>2 DEF Hides
      <4> QED
        BY <1>11, <3>1, <4>1
    <3>3. CASE q = m /\ y # x
      <4>1. heap[y].rest # {}
        BY <1>3, <3>3, TailLast
      <4> QED
        BY <1>11, <3>1, <4>1
    <3>4. CASE q # m
      BY <1>11, <3>1, <3>4
    <3> QED
      BY <3>2, <3>3, <3>4
  <2> DEFINE D == {}
  <2>4. opera_info[q] \ D = opera_info[q] /\ \A y : heap[y].rest \ D = heap[y].rest
    OBVIOUS
  <2>5. Reading(q, D) /\ Backed
    BY <1>10 DEF SInv
  <2> HIDE DEF D
  <2> QED
    BY <2>2, <2>3, <2>4, <2>5, ReadingKept
<1> QED
  BY <1>12

\* Nodes of other sectors do not matter.
LEMMA Irrelevant ==
    ASSUME NEW H, NEW M, NEW N, N \subseteq M, NEW s, \A x \in M \ N : H[x].addr # s,
           NEW fl, NEW c
    PROVE  Reads(fl, H, M, s, c) = Reads(fl, H, N, s, c)
<1>1. Erases(H, M, s) = Erases(H, N, s)
  BY DEF Erases
<1>2. \A x \in M : Counts(H, M, s, x) <=> x \in N /\ Counts(H, N, s, x)
  BY <1>1 DEF Counts
<1>3. \A b : b \in Reads(fl, H, M, s, c) <=>
            /\ b \in Bits
            /\ Erases(H, M, s) # {} \/ b \in fl[s][c]
            /\ \A x \in M : Counts(H, M, s, x) /\ c \in Programs(H[x]) => b \in H[x].data[c]
  BY ReadsOf
<1>4. \A b : b \in Reads(fl, H, N, s, c) <=>
            /\ b \in Bits
            /\ Erases(H, N, s) # {} \/ b \in fl[s][c]
            /\ \A x \in N : Counts(H, N, s, x) /\ c \in Programs(H[x]) => b \in H[x].data[c]
  BY ReadsOf
<1>5. \A b : b \in Reads(fl, H, M, s, c) <=> b \in Reads(fl, H, N, s, c)
  BY <1>1, <1>2, <1>3, <1>4
<1> QED
  BY <1>5

\* What a step makes of the pages l from o of a module's sector.
Effect(m, s, o, l, v) == \A q \in Modules, u \in Sectors, c \in Cells :
    Reads(flash'[q], heap', opera_info'[q], u, c) =
       IF q = m /\ u = s /\ c \in o .. o + l - 1 THEN View(q, u, c) \cap v ELSE View(q, u, c)

\* A write that may still be merged into is the newest of its sector.
LEMMA HitIsNewest ==
    ASSUME IInv, NEW m \in Modules, NEW s, NEW x \in WriteHit(m, s), heap[x].type = "W"
    PROVE  /\ x \in opera_info[m] /\ heap[x].addr = s /\ heap[x] \in Node /\ x \in Slots
           /\ \A y \in opera_info[m] : heap[y].addr = s /\ y # x =>
                y \in heap[x].rest /\ x \notin heap[y].rest
<1>1. /\ x \in opera_info[m] /\ heap[x].addr = s /\ ~heap[x].lock
      /\ \A y \in opera_info[m] : heap[y].addr = s /\ (heap[y].type = "E" \/ ~heap[y].lock)
            => ~Newer(y, x)
  BY DEF WriteHit, Newest
<1>2. \A y \in opera_info[m] : heap[y].lock => heap[y].rest = {}
  BY ListFacts, LockedIsTail
<1>3. ASSUME NEW y \in opera_info[m], heap[y].addr = s, y # x
      PROVE  y \in heap[x].rest /\ x \notin heap[y].rest
  <2>1. ~Newer(y, x)
    <3>1. CASE heap[y].lock
      BY <1>2, <3>1 DEF Newer
    <3>2. CASE ~heap[y].lock
      BY <1>1, <1>3, <3>2
    <3> QED
      BY <3>1, <3>2
  <2> QED
    BY <1>1, <1>3, <2>1 DEF IInv, ListChained, Newer
<1> QED
  BY <1>1, <1>3, ListFacts

\* The range of a merged node, and its data.
LEMMA MergedData ==
    ASSUME NEW n \in Node, NEW o \in Cells, NEW l \in 1 .. CELLS, o + l <= CELLS, NEW v \in Byte
    PROVE  /\ Merged(n, o, l, v).type = n.type /\ Merged(n, o, l, v).addr = n.addr
           /\ Merged(n, o, l, v).rest = n.rest /\ Merged(n, o, l, v).len = n.len
           /\ \A c \in Cells : Merged(n, o, l, v).data[c] =
                 IF c \in o .. o + l - 1 THEN v ELSE n.data[c]
           /\ \A c \in Cells : c \in Programs(n) \/ c \in o .. o + l - 1
                 => c \in Programs(Merged(n, o, l, v))
<1> DEFINE h == Hull(n, o, l)
<1>1. Merged(n, o, l, v) = [n EXCEPT !.w_offs = h.offs, !.w_len = h.len,
                                     !.data = Overwrite(@, o, l, v)]
  BY DEF Merged
<1>2. /\ n.w_offs \in Nat /\ n.w_len \in Nat /\ o \in Nat /\ l \in Nat
  BY SizeAssumption DEF Node, Cells
<1> HIDE DEF h
<1>3. /\ h.offs \in Int /\ h.len \in Int
      /\ h.offs <= n.w_offs /\ h.offs <= o
      /\ n.w_offs + n.w_len <= h.offs + h.len /\ o + l <= h.offs + h.len
  BY <1>2 DEF h, Hull
<1>4. /\ Merged(n, o, l, v).w_offs = h.offs /\ Merged(n, o, l, v).w_len = h.len
      /\ Merged(n, o, l, v).data = Overwrite(n.data, o, l, v)
  BY <1>1 DEF Node
<1>5. ASSUME NEW c \in Cells, c \in Programs(n) \/ c \in o .. o + l - 1
      PROVE  c \in Programs(Merged(n, o, l, v))
  BY <1>2, <1>3, <1>4, <1>5, SizeAssumption DEF Programs, Cells
<1> QED
  BY <1>1, <1>4, <1>5 DEF Node, Overwrite

\* _w_opera_add overwrites the buffer of the queued write.
LEMMA MergeRefines ==
    ASSUME IInv, SInv, NEW m \in Modules, NEW s \in Sectors, NEW o \in Cells,
           NEW l \in 1 .. CELLS, NEW v \in Byte, o + l <= CELLS,
           \A c \in o .. o + l - 1 : v \subseteq View(m, s, c),
           MergeWrite(m, s, o, l, v), UNCHANGED flash
    PROVE  Effect(m, s, o, l, v) /\ \A q \in Modules : Backing(q)
<1>1. PICK x \in WriteHit(m, s) : /\ heap[x].type = "W"
                                  /\ heap' = [heap EXCEPT ![x] = Merged(@, o, l, v)]
  BY DEF MergeWrite
<1>2. UNCHANGED opera_info
  BY DEF MergeWrite
<1>3. /\ x \in opera_info[m] /\ heap[x].addr = s /\ heap[x] \in Node /\ x \in Slots
      /\ \A y \in opera_info[m] : heap[y].addr = s /\ y # x =>
           y \in heap[x].rest /\ x \notin heap[y].rest
  BY <1>1, HitIsNewest
<1>4. heap'[x] = Merged(heap[x], o, l, v) /\ \A y \in Slots : y # x => heap'[y] = heap[y]
  BY <1>1, <1>3 DEF IInv, TypeOK
<1>5. /\ heap'[x].type = "W" /\ heap'[x].addr = s /\ heap'[x].rest = heap[x].rest
      /\ \A c \in Cells : heap'[x].data[c] = IF c \in o .. o + l - 1 THEN v ELSE heap[x].data[c]
      /\ \A c \in Cells : c \in Programs(heap[x]) \/ c \in o .. o + l - 1
            => c \in Programs(heap'[x])
  BY <1>1, <1>3, <1>4, MergedData
<1>6. \A q \in Modules : opera_info[q] \subseteq Slots /\ (q # m => x \notin opera_info[q])
  BY <1>3, ListFacts DEF IInv, PoolAccounted
\* Parts without x, and sectors other than its own, read the same.
<1>7. ASSUME NEW q \in Modules, NEW N, Part(q, N), x \notin N, NEW u, NEW c
      PROVE  Reads(flash[q], heap', N, u, c) = Reads(flash[q], heap, N, u, c)
  <2>1. SameNodes(heap, heap', N)
    BY <1>4, <1>6, <1>7 DEF SameNodes, Part
  <2> QED
    BY <2>1, SameReads
<1>8. ASSUME NEW N, Part(m, N), NEW u, u # s, NEW c
      PROVE  Reads(flash[m], heap', N, u, c) = Reads(flash[m], heap, N, u, c)
  <2> DEFINE K == N \ {x}
  <2>1. SameNodes(heap, heap', K)
    BY <1>4, <1>6, <1>8 DEF SameNodes, Part
  <2>2. Reads(flash[m], heap', K, u, c) = Reads(flash[m], heap, K, u, c)
    BY <2>1, SameReads
  <2>3. K \subseteq N /\ \A y \in N \ K : heap[y].addr # u /\ heap'[y].addr # u
    BY <1>3, <1>5, <1>8
  <2> HIDE DEF K
  <2>4. Reads(flash[m], heap', N, u, c) = Reads(flash[m], heap', K, u, c)
    BY <2>3, Irrelevant
  <2>5. Reads(flash[m], heap, N, u, c) = Reads(flash[m], heap, K, u, c)
    BY <2>3, Irrelevant
  <2> QED
    BY <2>2, <2>4, <2>5
\* The sector itself, page by page.
<1> DEFINE R == heap[x].rest
           Q(c) == Reads(flash[m], heap, R, s, c)
<1>9. Part(m, R) /\ x \notin R /\ R \subseteq opera_info[m]
  BY <1>3, Parts DEF Part, IInv, ListChained
<1>10. ASSUME NEW G, G \in {heap, heap'}, NEW c \in Cells
       PROVE  Reads(flash[m], G, opera_info[m], s, c) = Reads(flash[m], G, R \cup {x}, s, c)
  <2>1. R \cup {x} \subseteq opera_info[m]
    BY <1>3, <1>9
  <2>2. \A y \in opera_info[m] \ (R \cup {x}) : G[y].addr # s
    BY <1>3, <1>4, <1>6, <1>10
  <2> HIDE DEF R
  <2> QED
    BY <2>1, <2>2, Irrelevant
<1>11. ASSUME NEW c \in Cells
       PROVE  /\ \A b : b \in View(m, s, c) <=>
                    b \in Q(c) /\ (c \in Programs(heap[x]) => b \in heap[x].data[c])
              /\ \A b : b \in Reads(flash[m], heap', opera_info[m], s, c) <=>
                    b \in Q(c) /\ (c \in Programs(heap'[x]) => b \in heap'[x].data[c])
  <2>1. \A y \in R : heap'[y] = heap[y] /\ heap[y].rest \subseteq R
    BY <1>4, <1>6, <1>9 DEF Part
  <2> DEFINE M == R \cup {x}
  <2>2. \A y : y \in M <=> y \in R \/ y = x
    OBVIOUS
  <2> HIDE DEF R, M
  <2>7. heap[x].type = "W"
    BY <1>1
  <2>3. \A b : b \in Reads(flash[m], heap, M, s, c) <=>
           /\ b \in Reads(flash[m], heap, R, s, c)
           /\ heap[x].addr = s /\ c \in Programs(heap[x]) => b \in heap[x].data[c]
    BY ONLY <1>9, <2>1, <2>2, <2>7, WrittenReads
  <2>4. \A b : b \in Reads(flash[m], heap', M, s, c) <=>
           /\ b \in Reads(flash[m], heap', R, s, c)
           /\ heap'[x].addr = s /\ c \in Programs(heap'[x]) => b \in heap'[x].data[c]
    BY ONLY <1>5, <1>9, <2>1, <2>2, WrittenReads
  <2>5. Reads(flash[m], heap', R, s, c) = Reads(flash[m], heap, R, s, c)
    BY <1>7, <1>9
  <2>6. /\ View(m, s, c) = Reads(flash[m], heap, M, s, c)
        /\ Reads(flash[m], heap', opera_info[m], s, c) = Reads(flash[m], heap', M, s, c)
    BY <1>10 DEF View, M
  <2> QED
    BY <1>3, <1>5, <2>3, <2>4, <2>5, <2>6
<1>12. ASSUME NEW c \in Cells
       PROVE  Reads(flash[m], heap', opera_info[m], s, c) =
                 IF c \in o .. o + l - 1 THEN View(m, s, c) \cap v ELSE View(m, s, c)
  <2> DEFINE new == Reads(flash[m], heap', opera_info[m], s, c)
             old == View(m, s, c)
  <2>1. /\ \A b : b \in old <=> b \in Q(c) /\ (c \in Programs(heap[x]) => b \in heap[x].data[c])
        /\ \A b : b \in new <=> b \in Q(c) /\ (c \in Programs(heap'[x]) => b \in heap'[x].data[c])
    BY <1>11
  <2>2. c \in o .. o + l - 1 => v \subseteq old
    OBVIOUS
  <2> HIDE DEF Q, R, new, old
  <2>3. CASE c \in o .. o + l - 1
    <3>1. \A b : b \in new <=> b \in old /\ b \in v
      BY <1>5, <2>1, <2>2, <2>3
    <3>2. new = old \cap v
      BY <3>1
    <3> QED
      BY <2>3, <3>2 DEF new, old
  <2>4. CASE c \notin o .. o + l - 1
    <3>1. heap'[x].data[c] = heap[x].data[c]
      BY <1>5, <2>4
    <3>2. CASE c \in Programs(heap[x])
      <4>1. \A b : b \in new <=> b \in old
        BY <1>5, <2>1, <3>1, <3>2
      <4>2. new = old
        BY <4>1
      <4> QED
        BY <2>4, <4>2 DEF new, old
    <3>3. CASE c \notin Programs(heap[x])
      <4>1. Q(c) \subseteq heap[x].data[c]
        BY <1>1, <1>3, <3>3 DEF SInv, Backed, BackedNode, Q, R
      <4>2. \A b : b \in new <=> b \in old
        BY <2>1, <3>1, <3>3, <4>1
      <4>3. new = old
        BY <4>2
      <4> QED
        BY <2>4, <4>3 DEF new, old
    <3> QED
      BY <3>2, <3>3
  <2> QED
    BY <2>3, <2>4
<1>13. Effect(m, s, o, l, v)
  <2> SUFFICES ASSUME NEW q \in Modules, NEW u \in Sectors, NEW c \in Cells
               PROVE  Reads(flash[q], heap', opera_info[q], u, c) =
                         IF q = m /\ u = s /\ c \in o .. o + l - 1
                         THEN View(q, u, c) \cap v ELSE View(q, u, c)
    BY <1>2 DEF Effect
  <2>1. CASE q = m /\ u = s
    BY <1>12, <2>1
  <2>2. CASE q = m /\ u # s
    BY <1>8, <2>2, Parts DEF View
  <2>3. CASE q # m
    BY <1>6, <1>7, <2>3, Parts DEF View
  <2> QED
    BY <2>1, <2>2, <2>3
<1>14. ASSUME NEW q \in Modules, NEW y \in opera_info[q], heap'[y].type = "W",
              NEW c \in Cells \ Programs(heap'[y])
       PROVE  Reads(flash[q], heap', heap'[y].rest, heap'[y].addr, c) \subseteq heap'[y].data[c]
  <2>1. CASE y = x
    <3>1. q = m /\ c \notin Programs(heap[x]) /\ heap'[x].data[c] = heap[x].data[c]
      BY <1>5, <1>6, <1>14, <2>1
    <3>2. Q(c) \subseteq heap[x].data[c]
      BY <1>1, <1>3, <3>1 DEF SInv, Backed, BackedNode
    <3>3. Reads(flash[m], heap', R, s, c) = Q(c)
      BY <1>7, <1>9
    <3> QED
      BY <1>5, <2>1, <3>1, <3>2, <3>3
  <2>2. CASE y # x
    <3>1. heap'[y] = heap[y]
      BY <1>4, <1>6, <2>2
    <3>2. Reads(flash[q], heap, heap[y].rest, heap[y].addr, c) \subseteq heap[y].data[c]
      BY <1>14, <3>1 DEF SInv, Backed, BackedNode
    <3>3. Part(q, heap[y].rest)
      BY Parts
    <3>4. x \notin heap[y].rest \/ (q = m /\ heap[y].addr # s)
      BY <1>3, <1>6, <2>2, <3>3 DEF Part
    <3>5. Reads(flash[q], heap', heap[y].rest, heap[y].addr, c)
             = Reads(flash[q], heap, heap[y].rest, heap[y].addr, c)
      <4> DEFINE N == heap[y].rest
                 u == heap[y].addr
      <4>1. Part(q, N) /\ (x \notin N \/ (q = m /\ u # s))
        BY <3>3, <3>4
      <4> HIDE DEF N, u
      <4>2. x \notin N => Reads(flash[q], heap', N, u, c) = Reads(flash[q], heap, N, u, c)
        BY <1>7, <4>1
      <4>3. q = m /\ u # s => Reads(flash[q], heap', N, u, c) = Reads(flash[q], heap, N, u, c)
        BY <1>8, <4>1
      <4>4. Reads(flash[q], heap', N, u, c) = Reads(flash[q], heap, N, u, c)
        BY <4>1, <4>2, <4>3
      <4> QED
        BY <4>4 DEF N, u
    <3> QED
      BY <3>1, <3>2, <3>5
  <2> QED
    BY <2>1, <2>2
<1>15. \A q \in Modules : Backing(q)
  BY <1>2, <1>14 DEF Backing, BackedNode
<1> QED
  BY <1>13, <1>15

\* _w_opera_add queues a node and a buffer of its own.
LEMMA AddRefines ==
    ASSUME IInv, SInv, NEW m \in Modules, NEW s \in Sectors, NEW o \in Cells,
           NEW l \in 1 .. CELLS, NEW v \in Byte,
           AddWrite(m, s, o, l, v), UNCHANGED flash
    PROVE  Effect(m, s, o, l, v) /\ \A q \in Modules : Backing(q)
<1> DEFINE N == opera_info[m]
           old == IF WriteHit(m, s) = {} THEN flash[m][s] ELSE Blank
           n(b) == WriteNode(s, o, l, b, Overwrite(old, o, l, v), N)
<1>1. PICK x \in Slots \ UsedSlots, b \in Buffers :
        /\ heap' = [heap EXCEPT ![x] = n(b)]
        /\ opera_info' = [opera_info EXCEPT ![m] = @ \cup {x}]
  BY DEF AddWrite, FirstFree
<1>2. \A q \in Modules : opera_info[q] \subseteq Slots /\ x \notin opera_info[q]
  BY ListFacts DEF UsedSlots
<1>3. /\ heap'[x] = n(b) /\ \A y \in Slots : y # x => heap'[y] = heap[y]
      /\ opera_info'[m] = N \cup {x}
      /\ \A q \in Modules : q # m => opera_info'[q] = opera_info[q]
  BY <1>1 DEF IInv, TypeOK
<1>4. /\ heap'[x].type = "W" /\ heap'[x].addr = s /\ heap'[x].rest = N
      /\ Programs(heap'[x]) = o .. o + l - 1
      /\ heap'[x].data = Overwrite(old, o, l, v)
  BY <1>3 DEF WriteNode, Programs
<1>5. \A c \in Cells : heap'[x].data[c] = IF c \in o .. o + l - 1 THEN v ELSE old[c]
  BY <1>4 DEF Overwrite
<1> HIDE DEF old, n
<1>6. ASSUME NEW q \in Modules, NEW K, Part(q, K), NEW u, NEW c
      PROVE  Reads(flash[q], heap', K, u, c) = Reads(flash[q], heap, K, u, c)
  <2>1. SameNodes(heap, heap', K)
    BY <1>2, <1>3, <1>6 DEF SameNodes, Part
  <2> QED
    BY <2>1, SameReads
<1>7. ASSUME NEW u \in Sectors, NEW c \in Cells
      PROVE  Reads(flash[m], heap', opera_info'[m], u, c) =
                IF u = s /\ c \in o .. o + l - 1 THEN View(m, u, c) \cap v ELSE View(m, u, c)
  <2> DEFINE M == N \cup {x}
             new == Reads(flash[m], heap', M, u, c)
             was == View(m, u, c)
  <2>1. x \notin N /\ \A y : y \in M <=> y \in N \/ y = x
    BY <1>2
  <2>2. \A y \in N : heap'[y].rest \subseteq N
    BY <1>2, <1>3, Parts DEF Part
  <2>3. heap'[x].type = "W"
    BY <1>4
  <2>4. Reads(flash[m], heap', N, u, c) = View(m, u, c)
    BY <1>6, Parts DEF View
  <2> HIDE DEF M, N
  <2>5. \A d : d \in Reads(flash[m], heap', M, u, c) <=>
           /\ d \in Reads(flash[m], heap', N, u, c)
           /\ heap'[x].addr = u /\ c \in Programs(heap'[x]) => d \in heap'[x].data[c]
    BY ONLY <2>1, <2>2, <2>3, WrittenReads
  <2>6. \A d : d \in new <=> d \in was /\ (u = s /\ c \in o .. o + l - 1 => d \in v)
    BY <1>4, <1>5, <2>4, <2>5
  <2>7. opera_info'[m] = M
    BY <1>3 DEF M
  <2> HIDE DEF new, was
  <2>8. CASE u = s /\ c \in o .. o + l - 1
    <3>1. new = was \cap v
      BY <2>6, <2>8
    <3> QED
      BY <2>7, <2>8, <3>1 DEF new, was
  <2>9. CASE ~(u = s /\ c \in o .. o + l - 1)
    <3>1. new = was
      BY <2>6, <2>9
    <3> QED
      BY <2>7, <2>9, <3>1 DEF new, was
  <2> QED
    BY <2>8, <2>9
<1>8. Effect(m, s, o, l, v)
  <2> SUFFICES ASSUME NEW q \in Modules, NEW u \in Sectors, NEW c \in Cells
               PROVE  Reads(flash'[q], heap', opera_info'[q], u, c) =
                         IF q = m /\ u = s /\ c \in o .. o + l - 1
                         THEN View(q, u, c) \cap v ELSE View(q, u, c)
    BY DEF Effect
  <2>1. CASE q = m
    BY <1>7, <2>1
  <2>2. CASE q # m
    BY <1>3, <1>6, <2>2, Parts DEF View
  <2> QED
    BY <2>1, <2>2
\* The buffer starts as the chip holds the sector, or blank behind an erase.
<1>9. ASSUME NEW c \in Cells
      PROVE  Reads(flash[m], heap, N, s, c) \subseteq old[c]
  <2>1. CASE WriteHit(m, s) = {}
    <3>1. {y \in N : heap[y].addr = s /\ (heap[y].type = "E" \/ ~heap[y].lock)} = {}
      BY <2>1, NewestExists DEF WriteHit
    <3>2. Erases(heap, N, s) = {}
      BY <3>1 DEF Erases
    <3>3. \A d : d \in Reads(flash[m], heap, N, s, c) => d \in flash[m][s][c]
      BY <3>2, ReadsOf
    <3> QED
      BY <2>1, <3>3 DEF old
  <2>2. CASE WriteHit(m, s) # {}
    BY <2>2, ReadsBits DEF old, Blank
  <2> QED
    BY <2>1, <2>2
<1>10. ASSUME NEW q \in Modules, NEW y \in opera_info'[q], heap'[y].type = "W",
              NEW c \in Cells \ Programs(heap'[y])
       PROVE  Reads(flash[q], heap', heap'[y].rest, heap'[y].addr, c) \subseteq heap'[y].data[c]
  <2>1. CASE y = x
    <3>1. q = m /\ c \notin o .. o + l - 1
      BY <1>2, <1>3, <1>4, <1>10, <2>1
    <3>2. Reads(flash[m], heap', N, s, c) = Reads(flash[m], heap, N, s, c)
      BY <1>6, Parts
    <3>3. heap'[x].data[c] = old[c]
      BY <1>5, <3>1
    <3> QED
      BY <1>4, <1>9, <2>1, <3>1, <3>2, <3>3
  <2>2. CASE y # x
    <3>1. y \in opera_info[q] /\ heap'[y] = heap[y]
      BY <1>2, <1>3, <2>2
    <3>2. Reads(flash[q], heap, heap[y].rest, heap[y].addr, c) \subseteq heap[y].data[c]
      BY <1>10, <3>1 DEF SInv, Backed, BackedNode
    <3>3. Reads(flash[q], heap', heap[y].rest, heap[y].addr, c)
             = Reads(flash[q], heap, heap[y].rest, heap[y].addr, c)
      BY <1>6, <3>1, Parts
    <3> QED
      BY <3>1, <3>2, <3>3
  <2> QED
    BY <2>1, <2>2
<1>11. \A q \in Modules : Backing(q)
  BY <1>10 DEF Backing, BackedNode
<1> QED
  BY <1>8, <1>11

\* What a step that erases a module's sector makes of the pages.
Erased(m, a) == \A q \in Modules, u \in Sectors, c \in Cells :
    Reads(flash'[q], heap', opera_info'[q], u, c) =
       IF q = m /\ u = a THEN Bits ELSE View(q, u, c)

\* The nodes an erase of one sector drops lie there, and what it leaves there
\* is locked.
LEMMA DroppedNodes ==
    ASSUME IInv, Short, NEW m \in Modules, NEW a \in Sectors
    PROVE  LET gone == Superseded(m, a, 1)
           IN  /\ gone \subseteq opera_info[m]
               /\ \A y \in opera_info[m] : y \in gone => heap[y].addr = a /\ ~heap[y].lock
               /\ \A y \in opera_info[m] : heap[y].addr = a /\ y \notin gone =>
                    heap[y].rest = {} /\ (Replacing(m, a, 1) # {} => heap[y].type = "E")
               /\ \A y \in Replacing(m, a, 1) :
                    y \in opera_info[m] /\ y \notin gone /\ heap[y].addr = a /\ heap[y].type = "E"
<1> DEFINE gone == Superseded(m, a, 1)
<1>1. a .. a + 1 - 1 = {a}
  BY SizeAssumption DEF Sectors
<1>2. ASSUME NEW y \in opera_info[m]
      PROVE  Range(heap[y]) \subseteq a .. a + 1 - 1 <=> heap[y].addr = a
  <2>1. heap[y] \in Node /\ heap[y].len = 1 /\ heap[y].addr \in Sectors
    BY ListFacts DEF Short, UsedSlots, Node
  <2>2. Range(heap[y]) = {heap[y].addr}
    BY <2>1, SizeAssumption DEF Range, Sectors
  <2> QED
    BY <1>1, <2>2
<1>3. Inside(m, a, 1) = {y \in opera_info[m] : heap[y].addr = a}
  BY <1>2 DEF Inside
<1>4. gone \subseteq opera_info[m] /\ \A y \in gone : heap[y].addr = a /\ ~heap[y].lock
  BY <1>3 DEF Superseded
<1>5. \A y \in Replacing(m, a, 1) :
         /\ y \in opera_info[m] /\ y \notin gone /\ heap[y].addr = a /\ heap[y].type = "E"
         /\ heap[y].lock
  BY <1>3 DEF Replacing, Superseded
<1>6. \A y \in opera_info[m] : heap[y].lock => heap[y].rest = {}
  BY ListFacts, LockedIsTail
<1>7. ASSUME NEW y \in opera_info[m], heap[y].addr = a, y \notin gone
      PROVE  heap[y].lock /\ (Replacing(m, a, 1) # {} => heap[y].type = "E")
  <2>1. y \in Inside(m, a, 1)
    BY <1>3, <1>7
  <2>2. \A z \in Replacing(m, a, 1) : z = y \/ Newer(y, z)
    BY <1>5, <1>6 DEF IInv, ListChained, Newer
  <2>3. heap[y].lock
    <3> SUFFICES ASSUME ~heap[y].lock PROVE FALSE
      OBVIOUS
    <3>1. \A z \in Replacing(m, a, 1) : Newer(y, z)
      BY <1>5, <2>2
    <3> QED
      BY <1>7, <2>1, <3>1 DEF Superseded
  <2>4. \A z \in Replacing(m, a, 1) : z = y
    BY <1>6, <2>2, <2>3 DEF Newer
  <2> QED
    BY <1>5, <2>3, <2>4
<1> QED
  BY <1>4, <1>5, <1>6, <1>7

\* norflash_api_erase drops what the erase supersedes and queues it.
LEMMA EraseRefines ==
    ASSUME IInv, SInv, NEW m \in Modules, NEW a \in Sectors, EraseAsync(m, a, 1)
    PROVE  Erased(m, a) /\ \A q \in Modules : Backing(q)
<1> DEFINE gone == Superseded(m, a, 1)
           kept == opera_info[m] \ gone
           H == Freed(gone)
<1>1. /\ gone \subseteq opera_info[m]
      /\ \A y \in opera_info[m] : y \in gone => heap[y].addr = a /\ ~heap[y].lock
      /\ \A y \in opera_info[m] : heap[y].addr = a /\ y \notin gone =>
           heap[y].rest = {} /\ (Replacing(m, a, 1) # {} => heap[y].type = "E")
      /\ \A y \in Replacing(m, a, 1) :
           y \in opera_info[m] /\ y \notin gone /\ heap[y].addr = a /\ heap[y].type = "E"
  BY DroppedNodes DEF SInv
<1>2. UNCHANGED flash
  BY DEF EraseAsync, chipVars
<1>3. \/ /\ Replacing(m, a, 1) # {}
         /\ heap' = H
         /\ opera_info' = [opera_info EXCEPT ![m] = kept]
      \/ /\ Replacing(m, a, 1) = {}
         /\ \E x \in Slots \ (UsedSlots \ gone) :
              /\ heap' = [H EXCEPT ![x] = EraseNode(a, 1, kept)]
              /\ opera_info' = [opera_info EXCEPT ![m] = kept \cup {x}]
  BY DEF EraseAsync, Free, FirstFree
<1>4. \A q \in Modules : q # m => opera_info[q] \cap gone = {}
  BY <1>1 DEF IInv, PoolAccounted
<1>5. \A q \in Modules : \A y \in opera_info[q] \ gone :
         /\ H[y].type = heap[y].type /\ H[y].addr = heap[y].addr /\ H[y].data = heap[y].data
         /\ Programs(H[y]) = Programs(heap[y]) /\ H[y].rest = heap[y].rest \ gone
  BY FreedSame
<1>6. \A q \in Modules : \A K : K \subseteq opera_info[q] /\ K \cap gone = {}
                           => SameNodes(heap, H, K)
  BY FreedSame
\* The nodes that stay are those of the freed heap.
<1>8. /\ \A q \in Modules : \A y \in opera_info[q] \ gone : heap'[y] = H[y]
      /\ \A q \in Modules : q # m => opera_info'[q] = opera_info[q]
      /\ kept \subseteq opera_info'[m]
  <2>1. \A q \in Modules : \A y \in opera_info[q] \ gone : y \in UsedSlots \ gone
    BY ListFacts DEF UsedSlots
  <2>2. DOMAIN H = Slots /\ UsedSlots \subseteq Slots
    BY DEF Freed, UsedSlots
  <2> HIDE DEF gone, H
  <2>3. /\ \A q \in Modules : q # m => opera_info'[q] = opera_info[q]
        /\ kept \subseteq opera_info'[m]
    BY <1>3 DEF IInv, TypeOK
  <2>4. ASSUME NEW y \in UsedSlots \ gone PROVE heap'[y] = H[y]
    BY <1>3, <2>2
  <2> QED
    BY <2>1, <2>3, <2>4
<1> HIDE DEF H
<1>9. ASSUME NEW q \in Modules, NEW K, K \subseteq opera_info[q], K \cap gone = {}, NEW u, NEW c
      PROVE  Reads(flash[q], heap', K, u, c) = Reads(flash[q], heap, K, u, c)
  <2>1. SameNodes(heap, heap', K)
    BY <1>6, <1>8, <1>9 DEF SameNodes
  <2> QED
    BY <2>1, SameReads
<1> HIDE DEF gone
\* Elsewhere a part without the dropped nodes reads the same.
<1>10. ASSUME NEW K, K \subseteq opera_info[m], NEW u, u # a, NEW c
       PROVE  Reads(flash[m], heap', K \ gone, u, c) = Reads(flash[m], heap, K, u, c)
  <2> DEFINE L == K \ gone
  <2>1. L \subseteq K /\ \A y \in K \ L : heap[y].addr # u
    BY <1>1, <1>10
  <2>2. L \subseteq opera_info[m] /\ L \cap gone = {}
    BY <1>10
  <2> HIDE DEF L
  <2>3. Reads(flash[m], heap, K, u, c) = Reads(flash[m], heap, L, u, c)
    BY <2>1, Irrelevant
  <2>4. Reads(flash[m], heap', L, u, c) = Reads(flash[m], heap, L, u, c)
    BY <1>9, <2>2
  <2> QED
    BY <2>3, <2>4 DEF L
<1>11. ASSUME NEW u \in Sectors, NEW c \in Cells
       PROVE  Reads(flash[m], heap', opera_info'[m], u, c) = IF u = a THEN Bits ELSE View(m, u, c)
  <2>1. CASE Replacing(m, a, 1) # {}
    <3>1. opera_info'[m] = kept
      BY <1>3, <2>1 DEF IInv, TypeOK
    <3>2. CASE u = a
      <4>1. PICK y \in Replacing(m, a, 1) : TRUE
        BY <2>1
      <4>2. y \in Erases(heap, kept, a)
        BY <1>1, <4>1 DEF Erases
      <4>3. \A z \in kept : ~Counts(heap, kept, a, z)
        BY <1>1, <2>1 DEF Counts
      <4>4. \A b : b \in Reads(flash[m], heap, kept, a, c) <=> b \in Bits
        <5> HIDE DEF kept
        <5>1. \A b : b \in Reads(flash[m], heap, kept, a, c) <=>
                /\ b \in Bits
                /\ Erases(heap, kept, a) # {} \/ b \in flash[m][a][c]
                /\ \A z \in kept : Counts(heap, kept, a, z) /\ c \in Programs(heap[z])
                      => b \in heap[z].data[c]
          BY ReadsOf
        <5> QED
          BY <4>2, <4>3, <5>1
      <4>5. Reads(flash[m], heap, kept, a, c) = Bits
        BY <4>4
      <4> QED
        BY <1>9, <3>1, <3>2, <4>5
    <3>3. CASE u # a
      BY <1>10, <3>1, <3>3 DEF View
    <3> QED
      BY <3>2, <3>3
  <2>2. CASE Replacing(m, a, 1) = {}
    <3>1. PICK x \in Slots \ (UsedSlots \ gone) :
             /\ heap' = [H EXCEPT ![x] = EraseNode(a, 1, kept)]
             /\ opera_info' = [opera_info EXCEPT ![m] = kept \cup {x}]
      BY <1>3, <2>2
    <3>2. x \notin kept /\ opera_info'[m] = kept \cup {x}
      BY <3>1, ListFacts DEF UsedSlots, IInv, TypeOK
    <3>3. heap'[x] = EraseNode(a, 1, kept)
      BY <3>1 DEF H, Freed
    <3>4. heap'[x].type = "E" /\ heap'[x].addr = a /\ heap'[x].rest = kept
      BY <3>3 DEF EraseNode
    <3> DEFINE M == kept \cup {x}
    <3>5. \A y : y \in M <=> y \in kept \/ y = x
      OBVIOUS
    <3> HIDE DEF M, kept
    <3>6. Reads(flash[m], heap', M, u, c) =
             IF heap'[x].addr = u THEN Bits ELSE Reads(flash[m], heap', kept, u, c)
      BY ONLY <3>2, <3>4, <3>5, ErasedReads
    <3>7. u # a => Reads(flash[m], heap', kept, u, c) = View(m, u, c)
      BY <1>10 DEF View, kept
    <3> QED
      BY <3>2, <3>4, <3>6, <3>7 DEF M
  <2> QED
    BY <2>1, <2>2
<1>12. Erased(m, a)
  <2> SUFFICES ASSUME NEW q \in Modules, NEW u \in Sectors, NEW c \in Cells
               PROVE  Reads(flash'[q], heap', opera_info'[q], u, c) =
                         IF q = m /\ u = a THEN Bits ELSE View(q, u, c)
    BY DEF Erased
  <2>1. CASE q = m
    BY <1>2, <1>11, <2>1
  <2>2. CASE q # m
    BY <1>2, <1>4, <1>8, <1>9, <2>2 DEF View
  <2> QED
    BY <2>1, <2>2
<1>13. ASSUME NEW q \in Modules, NEW y \in opera_info'[q], heap'[y].type = "W",
              NEW c \in Cells \ Programs(heap'[y])
       PROVE  Reads(flash[q], heap', heap'[y].rest, heap'[y].addr, c) \subseteq heap'[y].data[c]
  <2>1. y \in opera_info[q] /\ y \notin gone
    <3>1. CASE q = m
      <4>1. CASE Replacing(m, a, 1) # {}
        BY <1>3, <1>13, <3>1, <4>1 DEF IInv, TypeOK
      <4>2. CASE Replacing(m, a, 1) = {}
        <5>1. PICK x \in Slots \ (UsedSlots \ gone) :
                 /\ heap' = [H EXCEPT ![x] = EraseNode(a, 1, kept)]
                 /\ opera_info' = [opera_info EXCEPT ![m] = kept \cup {x}]
          BY <1>3, <4>2
        <5>2. heap'[x].type = "E"
          BY <5>1 DEF EraseNode, H, Freed
        <5> QED
          BY <1>13, <3>1, <5>1, <5>2 DEF IInv, TypeOK
      <4> QED
        BY <4>1, <4>2
    <3>2. CASE q # m
      BY <1>4, <1>8, <3>2
    <3> QED
      BY <3>1, <3>2
  <2>2. /\ heap'[y].type = heap[y].type /\ heap'[y].addr = heap[y].addr
        /\ heap'[y].data = heap[y].data /\ Programs(heap'[y]) = Programs(heap[y])
        /\ heap'[y].rest = heap[y].rest \ gone
    BY <1>5, <1>8, <2>1
  <2>3. Reads(flash[q], heap, heap[y].rest, heap[y].addr, c) \subseteq heap[y].data[c]
    BY <1>13, <2>1, <2>2 DEF SInv, Backed, BackedNode
  <2>4. heap[y].rest \subseteq opera_info[q]
    BY <2>1, Parts DEF Part
  <2> DEFINE K == heap[y].rest
             u == heap[y].addr
  <2>5. Reads(flash[q], heap', K \ gone, u, c) = Reads(flash[q], heap, K, u, c)
    <3>1. CASE q = m /\ u # a
      BY <1>10, <2>4, <3>1
    <3>2. CASE q = m /\ u = a
      <4>1. K = {} /\ K \ gone = K /\ K \cap gone = {}
        BY <1>1, <2>1, <3>2
      <4> QED
        BY <1>9, <2>4, <4>1
    <3>3. CASE q # m
      <4>1. K \ gone = K /\ K \cap gone = {}
        BY <1>4, <2>4, <3>3
      <4> QED
        BY <1>9, <2>4, <4>1
    <3> QED
      BY <3>1, <3>2, <3>3
  <2> QED
    BY <2>2, <2>3, <2>5
<1>14. \A q \in Modules : Backing(q)
  BY <1>2, <1>13 DEF Backing, BackedNode
<1> QED
  BY <1>12, <1>14

\* What a synchronous call drains of another module is at most its suspended
\* operation.
LEMMA DrainedTail ==
    ASSUME IInv, NEW m \in Modules, NEW q \in Modules, q # m, Drained(m) \cap opera_info[q] # {}
    PROVE  \E t \in Tails(q) : Drained(m) \cap opera_info[q] = {t}
<1>1. PICK t \in Drained(m) \cap opera_info[q] : TRUE
  OBVIOUS
<1>2. ASSUME NEW x \in Drained(m) \cap opera_info[q]
      PROVE  x = cur_opera_info[q] /\ state[q] # "IDLE"
  <2>1. x \notin opera_info[m]
    BY DEF IInv, PoolAccounted
  <2>2. PICK o \in Other(m) : x = cur_opera_info[o]
    BY <2>1 DEF Drained
  <2>3. o \in Modules /\ state[o] # "IDLE"
    BY DEF Other
  <2>4. x \in opera_info[o]
    BY <2>2, <2>3, SuspendedNode
  <2>5. o = q
    BY <2>3, <2>4 DEF IInv, PoolAccounted
  <2> QED
    BY <2>2, <2>3, <2>5
<1>3. Drained(m) \cap opera_info[q] = {t}
  BY <1>1, <1>2
<1>4. t \in Tails(q)
  BY <1>1, <1>2, SuspendedNode
<1> QED
  BY <1>3, <1>4

LEMMA SyncDrainedAll ==
    ASSUME IInv, MInv, NInv, NEW m \in Modules, NEW n, SyncOp(m, n)
    PROVE  /\ heap' = Freed(Drained(m))
           /\ \A q \in Modules : opera_info'[q] = opera_info[q] \ Drained(m)
           /\ opera_info[m] \subseteq Drained(m)
           /\ \A q \in Modules : q # m => flash'[q] = AfterDrain(m)[q]
           /\ flash'[m] = Execute(AfterDrain(m)[m], n, CELLS, Range(n))
           /\ ret' = "OK" /\ panic' = panic
<1>1. Drains(m)
  BY DEF NInv, Drains, FlushIsAllowed
<1>2. ~HalBusy(m)
  BY <1>1, HalWhose DEF HalBusy, Other
<1>3. /\ Free(Drained(m))
      /\ opera_info' = [o \in Modules |-> opera_info[o] \ Drained(m)]
      /\ flash' = [AfterDrain(m) EXCEPT ![m] = Execute(@, n, CELLS, Range(n))]
      /\ ret' = "OK" /\ panic' = panic
  BY <1>2 DEF SyncOp
<1>4. DOMAIN AfterDrain(m) = Modules
  BY DEF AfterDrain
<1>5. opera_info[m] \subseteq Drained(m)
  BY <1>1 DEF Drained
<1> QED
  BY <1>3, <1>4, <1>5 DEF Free

LEMMA DrainReads ==
    ASSUME IInv, Protected, Short, NEW m \in Modules, NEW q \in Modules,
           NEW K, K = Drained(m) \cap opera_info[q],
           NEW u \in Sectors, NEW c \in Cells
    PROVE  AfterDrain(m)[q][u][c] = Reads(flash[q], heap, K, u, c)
<1>1. Effective(q, K) = K
  BY DEF Effective, Protected
<1>2. K \in SUBSET opera_info[q]
  OBVIOUS
<1>3. AfterDrain(m)[q][u] = Contents(q, K, u)
  BY <1>1 DEF AfterDrain
<1>4. Contents(q, K, u)[c] = Reads(flash[q], heap, K, u, c)
  BY <1>2, ContentsReads
<1> QED
  BY <1>3, <1>4

\* Of another module a synchronous call executes at most the suspended node.
LEMMA SyncOthers ==
    ASSUME IInv, MInv, NInv, SInv, NEW m \in Modules, NEW n, SyncOp(m, n),
           NEW q \in Modules, q # m
    PROVE  Steady(q) /\ Backing(q)
<1> DEFINE D == Drained(m)
<1>1. /\ heap' = Freed(D)
      /\ opera_info'[q] = opera_info[q] \ D
      /\ flash'[q] = AfterDrain(m)[q]
  BY SyncDrainedAll
<1> DEFINE K == D \cap opera_info[q]
<1> HIDE DEF K
<1>2. \A u \in Sectors, c \in Cells : flash'[q][u][c] = Reads(flash[q], heap, K, u, c)
  <2>1. K = Drained(m) \cap opera_info[q]
    BY DEF K
  <2>2. \A u \in Sectors, c \in Cells :
           AfterDrain(m)[q][u][c] = Reads(flash[q], heap, K, u, c)
    BY ONLY IInv, NInv, SInv, <2>1, DrainReads DEF SInv, NInv
  <2> QED
    BY <1>1, <2>2
<1> HIDE DEF D
<1>3. Reading(q, D) /\ Backed
  BY <1>1, FreedSame DEF Reading, SInv
<1>4. ASSUME NEW N, N = opera_info[q] \/ (\E y \in opera_info[q] \ D : N = heap[y].rest),
             NEW u \in Sectors, NEW c \in Cells
      PROVE  Reads(flash'[q], heap', N \ D, u, c) = Reads(flash[q], heap, N, u, c)
  <2>1. Part(q, N) /\ N \subseteq opera_info[q]
    BY <1>4, Parts DEF Part
  <2>2. SameNodes(heap, heap', N \ D)
    BY <1>1, <2>1, FreedSame
  <2>3. Reads(flash'[q], heap', N \ D, u, c) = Reads(flash'[q], heap, N \ D, u, c)
    BY <2>2, SameReads
  <2>4. CASE K = {}
    <3>1. N \ D = N
      BY <2>1, <2>4 DEF K
    <3>2. flash[q][u][c] \in Byte
      BY DEF IInv, TypeOK, Sector
    <3>3. flash'[q][u][c] = flash[q][u][c]
      <4>1. Reads(flash[q], heap, {}, u, c) = flash[q][u][c]
        BY <3>2, EmptyReads
      <4> QED
        BY <1>2, <2>4, <4>1
    <3>4. SameNodes(heap, heap', N)
      BY <2>2, <3>1
    <3>5. Reads(flash'[q], heap', N, u, c) = Reads(flash[q], heap, N, u, c)
      BY <3>3, <3>4, SameReads
    <3> QED
      BY <3>1, <3>5
  <2>5. CASE K # {}
    <3>1. PICK t \in Tails(q) : K = {t}
      BY <2>5, DrainedTail DEF D, K
    <3>2. N # {}
      BY <1>4, <3>1, TailLast DEF K
    <3>3. Oldest(heap, N, {t})
      BY <2>1, <3>2, PartOldest
    <3>4. N \ D = N \ {t}
      BY <2>1, <3>1 DEF K
    <3>5. flash'[q][u][c] = Reads(flash[q], heap, {t}, u, c)
      BY <1>2, <3>1
    <3>6. Reads(flash'[q], heap, N \ {t}, u, c) = Reads(flash[q], heap, N, u, c)
      BY <3>3, <3>5, ExecutedReads
    <3> QED
      BY <2>3, <3>4, <3>6
  <2> QED
    BY <2>4, <2>5
<1>5. \A u \in Sectors, c \in Cells :
        Reads(flash'[q], heap', opera_info[q] \ D, u, c) = View(q, u, c)
  BY <1>4 DEF View
<1>6. \A y \in opera_info[q] \ D : heap[y].addr \in Sectors
  BY ListFacts DEF Node
<1>7. \A y \in opera_info[q] \ D : heap[y].type = "W" =>
        \A c \in Cells \ Programs(heap[y]) :
           Reads(flash'[q], heap', heap[y].rest \ D, heap[y].addr, c)
              = Reads(flash[q], heap, heap[y].rest, heap[y].addr, c)
  BY <1>4, <1>6
<1> QED
  BY <1>3, <1>5, <1>7, ReadingKept

\* Of its own module it executes everything, oldest first.
LEMMA SyncOwn ==
    ASSUME IInv, MInv, NInv, SInv, IInv', NEW m \in Modules, NEW n, SyncOp(m, n)
    PROVE  /\ Backing(m)
           /\ \E old \in [Sectors -> [Cells -> Byte]] :
                /\ \A u \in Sectors, c \in Cells : old[u][c] = View(m, u, c)
                /\ \A u \in Sectors, c \in Cells :
                     Reads(flash'[m], heap', opera_info'[m], u, c)
                        = Execute(old, n, CELLS, Range(n))[u][c]
<1> DEFINE old == AfterDrain(m)[m]
<1>1. opera_info'[m] = {} /\ flash'[m] = Execute(old, n, CELLS, Range(n))
  BY SyncDrainedAll
<1>2. opera_info[m] = Drained(m) \cap opera_info[m]
  BY SyncDrainedAll
<1>3. \A u \in Sectors, c \in Cells : old[u][c] = View(m, u, c)
  BY ONLY IInv, NInv, SInv, <1>2, DrainReads DEF View, SInv, NInv
<1>4. old \in [Sectors -> [Cells -> Byte]]
  BY ContentsType DEF AfterDrain, Sector, IInv
<1>5. Backing(m)
  BY <1>1 DEF Backing
<1> HIDE DEF old
<1>6. \A u \in Sectors, c \in Cells : flash'[m][u][c] \in Byte
  BY DEF IInv, TypeOK, Sector
<1>7. \A u \in Sectors, c \in Cells :
         Reads(flash'[m], heap', {}, u, c) = flash'[m][u][c]
  BY <1>6, EmptyReads
<1> QED
  BY <1>1, <1>3, <1>4, <1>5, <1>7

SectorErases == EraseLens \subseteq {1}

-----------------------------------------------------------------------------
(* Every node covers one sector, in every step.                            *)

LEMMA ShortFreed ==
    ASSUME IInv, Short, NEW D
    PROVE  \A y \in Slots : Freed(D)[y] # NULL => Freed(D)[y].len = 1
<1> SUFFICES ASSUME NEW y \in Slots, Freed(D)[y] # NULL PROVE Freed(D)[y].len = 1
  OBVIOUS
<1>1. y \notin D /\ y \in UsedSlots
  BY DEF Freed, UsedSlots
<1> QED
  BY <1>1, FreedRange DEF Short

LEMMA ShortWrite ==
    ASSUME IInv, Short, NEW m \in Modules, NEW s \in Sectors, NEW o \in Cells,
           NEW l \in 1 .. CELLS, NEW v \in Byte, WriteAsync(m, s, o, l, v)
    PROVE  Short'
<1>1. heap \in [Slots -> Node \cup {NULL}] /\ \A y \in Slots : heap[y] # NULL => heap[y].len = 1
  BY DEF IInv, TypeOK, Short, UsedSlots
<1>2. CASE MergeWrite(m, s, o, l, v)
  <2>1. PICK x \in WriteHit(m, s) : /\ heap[x].type = "W"
                                    /\ heap' = [heap EXCEPT ![x] = Merged(@, o, l, v)]
    BY <1>2 DEF MergeWrite
  <2>2. heap[x] \in Node /\ x \in Slots /\ x \in opera_info[m]
    BY <2>1, HitIsNewest
  <2>3. o + l <= CELLS
    BY DEF WriteAsync, NorWrite
  <2>4. Merged(heap[x], o, l, v).len = 1
    BY <1>1, <2>2, <2>3, MergedData, ListFacts
  <2> QED
    BY <1>1, <2>1, <2>2, <2>4 DEF Short, UsedSlots
<1>3. CASE AddWrite(m, s, o, l, v)
  <2>1. PICK x \in Slots : \E b, data : heap' = [heap EXCEPT ![x] =
                                 WriteNode(s, o, l, b, data, opera_info[m])]
    BY <1>3 DEF AddWrite, FirstFree
  <2>2. \A b, data : WriteNode(s, o, l, b, data, opera_info[m]).len = 1
    BY DEF WriteNode
  <2> QED
    BY <1>1, <2>1, <2>2 DEF Short, UsedSlots
<1> QED
  BY <1>2, <1>3 DEF WriteAsync

LEMMA ShortErase ==
    ASSUME IInv, Short, NEW m \in Modules, NEW a \in Sectors, EraseAsync(m, a, 1)
    PROVE  Short'
<1> DEFINE H == Freed(Superseded(m, a, 1))
<1>1. \A y \in Slots : H[y] # NULL => H[y].len = 1
  BY ShortFreed
<1>2. DOMAIN H = Slots
  BY DEF Freed
<1>3. heap' = H \/ \E x \in Slots : \E list : heap' = [H EXCEPT ![x] = EraseNode(a, 1, list)]
  BY DEF EraseAsync, Free, FirstFree
<1>4. \A list : EraseNode(a, 1, list).len = 1
  BY DEF EraseNode
<1> HIDE DEF H
<1> QED
  BY <1>1, <1>2, <1>3, <1>4 DEF Short, UsedSlots

LEMMA ShortExec ==
    ASSUME IInv, Short, NEW f \in Flushers, FlushComplete(f) \/ FlushSuspend(f)
    PROVE  Short'
<1>1. heap \in [Slots -> Node \cup {NULL}] /\ \A y \in Slots : heap[y] # NULL => heap[y].len = 1
  BY DEF IInv, TypeOK, Short, UsedSlots
<1>2. CASE FlushComplete(f)
  <2>1. \E x : heap' = Freed({x})
    BY <1>2 DEF FlushComplete, OperaDel, Free
  <2> QED
    BY <2>1, ShortFreed DEF Short, UsedSlots
<1>3. CASE FlushSuspend(f)
  <2>1. pick[f] \in Modules
    BY <1>3 DEF FlushSuspend, IInv, TypeOK
  <2>2. PICK x \in Current(pick[f]) : heap' = [heap EXCEPT ![x] = Locked(heap[x])]
    BY <1>3 DEF FlushSuspend
  <2>3. x \in Slots /\ heap[x] \in Node /\ heap[x] # NULL
    BY <2>1, CurrentFacts
  <2>4. Locked(heap[x]).len = 1
    BY <1>1, <2>3, LockedSame
  <2> QED
    BY <1>1, <2>2, <2>3, <2>4 DEF Short, UsedSlots
<1> QED
  BY <1>2, <1>3

-----------------------------------------------------------------------------
(* What each call makes of the store.                                      *)

LEMMA AllBacked == (\A q \in Modules : Backing(q)) => Backed'
BY DEF Backing, Backed

LEMMA WriteAsyncEffect ==
    ASSUME IInv, SInv, NEW m \in Modules, NEW s \in Sectors, NEW o \in Cells,
           NEW l \in 1 .. CELLS, NEW v \in Byte, WriteAsync(m, s, o, l, v)
    PROVE  Effect(m, s, o, l, v) /\ SInv'
<1>1. o + l <= CELLS /\ \A c \in o .. o + l - 1 : v \subseteq Logical(m)[s][c]
  BY DEF WriteAsync, NorWrite
<1>2. \A c \in o .. o + l - 1 : c \in Cells
  BY <1>1, SizeAssumption DEF Cells
<1>3. Logical(m)[s] = Contents(m, opera_info[m], s)
  BY DEF Logical
<1>4. \A c \in Cells : Contents(m, opera_info[m], s)[c] = View(m, s, c)
  BY ContentsReads DEF View, SInv
<1>5. \A c \in o .. o + l - 1 : v \subseteq View(m, s, c)
  BY <1>1, <1>2, <1>3, <1>4
<1>6. UNCHANGED flash
  BY DEF WriteAsync, chipVars
<1>7. Effect(m, s, o, l, v) /\ \A q \in Modules : Backing(q)
  BY <1>1, <1>5, <1>6, MergeRefines, AddRefines DEF WriteAsync
<1>8. Short'
  BY ShortWrite DEF SInv
<1> QED
  BY <1>7, <1>8, AllBacked DEF SInv

LEMMA EraseAsyncEffect ==
    ASSUME IInv, SInv, NEW m \in Modules, NEW a \in Sectors, EraseAsync(m, a, 1)
    PROVE  Erased(m, a) /\ SInv'
<1>1. Short'
  BY ShortErase DEF SInv
<1> QED
  BY <1>1, EraseRefines, AllBacked DEF SInv

LEMMA SyncKeepsS ==
    ASSUME IInv, IInv', MInv, NInv, SInv, NEW m \in Modules, NEW n, SyncOp(m, n)
    PROVE  SInv'
<1>1. \A q \in Modules : Backing(q)
  BY SyncOthers, SyncOwn
<1>2. \A y \in Slots : heap'[y] # NULL => heap'[y].len = 1
  BY SyncDrainedAll, ShortFreed DEF SInv
<1> QED
  BY <1>1, <1>2, AllBacked DEF SInv, Short, UsedSlots

LEMMA WriteSyncEffect ==
    ASSUME IInv, IInv', MInv, NInv, SInv, NEW m \in Modules, NEW s \in Sectors, NEW o \in Cells,
           NEW l \in 1 .. CELLS, NEW v \in Byte, WriteSync(m, s, o, l, v)
    PROVE  Effect(m, s, o, l, v) /\ SInv'
<1> DEFINE n == [type |-> "W", addr |-> s, len |-> 1, w_offs |-> o, w_len |-> l,
                 data |-> [c \in Cells |-> v]]
<1>1. SyncOp(m, n)
  BY DEF WriteSync
<1>2. Range(n) = {s} /\ Programs(n) = o .. o + l - 1 /\ n.type = "W"
      /\ \A c \in Cells : n.data[c] = v
  BY SizeAssumption DEF Range, Programs, Sectors
<1> HIDE DEF n
<1>3. PICK old \in [Sectors -> [Cells -> Byte]] :
        /\ \A u \in Sectors, c \in Cells : old[u][c] = View(m, u, c)
        /\ \A u \in Sectors, c \in Cells :
             Reads(flash'[m], heap', opera_info'[m], u, c)
                = Execute(old, n, CELLS, Range(n))[u][c]
  BY <1>1, SyncOwn
<1>4. ASSUME NEW u \in Sectors, NEW c \in Cells
      PROVE  Execute(old, n, CELLS, Range(n))[u][c] =
                IF u = s /\ c \in o .. o + l - 1 THEN View(m, u, c) \cap v ELSE View(m, u, c)
  <2>1. c < CELLS
    BY SizeAssumption DEF Cells
  <2>2. Execute(old, n, CELLS, Range(n))[u][c] =
           IF u = s /\ c \in o .. o + l - 1 THEN old[u][c] \cap v ELSE old[u][c]
    BY <1>2, <2>1 DEF Execute
  <2> QED
    BY <1>3, <2>2
<1>5. Effect(m, s, o, l, v)
  <2> SUFFICES ASSUME NEW q \in Modules, NEW u \in Sectors, NEW c \in Cells
               PROVE  Reads(flash'[q], heap', opera_info'[q], u, c) =
                         IF q = m /\ u = s /\ c \in o .. o + l - 1
                         THEN View(q, u, c) \cap v ELSE View(q, u, c)
    BY DEF Effect
  <2>1. CASE q = m
    BY <1>3, <1>4, <2>1
  <2>2. CASE q # m
    BY <1>1, <2>2, SyncOthers DEF Steady
  <2> QED
    BY <2>1, <2>2
<1> QED
  BY <1>1, <1>5, SyncKeepsS

LEMMA EraseSyncEffect ==
    ASSUME IInv, IInv', MInv, NInv, SInv, NEW m \in Modules, NEW a \in Sectors,
           EraseSync(m, a, 1)
    PROVE  Erased(m, a) /\ SInv'
<1> DEFINE n == [type |-> "E", addr |-> a, len |-> 1]
<1>1. SyncOp(m, n)
  BY DEF EraseSync
<1>2. Range(n) = {a} /\ n.type = "E"
  BY SizeAssumption DEF Range, Sectors
<1> HIDE DEF n
<1>3. PICK old \in [Sectors -> [Cells -> Byte]] :
        /\ \A u \in Sectors, c \in Cells : old[u][c] = View(m, u, c)
        /\ \A u \in Sectors, c \in Cells :
             Reads(flash'[m], heap', opera_info'[m], u, c)
                = Execute(old, n, CELLS, Range(n))[u][c]
  BY <1>1, SyncOwn
<1>4. ASSUME NEW u \in Sectors, NEW c \in Cells
      PROVE  Execute(old, n, CELLS, Range(n))[u][c] = IF u = a THEN Bits ELSE View(m, u, c)
  BY <1>2, <1>3 DEF Execute, Blank
<1>5. Erased(m, a)
  <2> SUFFICES ASSUME NEW q \in Modules, NEW u \in Sectors, NEW c \in Cells
               PROVE  Reads(flash'[q], heap', opera_info'[q], u, c) =
                         IF q = m /\ u = a THEN Bits ELSE View(q, u, c)
    BY DEF Erased
  <2>1. CASE q = m
    BY <1>3, <1>4, <2>1
  <2>2. CASE q # m
    BY <1>1, <2>2, SyncOthers DEF Steady
  <2> QED
    BY <2>1, <2>2
<1> QED
  BY <1>1, <1>5, SyncKeepsS

-----------------------------------------------------------------------------
(* The store, from the pages.                                              *)

Views == [q \in Modules |-> [u \in Sectors |-> [c \in Cells |-> View(q, u, c)]]]

\* The refinement mapping, page by page.
LEMMA ContentViews == IInv /\ Short => Content = Views
<1> SUFFICES ASSUME IInv, Short PROVE Content = Views
  OBVIOUS
<1>1. ASSUME NEW q \in Modules, NEW u \in Sectors
      PROVE  Contents(q, opera_info[q], u) = [c \in Cells |-> View(q, u, c)]
  <2>1. \A c \in Cells : Contents(q, opera_info[q], u)[c] = View(q, u, c)
    BY ContentsReads DEF View
  <2>2. Contents(q, opera_info[q], u) \in [Cells -> Byte]
    BY ContentsType DEF Sector, IInv
  <2> QED
    BY <2>1, <2>2
<1> QED
  BY <1>1 DEF Content, Views, Logical

LEMMA InitContent == Init => SInv /\ Store!Init
<1> SUFFICES ASSUME Init PROVE SInv /\ Store!Init
  OBVIOUS
<1>1. UsedSlots = {} /\ \A q \in Modules : opera_info[q] = {}
  BY DEF Init, UsedSlots
<1>2. SInv
  BY <1>1 DEF SInv, Short, Backed
<1>3. Content = Views
  BY <1>2, InitInv, ContentViews DEF SInv
<1>4. ASSUME NEW q \in Modules, NEW u \in Sectors, NEW c \in Cells PROVE View(q, u, c) = Bits
  <2>1. flash[q][u][c] = Bits
    BY DEF Init, Blank
  <2>2. Reads(flash[q], heap, {}, u, c) = flash[q][u][c]
    BY <2>1, EmptyReads DEF Byte
  <2> QED
    BY <1>1, <2>1, <2>2 DEF View
<1> QED
  BY <1>2, <1>3, <1>4 DEF Views, Store!Init, Store!Blank

LEMMA SteadyContent ==
    ASSUME Content = Views, Content' = Views', \A q \in Modules : Steady(q)
    PROVE  Content' = Content
BY DEF Views, Steady, View

LEMMA EffectContent ==
    ASSUME Content = Views, Content' = Views', NEW m \in Modules, NEW s \in Sectors,
           NEW o, NEW l, NEW v, Effect(m, s, o, l, v)
    PROVE  Store!Write(m, s, o, l, v)
<1> DEFINE page == [c \in Cells |-> IF c \in o .. o + l - 1 THEN Content[m][s][c] \cap v
                                    ELSE Content[m][s][c]]
<1>1. Content' = [q \in Modules |-> [u \in Sectors |-> [c \in Cells |->
          IF q = m /\ u = s /\ c \in o .. o + l - 1 THEN View(q, u, c) \cap v
          ELSE View(q, u, c)]]]
  BY DEF Views, View, Effect
<1>2. Content = [q \in Modules |-> [u \in Sectors |-> [c \in Cells |-> View(q, u, c)]]]
  BY DEF Views
<1>3. page = [c \in Cells |-> IF c \in o .. o + l - 1 THEN View(m, s, c) \cap v
                              ELSE View(m, s, c)]
  BY <1>2
<1>4. ASSUME NEW q \in Modules, NEW u \in Sectors
      PROVE  Content'[q][u] = IF q = m /\ u = s THEN page ELSE Content[q][u]
  <2>1. Content'[q][u] = [c \in Cells |->
           IF q = m /\ u = s /\ c \in o .. o + l - 1 THEN View(q, u, c) \cap v ELSE View(q, u, c)]
    BY <1>1
  <2>2. Content[q][u] = [c \in Cells |-> View(q, u, c)]
    BY <1>2
  <2>3. CASE q = m /\ u = s
    BY <1>3, <2>1, <2>3
  <2>4. CASE ~(q = m /\ u = s)
    BY <2>1, <2>2, <2>4
  <2> QED
    BY <2>3, <2>4
<1>5. /\ Content' = [q \in Modules |-> Content'[q]]
      /\ \A q \in Modules : Content'[q] = [u \in Sectors |-> Content'[q][u]]
  BY <1>1
<1>6. /\ Content = [q \in Modules |-> Content[q]]
      /\ \A q \in Modules : Content[q] = [u \in Sectors |-> Content[q][u]]
  BY <1>2
<1> HIDE DEF page
<1>7. Content'[m] = [Content[m] EXCEPT ![s] = page]
  BY <1>4, <1>5, <1>6
<1>8. \A q \in Modules : q # m => Content'[q] = Content[q]
  BY <1>4, <1>5, <1>6
<1>9. Content' = [Content EXCEPT ![m] = [Content[m] EXCEPT ![s] = page]]
  BY <1>5, <1>6, <1>7, <1>8
<1>10. Content' = [Content EXCEPT ![m][s] = page]
  BY <1>9
<1> QED
  BY <1>10 DEF Store!Write, page

LEMMA ErasedContent ==
    ASSUME Content = Views, Content' = Views', NEW m \in Modules, NEW a \in Sectors,
           Erased(m, a)
    PROVE  Store!Erase(m, a, 1)
<1>1. Content' = [q \in Modules |-> [u \in Sectors |->
          IF q = m /\ u = a THEN Blank ELSE Content[q][u]]]
  BY DEF Views, View, Erased, Blank
<1>2. Content = [q \in Modules |-> [u \in Sectors |-> [c \in Cells |-> View(q, u, c)]]]
  BY DEF Views
<1>3. \A u \in Sectors : u \in a .. a + 1 - 1 <=> u = a
  BY SizeAssumption DEF Sectors
<1>4. Content' = [Content EXCEPT ![m] =
         [u \in Sectors |-> IF u \in a .. a + 1 - 1 THEN Blank ELSE Content[m][u]]]
  BY <1>1, <1>2, <1>3
<1> QED
  BY <1>4 DEF Store!Erase, Store!Blank, Blank

\* What every step makes of what the clients observe.
Took ==
    /\ \A m \in Modules, s \in Sectors, o \in Cells, l \in 1 .. CELLS, v \in Byte :
         \/ WriteAsync(m, s, o, l, v)
         \/ WriteSync(m, s, o, l, v) /\ ret' = "OK" /\ ~panic'
         => Store!Write(m, s, o, l, v)
    /\ \A m \in Modules, l \in EraseLens, a \in Sectors :
         /\ a % l = 0 /\ a + l <= SECTORS
         /\ EraseAsync(m, a, l) \/ (EraseSync(m, a, l) /\ ret' = "OK" /\ ~panic')
         => Store!Erase(m, a, l)

LEMMA StillReads ==
    ASSUME IInv, SInv, UNCHANGED <<flash, heap, opera_info>>
    PROVE  SInv' /\ \A q \in Modules : Steady(q)
<1>1. Short'
  BY DEF SInv, Short, UsedSlots
<1>2. Backed'
  BY DEF SInv, Backed, BackedNode
<1>3. \A q \in Modules : Steady(q)
  BY DEF Steady, View
<1> QED
  BY <1>1, <1>2, <1>3 DEF SInv

LEMMA ExecEffect ==
    ASSUME IInv, NInv, SInv, NEW f \in Flushers, FlushComplete(f) \/ FlushSuspend(f)
    PROVE  SInv' /\ \A q \in Modules : Steady(q)
<1>1. \A q \in Modules : Steady(q) /\ Backing(q)
  BY CompleteRefines, SuspendRefines DEF NInv
<1>2. Short'
  BY ShortExec DEF SInv
<1> QED
  BY <1>1, <1>2, AllBacked DEF SInv

\* No step of a flush or of the coprocessor changes what the clients observe.
LEMMA InnerSteps ==
    ASSUME IInv, NInv, SInv, Flush \/ Cp \/ UNCHANGED vars
    PROVE  SInv' /\ \A q \in Modules : Steady(q)
<1>1. ASSUME NEW f \in Flushers, FlushAll(f) \/ FlushPick(f) \/ FlushSkip(f)
                                 \/ FlushEmpty(f) \/ FlushAssert(f)
      PROVE  UNCHANGED <<flash, heap, opera_info>>
  BY <1>1 DEF FlushAll, FlushPick, FlushSkip, FlushEmpty, FlushAssert, queueVars, chipVars
<1>2. CASE Flush
  BY <1>1, <1>2, StillReads, ExecEffect DEF Flush, FlushExec
<1>3. CASE Cp
  BY <1>3, StillReads DEF Cp, FlushDisable, CpInitDone, FlushEnable, queueVars, chipVars
<1>4. CASE UNCHANGED vars
  BY <1>4, StillReads DEF vars, queueVars, chipVars
<1> QED
  BY <1>2, <1>3, <1>4

LEMMA ReadsNext ==
    ASSUME SectorErases, IInv, IInv', MInv, NInv, SInv, [Next]_vars
    PROVE  SInv'
<1>1. ASSUME NEW m \in Modules, NEW s \in Sectors, NEW o \in Cells, NEW l \in 1 .. CELLS,
             NEW v \in Byte, WriteAsync(m, s, o, l, v) \/ WriteSync(m, s, o, l, v)
      PROVE  SInv'
  BY <1>1, WriteAsyncEffect, WriteSyncEffect
<1>2. ASSUME NEW m \in Modules, NEW l \in EraseLens, NEW a \in Sectors,
             EraseAsync(m, a, l) \/ EraseSync(m, a, l)
      PROVE  SInv'
  <2>1. l = 1
    BY DEF SectorErases
  <2> QED
    BY <1>2, <2>1, EraseAsyncEffect, EraseSyncEffect
<1> QED
  BY <1>1, <1>2, InnerSteps DEF Next, Client, ClientWrite, ClientErase

LEMMA Refines ==
    ASSUME SectorErases, IInv, IInv', MInv, NInv, SInv, [Next]_vars,
           Content = Views, Content' = Views'
    PROVE  [Store!Next]_Content
<1>1. ASSUME NEW m \in Modules, NEW s \in Sectors, NEW o \in Cells, NEW l \in 1 .. CELLS,
             NEW v \in Byte, WriteAsync(m, s, o, l, v) \/ WriteSync(m, s, o, l, v)
      PROVE  Store!Next
  <2>1. Store!Write(m, s, o, l, v)
    BY <1>1, WriteAsyncEffect, WriteSyncEffect, EffectContent
  <2>2. l - 1 \in Cells /\ (l - 1) + 1 = l /\ v \in SUBSET Bits
    BY SizeAssumption DEF Cells, Byte
  <2>3. Store!Write(m, s, o, (l - 1) + 1, v)
    BY <2>1, <2>2
  <2> QED
    BY <2>2, <2>3 DEF Store!Next
<1>2. ASSUME NEW m \in Modules, NEW l \in EraseLens, NEW a \in Sectors,
             EraseAsync(m, a, l) \/ EraseSync(m, a, l)
      PROVE  Store!Next
  <2>1. l = 1
    BY DEF SectorErases
  <2>2. Store!Erase(m, a, l)
    BY <1>2, <2>1, EraseAsyncEffect, EraseSyncEffect, ErasedContent
  <2> QED
    BY <2>2 DEF Store!Next
<1>3. ASSUME Flush \/ Cp \/ UNCHANGED vars PROVE Content' = Content
  BY <1>3, InnerSteps, SteadyContent
<1> QED
  BY <1>1, <1>2, <1>3 DEF Next, Client, ClientWrite, ClientErase

LEMMA CallsTook ==
    ASSUME SectorErases, IInv, IInv', MInv, NInv, SInv, Content = Views, Content' = Views'
    PROVE  Took
<1>1. ASSUME NEW m \in Modules, NEW s \in Sectors, NEW o \in Cells, NEW l \in 1 .. CELLS,
             NEW v \in Byte, WriteAsync(m, s, o, l, v) \/ WriteSync(m, s, o, l, v)
      PROVE  Store!Write(m, s, o, l, v)
  BY <1>1, WriteAsyncEffect, WriteSyncEffect, EffectContent
<1>2. ASSUME NEW m \in Modules, NEW l \in EraseLens, NEW a \in Sectors,
             EraseAsync(m, a, l) \/ EraseSync(m, a, l)
      PROVE  Store!Erase(m, a, l)
  <2>1. l = 1
    BY DEF SectorErases
  <2> QED
    BY <1>2, <2>1, EraseAsyncEffect, EraseSyncEffect, ErasedContent
<1> QED
  BY <1>1, <1>2 DEF Took

LEMMA ReadsInvariance ==
    ASSUME OneAtATime, ~CP_USER, SectorErases
    PROVE  Spec => [](IInv /\ MInv /\ NInv /\ SInv /\ Content = Views)
<1>1. IInv /\ IInv' /\ MInv /\ NInv /\ SInv /\ [Next]_vars => SInv'
  BY ReadsNext
<1>2. Spec => []SInv
  BY <1>1, InitContent, Invariance, MutexInvariance, ServedInvariance, PTL DEF Spec
<1>3. IInv /\ SInv => Content = Views
  BY ContentViews DEF SInv
<1> QED
  BY <1>2, <1>3, Invariance, MutexInvariance, ServedInvariance, PTL

\* The queue implements the store its clients are promised, when they erase
\* sector by sector: whatever is merged, dropped, suspended, resumed or
\* overtaken, executing it is a stutter of the store, and every other step that
\* changes it is a write or an erase.
THEOREM ImplementsStore ==
    ASSUME OneAtATime, ~CP_USER, SectorErases
    PROVE  Spec => StoreRefined
<1>1. /\ IInv /\ MInv /\ NInv /\ SInv /\ Content = Views
      /\ IInv' /\ (Content = Views)' /\ [Next]_vars
      => [Store!Next]_Content
  BY Refines
<1>2. Spec => Store!Init /\ [][Store!Next]_Content
  BY <1>1, InitContent, ReadsInvariance, PTL DEF Spec
<1> QED
  BY <1>2 DEF StoreRefined, Store!Spec

\* A call that is accepted has its effect on what the client observes, at once
\* and on nothing else.
THEOREM CallsTakeEffectTheorem ==
    ASSUME OneAtATime, ~CP_USER, SectorErases
    PROVE  Spec => CallsTakeEffect
<1>1. /\ IInv /\ MInv /\ NInv /\ SInv /\ Content = Views
      /\ IInv' /\ (Content = Views)'
      => [Took]_vars
  BY CallsTook
<1>2. Spec => [][Took]_vars
  BY <1>1, ReadsInvariance, PTL DEF Spec
<1>3. CallsTakeEffect <=> [][Took]_vars
  BY DEF CallsTakeEffect, Took
<1> QED
  BY <1>2, <1>3
=============================================================================
