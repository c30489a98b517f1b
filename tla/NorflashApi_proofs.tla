------------------------- MODULE NorflashApi_proofs --------------------------
(***************************************************************************)
(* Proofs about NorflashApi, for every number of modules, sectors, pages,  *)
(* nodes, buffers and callers, and for every build.                        *)
(***************************************************************************)
EXTENDS NorflashApi, TLAPS

\* The inductive invariant.  The type invariant is not inductive alone: that a
\* node to execute exists rests on the accounting of the pools, which rests on
\* the shape of the lists and on the agreement about what is suspended.
IInv == TypeOK /\ PoolAccounted /\ ListChained /\ SuspendedAgrees

-----------------------------------------------------------------------------
(* Types of the operators.                                                 *)

LEMMA OverwriteType ==
    ASSUME NEW old \in Sector, NEW o \in Cells, NEW l \in 1 .. CELLS, NEW v \in Byte
    PROVE  Overwrite(old, o, l, v) \in Sector
BY DEF Overwrite, Sector

LEMMA BlankType == Blank \in Sector
BY DEF Blank, Sector, Byte

LEMMA ExecuteType ==
    ASSUME NEW old \in [Sectors -> Sector], NEW n, NEW upto, NEW open
    PROVE  Execute(old, n, upto, open) \in [Sectors -> Sector]
BY BlankType DEF Execute, Sector, Byte

LEMMA ContentsType ==
    ASSUME TypeOK, NEW m \in Modules, NEW N, NEW s \in Sectors
    PROVE  Contents(m, N, s) \in Sector
<1>1. \A c \in Cells : flash[m][s][c] \in SUBSET Bits
  BY DEF TypeOK, Sector, Byte
<1> QED
  BY <1>1, Zenon DEF Contents, Sector, Byte

\* The nodes the operations make, and what they change of a node.
LEMMA NewNodes ==
    ASSUME NEW s \in Sectors, NEW o \in Cells, NEW l \in 1 .. CELLS, o + l <= CELLS,
           NEW b \in Buffers, NEW data \in Sector, NEW list \in SUBSET Slots
    PROVE  WriteNode(s, o, l, b, data, list) \in Node
<1>1. NULL \notin Buffers
  BY NullAssumption, SizeAssumption DEF Buffers
<1> QED
  BY <1>1, SizeAssumption DEF WriteNode, Node, Sectors, Cells

LEMMA EraseNodeType ==
    ASSUME NEW a \in Sectors, NEW l \in 1 .. SECTORS, a + l <= SECTORS,
           NEW list \in SUBSET Slots
    PROVE  EraseNode(a, l, list) \in Node
BY SizeAssumption, BlankType DEF EraseNode, Node, Sectors, Cells

LEMMA CutNode ==
    ASSUME NEW n \in Node, NEW D
    PROVE  /\ Cut(n, D) \in Node
           /\ Cut(n, D).type = n.type /\ Cut(n, D).lock = n.lock
           /\ Cut(n, D).buff = n.buff /\ Cut(n, D).rest = n.rest \ D
BY DEF Node, Cut

LEMMA LockedNode ==
    ASSUME NEW n \in Node
    PROVE  /\ Locked(n) \in Node /\ Locked(n).lock = TRUE
           /\ Locked(n).type = n.type /\ Locked(n).buff = n.buff
           /\ Locked(n).rest = n.rest
BY DEF Node, Locked

LEMMA MergedNode ==
    ASSUME NEW n \in Node, NEW o \in Cells, NEW l \in 1 .. CELLS, o + l <= CELLS,
           NEW v \in Byte
    PROVE  /\ Merged(n, o, l, v) \in Node
           /\ Merged(n, o, l, v).type = n.type /\ Merged(n, o, l, v).buff = n.buff
           /\ Merged(n, o, l, v).rest = n.rest /\ Merged(n, o, l, v).lock = n.lock
<1> DEFINE h == Hull(n, o, l)
<1>1. Overwrite(n.data, o, l, v) \in Sector
  BY OverwriteType DEF Node
<1>2. /\ n.w_offs \in 0 .. CELLS - 1 /\ n.w_len \in 0 .. CELLS
      /\ n.w_offs + n.w_len <= CELLS
      /\ o \in 0 .. CELLS - 1 /\ CELLS \in Nat
  BY SizeAssumption DEF Node, Cells
<1>3. h.offs \in Cells /\ h.len \in 0 .. CELLS /\ h.offs + h.len <= CELLS
  BY <1>2 DEF Hull, Cells
<1>4. Merged(n, o, l, v) =
        [n EXCEPT !.w_offs = h.offs, !.w_len = h.len, !.data = Overwrite(n.data, o, l, v)]
  BY DEF Merged
<1> QED
  BY <1>1, <1>3, <1>4 DEF Node

LEMMA FreedType ==
    ASSUME TypeOK, NEW D
    PROVE  /\ Freed(D) \in [Slots -> Node \cup {NULL}]
           /\ \A x \in Slots : Freed(D)[x] # NULL <=> heap[x] # NULL /\ x \notin D
           /\ \A x \in Slots : heap[x] # NULL /\ x \notin D => Freed(D)[x] = Cut(heap[x], D)
<1>1. heap \in [Slots -> Node \cup {NULL}]
  BY DEF TypeOK
<1> QED
  BY <1>1, CutNode, NullAssumption DEF Freed

-----------------------------------------------------------------------------
(* The pools and the lists, as conditions on a heap H, the buffers B in use *)
(* and the lists L, so that they can be asked of the heap half way through  *)
(* an operation that drops nodes and adds one.                              *)

Heaps == [Slots -> Node \cup {NULL}]
Lists == [Modules -> SUBSET Slots]

PoolOf(H, B, L) ==
    /\ \A x \in Slots : H[x] # NULL <=> \E m \in Modules : x \in L[m]
    /\ \A m, o \in Modules : \A x \in L[m] : x \in L[o] => m = o
    /\ \A x \in Slots : H[x] # NULL /\ H[x].type = "W" => H[x].buff \in B
    /\ \A b \in B : \E x \in Slots : H[x] # NULL /\ H[x].type = "W" /\ H[x].buff = b
    /\ \A x, y \in Slots : H[x] # NULL /\ H[y] # NULL /\ x # y /\ H[x].type = "W"
                              => H[x].buff # H[y].buff

ChainOf(H, L) ==
    \A m \in Modules : \A x \in L[m] :
        /\ H[x].rest \subseteq L[m] /\ x \notin H[x].rest
        /\ \A y \in L[m] : y # x => (y \in H[x].rest <=> x \notin H[y].rest)
        /\ \A y \in L[m] : y \in H[x].rest => H[y].rest \subseteq H[x].rest

LEMMA PoolForm ==
    ASSUME opera_info \in Lists
    PROVE  PoolAccounted <=> PoolOf(heap, buffs, opera_info)
<1>1. PoolAccounted => PoolOf(heap, buffs, opera_info)
  BY DEF PoolAccounted, PoolOf, UsedSlots, Lists
<1>2. ASSUME PoolOf(heap, buffs, opera_info) PROVE PoolAccounted
  <2>1. UsedSlots = UNION {opera_info[m] : m \in Modules}
    BY <1>2 DEF PoolOf, UsedSlots, Lists
  <2>2. \A m, o \in Modules : m # o => opera_info[m] \cap opera_info[o] = {}
    BY <1>2 DEF PoolOf
  <2>3. buffs = {heap[x].buff : x \in {y \in UsedSlots : heap[y].type = "W"}}
    BY <1>2 DEF PoolOf, UsedSlots
  <2>4. \A x, y \in UsedSlots :
          x # y /\ heap[x].type = "W" => heap[x].buff # heap[y].buff
    BY <1>2 DEF PoolOf, UsedSlots
  <2> QED
    BY <2>1, <2>2, <2>3, <2>4 DEF PoolAccounted
<1> QED
  BY <1>1, <1>2

LEMMA ChainForm ==
    ListChained <=> ChainOf(heap, opera_info)
BY DEF ListChained, ChainOf, Newer

\* The same of the next state.
LEMMA PoolFormNext ==
    ASSUME opera_info' \in Lists
    PROVE  PoolAccounted' <=> PoolOf(heap', buffs', opera_info')
<1>1. PoolAccounted' => PoolOf(heap', buffs', opera_info')
  BY DEF PoolAccounted, PoolOf, UsedSlots, Lists
<1>2. ASSUME PoolOf(heap', buffs', opera_info') PROVE PoolAccounted'
  <2>1. UsedSlots' = UNION {opera_info'[m] : m \in Modules}
    BY <1>2 DEF PoolOf, UsedSlots, Lists
  <2>2. \A m, o \in Modules : m # o => opera_info'[m] \cap opera_info'[o] = {}
    BY <1>2 DEF PoolOf
  <2>3. buffs' = {heap'[x].buff : x \in {y \in UsedSlots' : heap'[y].type = "W"}}
    BY <1>2 DEF PoolOf, UsedSlots
  <2>4. \A x, y \in UsedSlots' :
          x # y /\ heap'[x].type = "W" => heap'[x].buff # heap'[y].buff
    BY <1>2 DEF PoolOf, UsedSlots
  <2> QED
    BY <2>1, <2>2, <2>3, <2>4 DEF PoolAccounted
<1> QED
  BY <1>1, <1>2

LEMMA ChainFormNext ==
    ListChained' <=> ChainOf(heap', opera_info')
BY DEF ListChained, ChainOf, Newer

\* Freeing nodes and taking them out of their lists.
LEMMA FreePool ==
    ASSUME TypeOK, PoolAccounted, NEW D \in SUBSET Slots
    PROVE  PoolOf(Freed(D), buffs \ {heap[x].buff : x \in D \cap UsedSlots},
                  [o \in Modules |-> opera_info[o] \ D])
<1> DEFINE H == Freed(D)
           B == buffs \ {heap[x].buff : x \in D \cap UsedSlots}
           L == [o \in Modules |-> opera_info[o] \ D]
<1>1. PoolOf(heap, buffs, opera_info)
  BY PoolForm DEF TypeOK, Lists
<1>2. \A x \in Slots : /\ H[x] # NULL <=> heap[x] # NULL /\ x \notin D
                       /\ H[x] # NULL => H[x].type = heap[x].type /\ H[x].buff = heap[x].buff
  BY FreedType, CutNode DEF TypeOK
<1>3. \A m \in Modules : L[m] = opera_info[m] \ D
  OBVIOUS
<1> HIDE DEF H, L
<1>4. \A x \in Slots : H[x] # NULL <=> \E m \in Modules : x \in L[m]
  BY <1>1, <1>2, <1>3 DEF PoolOf
<1>5. \A m, o \in Modules : \A x \in L[m] : x \in L[o] => m = o
  BY <1>1, <1>3 DEF PoolOf
<1>6. \A x \in Slots : H[x] # NULL /\ H[x].type = "W" => H[x].buff \in B
  BY <1>1, <1>2 DEF PoolOf, UsedSlots
<1>7. \A b \in B : \E x \in Slots : H[x] # NULL /\ H[x].type = "W" /\ H[x].buff = b
  BY <1>1, <1>2 DEF PoolOf, UsedSlots
<1>8. \A x, y \in Slots : H[x] # NULL /\ H[y] # NULL /\ x # y /\ H[x].type = "W"
                             => H[x].buff # H[y].buff
  BY <1>1, <1>2 DEF PoolOf
<1> QED
  BY <1>4, <1>5, <1>6, <1>7, <1>8 DEF PoolOf, H, L

LEMMA FreeChain ==
    ASSUME TypeOK, PoolAccounted, ListChained, NEW D \in SUBSET Slots
    PROVE  ChainOf(Freed(D), [o \in Modules |-> opera_info[o] \ D])
<1> DEFINE H == Freed(D)
           L == [o \in Modules |-> opera_info[o] \ D]
<1>1. PoolOf(heap, buffs, opera_info) /\ ChainOf(heap, opera_info)
  BY PoolForm, ChainForm DEF TypeOK, Lists
<1>2. \A m \in Modules : L[m] = opera_info[m] \ D
  OBVIOUS
<1>3. \A m \in Modules : opera_info[m] \subseteq Slots
  BY DEF TypeOK
<1>4. \A m \in Modules : \A x \in L[m] : H[x].rest = heap[x].rest \ D
  <2> SUFFICES ASSUME NEW m \in Modules, NEW x \in L[m] PROVE H[x].rest = heap[x].rest \ D
    OBVIOUS
  <2>1. x \in Slots /\ x \notin D /\ heap[x] # NULL
    BY <1>1, <1>2, <1>3 DEF PoolOf
  <2>2. heap[x] \in Node /\ H[x] = Cut(heap[x], D)
    BY <2>1, FreedType DEF TypeOK
  <2> QED
    BY <2>2, CutNode
<1> HIDE DEF H, L
<1>5. ChainOf(H, L)
  BY <1>1, <1>2, <1>4 DEF ChainOf
<1> QED
  BY <1>5 DEF H, L

\* Adding a node in front of a list.
LEMMA AddPool ==
    ASSUME NEW H \in Heaps, NEW L \in Lists, NEW B \in SUBSET Buffers, PoolOf(H, B, L),
           NEW x \in Slots, H[x] = NULL, NEW m \in Modules, NEW n \in Node,
           NEW C \in SUBSET Buffers, n.type = "W" => n.buff \notin B /\ C = {n.buff},
           n.type = "E" => C = {}
    PROVE  PoolOf([H EXCEPT ![x] = n], B \cup C, [L EXCEPT ![m] = @ \cup {x}])
<1> DEFINE I == [H EXCEPT ![x] = n]
           M == [L EXCEPT ![m] = @ \cup {x}]
<1>1. \A y \in Slots : I[y] = IF y = x THEN n ELSE H[y]
  BY DEF Heaps
<1>2. \A o \in Modules : M[o] = IF o = m THEN L[m] \cup {x} ELSE L[o]
  BY DEF Lists
<1>3. \A o \in Modules : x \notin L[o] /\ L[o] \subseteq Slots
  BY DEF PoolOf, Lists
<1>4. n # NULL /\ n.type \in {"W", "E"} /\ (n.type = "E" => n.buff = NULL)
  BY NullAssumption DEF Node
<1>5. NULL \notin Buffers
  BY NullAssumption, SizeAssumption DEF Buffers
<1>6. \A y \in Slots : H[y] # NULL /\ H[y].type # "W" => H[y].buff = NULL
  BY DEF Heaps, Node
<1> HIDE DEF I, M
<1>7. \A y \in Slots : I[y] # NULL <=> \E o \in Modules : y \in M[o]
  BY <1>1, <1>2, <1>3, <1>4 DEF PoolOf
<1>8. \A o, q \in Modules : \A y \in M[o] : y \in M[q] => o = q
  BY <1>2, <1>3 DEF PoolOf
<1>9. \A y \in Slots : I[y] # NULL /\ I[y].type = "W" => I[y].buff \in B \cup C
  BY <1>1 DEF PoolOf
<1>10. \A b \in B \cup C : \E y \in Slots : I[y] # NULL /\ I[y].type = "W" /\ I[y].buff = b
  BY <1>1, <1>4 DEF PoolOf
<1>11. \A y, z \in Slots : I[y] # NULL /\ I[z] # NULL /\ y # z /\ I[y].type = "W"
                             => I[y].buff # I[z].buff
  <2>1. ASSUME NEW z \in Slots, H[z] # NULL, n.type = "W" PROVE n.buff # H[z].buff
    BY <1>5, <1>6, <2>1 DEF PoolOf
  <2>2. ASSUME NEW y \in Slots, H[y] # NULL, H[y].type = "W" PROVE H[y].buff # n.buff
    BY <1>4, <1>5, <2>2 DEF PoolOf
  <2> QED
    BY <1>1, <2>1, <2>2 DEF PoolOf
<1> QED
  BY <1>7, <1>8, <1>9, <1>10, <1>11 DEF PoolOf, I, M

LEMMA AddChain ==
    ASSUME NEW H \in Heaps, NEW L \in Lists, NEW B, PoolOf(H, B, L), ChainOf(H, L),
           NEW x \in Slots, H[x] = NULL, NEW m \in Modules, NEW n \in Node, n.rest = L[m]
    PROVE  ChainOf([H EXCEPT ![x] = n], [L EXCEPT ![m] = @ \cup {x}])
<1> DEFINE I == [H EXCEPT ![x] = n]
           M == [L EXCEPT ![m] = @ \cup {x}]
<1>1. \A y \in Slots : I[y] = IF y = x THEN n ELSE H[y]
  BY DEF Heaps
<1>2. \A o \in Modules : M[o] = IF o = m THEN L[m] \cup {x} ELSE L[o]
  BY DEF Lists
<1>3. \A o \in Modules : x \notin L[o] /\ L[o] \subseteq Slots
  BY DEF PoolOf, Lists
<1> HIDE DEF I, M
<1>4. ChainOf(I, M)
  BY <1>1, <1>2, <1>3 DEF ChainOf
<1> QED
  BY <1>4 DEF I, M

-----------------------------------------------------------------------------
(* The invariant is preserved.                                             *)

\* What a module's list is known to hold.
LEMMA ListFacts ==
    ASSUME IInv, NEW m \in Modules
    PROVE  /\ opera_info[m] \subseteq Slots
           /\ \A x \in opera_info[m] : heap[x] \in Node /\ heap[x] # NULL
           /\ NULL \notin Slots
           /\ state[m] # "IDLE" <=> cur_opera_info[m] # NULL
           /\ cur_opera_info[m] # NULL => cur_opera_info[m] \in Tails(m)
           /\ Current(m) \subseteq Tails(m) /\ Tails(m) \subseteq opera_info[m]
<1>1. opera_info[m] \subseteq Slots /\ NULL \notin Slots
  BY NullAssumption, SizeAssumption DEF IInv, TypeOK, Slots
<1>2. \A x \in opera_info[m] : heap[x] \in Node /\ heap[x] # NULL
  BY <1>1 DEF IInv, TypeOK, PoolAccounted, UsedSlots
<1>3. Tails(m) \subseteq opera_info[m]
  BY DEF Tails
<1>4. /\ state[m] # "IDLE" <=> cur_opera_info[m] # NULL
      /\ cur_opera_info[m] # NULL => cur_opera_info[m] \in Tails(m)
  BY <1>1, <1>3 DEF IInv, SuspendedAgrees
<1> QED
  BY <1>1, <1>2, <1>3, <1>4 DEF Current

LEMMA MergeKeeps ==
    ASSUME IInv, NEW m \in Modules, NEW s \in Sectors, NEW o \in Cells,
           NEW l \in 1 .. CELLS, NEW v \in Byte, o + l <= CELLS,
           MergeWrite(m, s, o, l, v),
           UNCHANGED <<cur_opera_info, state, chipVars, cpVars, modVars, callVars, ret, panic>>
    PROVE  IInv'
<1>1. PICK x \in opera_info[m] : heap' = [heap EXCEPT ![x] = Merged(@, o, l, v)]
  BY DEF MergeWrite, WriteHit, Newest
<1>2. x \in Slots /\ heap[x] \in Node /\ heap[x] # NULL
  BY ListFacts
<1>3. /\ UNCHANGED <<buffs, opera_info, cur_opera_info, state, flash, hal, unprot, cur_mod,
                     cur_mod_id, allowed_cb, cpDone, pc, pick, all, ret, panic>>
  BY DEF MergeWrite, chipVars, cpVars, modVars, callVars
<1>4. heap \in Heaps /\ heap' \in Heaps
  BY <1>1, <1>2, MergedNode DEF IInv, TypeOK, Heaps
<1>5. \A y \in Slots : /\ heap'[y] # NULL <=> heap[y] # NULL
                       /\ heap[y] # NULL => /\ heap'[y].type = heap[y].type
                                            /\ heap'[y].buff = heap[y].buff
                                            /\ heap'[y].rest = heap[y].rest
                                            /\ heap'[y].lock = heap[y].lock
  BY <1>1, <1>2, <1>4, MergedNode, NullAssumption DEF Heaps
<1>6. \A q \in Modules : opera_info[q] \subseteq Slots /\ \A y \in opera_info[q] : heap[y] # NULL
  BY ListFacts
<1>7. TypeOK'
  BY <1>3, <1>4 DEF IInv, TypeOK, Heaps
<1>8. PoolAccounted'
  <2>1. PoolOf(heap, buffs, opera_info) /\ opera_info \in Lists
    BY PoolForm DEF IInv, TypeOK, Lists
  <2>2. PoolOf(heap', buffs', opera_info')
    BY <2>1, <1>3, <1>5 DEF PoolOf
  <2> QED
    BY <2>1, <2>2, <1>3, PoolFormNext
<1>9. ListChained'
  <2>1. ChainOf(heap, opera_info)
    BY ChainForm DEF IInv
  <2>2. ChainOf(heap', opera_info')
    BY <2>1, <1>3, <1>5, <1>6 DEF ChainOf
  <2> QED
    BY <2>2, ChainFormNext
<1>10. SuspendedAgrees'
  <2>1. \A q \in Modules : Tails(q)' = Tails(q)
    BY <1>3, <1>5, <1>6 DEF Tails
  <2>2. \A q \in Modules : \A y \in opera_info[q] : heap'[y].lock = heap[y].lock
    BY <1>5, <1>6
  <2>3. \A q \in Modules : state[q] # "IDLE" =>
           Suspended(heap'[cur_opera_info[q]]) = Suspended(heap[cur_opera_info[q]])
    BY <1>5, <1>6, ListFacts DEF Suspended
  <2> QED
    BY <1>3, <2>1, <2>2, <2>3 DEF IInv, SuspendedAgrees
<1> QED
  BY <1>7, <1>8, <1>9, <1>10 DEF IInv

\* Adding a node changes nothing of the nodes that are there.
LEMMA AddAgrees ==
    ASSUME IInv, NEW H \in Heaps, NEW m \in Modules, NEW x \in Slots, NEW n \in Node,
           NEW L \in Lists, \A q \in Modules : L[q] \subseteq opera_info[q],
           \A q \in Modules : state[q] # "IDLE" => cur_opera_info[q] \in L[q],
           \A q \in Modules : \A y \in L[q] :
              /\ H[y] # NULL /\ H[y].lock = heap[y].lock /\ H[y].type = heap[y].type
              /\ heap[y].rest = {} => H[y].rest = {},
           H[x] = NULL, n.lock = FALSE,
           heap' = [H EXCEPT ![x] = n], opera_info' = [L EXCEPT ![m] = @ \cup {x}],
           UNCHANGED <<cur_opera_info, state, hal>>
    PROVE  SuspendedAgrees'
<1>1. \A q \in Modules : \A y \in L[q] : y # x /\ y \in Slots /\ y \in opera_info[q]
  BY DEF Lists
<1>2. \A y \in Slots : heap'[y] = IF y = x THEN n ELSE H[y]
  BY DEF Heaps
<1>3. \A q \in Modules : opera_info'[q] = IF q = m THEN L[m] \cup {x} ELSE L[q]
  BY DEF Lists
<1>4. \A q \in Modules : \A y \in L[q] :
         heap'[y].lock = heap[y].lock /\ heap'[y].type = heap[y].type
  BY <1>1, <1>2
<1>5. \A q \in Modules : state[q] # "IDLE" => cur_opera_info[q] \in Tails(q)'
  <2> SUFFICES ASSUME NEW q \in Modules, state[q] # "IDLE"
               PROVE  cur_opera_info[q] \in opera_info'[q] /\ heap'[cur_opera_info[q]].rest = {}
    BY DEF Tails
  <2>1. heap[cur_opera_info[q]].rest = {}
    BY DEF IInv, SuspendedAgrees, Tails
  <2> QED
    BY <1>1, <1>2, <1>3, <2>1
<1>6. \A q \in Modules : state[q] # "IDLE" =>
         Suspended(heap'[cur_opera_info[q]]) = Suspended(heap[cur_opera_info[q]])
  BY <1>4 DEF Suspended
<1>7. \A q \in Modules : \A y \in opera_info'[q] : heap'[y].lock <=> y = cur_opera_info[q]
  <2> SUFFICES ASSUME NEW q \in Modules, NEW y \in opera_info'[q]
               PROVE  heap'[y].lock <=> y = cur_opera_info[q]
    OBVIOUS
  <2>1. CASE y = x
    <3>1. cur_opera_info[q] # x
      BY <1>1, ListFacts
    <3> QED
      BY <2>1, <3>1, <1>2
  <2>2. CASE y # x
    BY <2>2, <1>1, <1>3, <1>4 DEF IInv, SuspendedAgrees
  <2> QED
    BY <2>1, <2>2
<1> QED
  BY <1>5, <1>6, <1>7 DEF IInv, SuspendedAgrees

LEMMA AddKeeps ==
    ASSUME IInv, NEW m \in Modules, NEW s \in Sectors, NEW o \in Cells,
           NEW l \in 1 .. CELLS, NEW v \in Byte, o + l <= CELLS,
           AddWrite(m, s, o, l, v),
           UNCHANGED <<cur_opera_info, state, chipVars, cpVars, modVars, callVars, ret, panic>>
    PROVE  IInv'
<1> DEFINE old == IF WriteHit(m, s) = {} THEN flash[m][s] ELSE Blank
<1>1. PICK x \in FirstFree(Slots, UsedSlots), b \in FirstFree(Buffers, buffs) :
        /\ heap' = [heap EXCEPT ![x] =
                      WriteNode(s, o, l, b, Overwrite(old, o, l, v), opera_info[m])]
        /\ buffs' = buffs \cup {b}
        /\ opera_info' = [opera_info EXCEPT ![m] = @ \cup {x}]
  BY DEF AddWrite
<1> DEFINE n == WriteNode(s, o, l, b, Overwrite(old, o, l, v), opera_info[m])
<1>2. x \in Slots /\ heap[x] = NULL /\ b \in Buffers /\ b \notin buffs
  BY DEF FirstFree, UsedSlots
<1>3. /\ heap \in Heaps /\ opera_info \in Lists /\ buffs \in SUBSET Buffers
      /\ opera_info[m] \in SUBSET Slots /\ flash[m][s] \in Sector
  BY DEF IInv, TypeOK, Heaps, Lists
<1>4. n \in Node
  BY <1>2, <1>3, BlankType, OverwriteType, NewNodes
<1>5. n.type = "W" /\ n.buff = b /\ n.rest = opera_info[m] /\ n.lock = FALSE
  BY DEF WriteNode
<1> HIDE DEF n
<1>6. UNCHANGED <<cur_opera_info, state, flash, hal, unprot, cur_mod,
                  cur_mod_id, allowed_cb, cpDone, pc, pick, all, ret, panic>>
  BY DEF chipVars, cpVars, modVars, callVars
<1>7. heap' = [heap EXCEPT ![x] = n]
  BY <1>1 DEF n
<1>8. heap' \in Heaps /\ opera_info' \in Lists
  BY <1>1, <1>2, <1>3, <1>4, <1>7 DEF Heaps, Lists
<1>9. PoolOf(heap, buffs, opera_info) /\ ChainOf(heap, opera_info)
  BY <1>3, PoolForm, ChainForm DEF IInv
<1>10. TypeOK'
  BY <1>1, <1>2, <1>6, <1>8 DEF IInv, TypeOK, Heaps, Lists
<1>11. PoolOf(heap', buffs', opera_info')
  <2>1. {b} \in SUBSET Buffers /\ n.buff \notin buffs /\ {b} = {n.buff}
    BY <1>2, <1>5
  <2>2. PoolOf([heap EXCEPT ![x] = n], buffs \cup {b}, [opera_info EXCEPT ![m] = @ \cup {x}])
    BY <1>2, <1>3, <1>4, <1>5, <1>9, <2>1, AddPool
  <2> QED
    BY <1>1, <1>7, <2>2
<1>12. ChainOf(heap', opera_info')
  <2>1. ChainOf([heap EXCEPT ![x] = n], [opera_info EXCEPT ![m] = @ \cup {x}])
    BY <1>2, <1>3, <1>4, <1>5, <1>9, AddChain
  <2> QED
    BY <1>1, <1>7, <2>1
<1>13. SuspendedAgrees'
  <2>1. \A q \in Modules : state[q] # "IDLE" => cur_opera_info[q] \in opera_info[q]
    BY ListFacts
  <2>2. \A q \in Modules : \A y \in opera_info[q] : heap[y] # NULL
    BY ListFacts
  <2>3. opera_info' = [opera_info EXCEPT ![m] = @ \cup {x}]
    BY <1>1
  <2>4. \A q \in Modules : \A y \in opera_info[q] :
           /\ heap[y] # NULL /\ heap[y].lock = heap[y].lock /\ heap[y].type = heap[y].type
           /\ heap[y].rest = {} => heap[y].rest = {}
    BY <2>2
  <2>5. \A q \in Modules : opera_info[q] \subseteq opera_info[q]
    OBVIOUS
  <2>6. heap \in Heaps /\ opera_info \in Lists /\ x \in Slots /\ heap[x] = NULL
    BY <1>2, <1>3
  <2>7. UNCHANGED <<cur_opera_info, state, hal>>
    BY <1>6
  <2> QED
    BY <1>4, <1>5, <1>7, <2>1, <2>3, <2>4, <2>5, <2>6, <2>7, AddAgrees
<1> QED
  BY <1>8, <1>10, <1>11, <1>12, <1>13, PoolFormNext, ChainFormNext DEF IInv

\* Freeing nodes D keeps the pools and the lists.
LEMMA FreeKeepsLists ==
    ASSUME IInv, NEW D \in SUBSET UsedSlots, Free(D),
           opera_info' = [o \in Modules |-> opera_info[o] \ D]
    PROVE  /\ heap' \in Heaps /\ buffs' \subseteq Buffers /\ opera_info' \in Lists
           /\ PoolAccounted' /\ ListChained'
<1>1. D \in SUBSET Slots /\ D \cap UsedSlots = D
  BY DEF UsedSlots
<1>2. heap' = Freed(D) /\ buffs' = buffs \ {heap[x].buff : x \in D \cap UsedSlots}
  BY <1>1 DEF Free
<1>3. heap' \in Heaps /\ buffs' \subseteq Buffers /\ opera_info' \in Lists
  BY <1>2, FreedType DEF IInv, TypeOK, Heaps, Lists
<1>4. PoolOf(heap', buffs', opera_info')
  BY <1>1, <1>2, FreePool DEF IInv
<1>5. ChainOf(heap', opera_info')
  BY <1>1, <1>2, FreeChain DEF IInv
<1> QED
  BY <1>3, <1>4, <1>5, PoolFormNext, ChainFormNext

\* It keeps the agreement when an operation in progress goes with its node.
LEMMA FreeAgrees ==
    ASSUME IInv, NEW D \in SUBSET UsedSlots, Free(D),
           opera_info' = [o \in Modules |-> opera_info[o] \ D],
           \A q \in Modules :
              \/ /\ state'[q] = state[q] /\ cur_opera_info'[q] = cur_opera_info[q]
                 /\ cur_opera_info[q] \notin D
              \/ /\ state'[q] = "IDLE" /\ cur_opera_info'[q] = NULL
                 /\ cur_opera_info[q] # NULL => cur_opera_info[q] \in D,
           \A q \in Modules : IF state'[q] = "IDLE" THEN hal'.mod # q ELSE hal' = hal,
           hal'.st = "NONE" <=> hal'.mod = NULL
    PROVE  SuspendedAgrees'
<1>1. D \subseteq Slots /\ heap' = Freed(D)
  BY DEF UsedSlots, Free
<1>2. \A q \in Modules : opera_info'[q] = opera_info[q] \ D
  OBVIOUS
<1>3. \A q \in Modules : \A y \in opera_info[q] \ D :
         /\ heap'[y].lock = heap[y].lock /\ heap'[y].type = heap[y].type
         /\ heap'[y].rest = heap[y].rest \ D
  <2> SUFFICES ASSUME NEW q \in Modules, NEW y \in opera_info[q] \ D
               PROVE  /\ heap'[y].lock = heap[y].lock /\ heap'[y].type = heap[y].type
                      /\ heap'[y].rest = heap[y].rest \ D
    OBVIOUS
  <2>1. y \in Slots /\ heap[y] # NULL /\ heap[y] \in Node
    BY ListFacts
  <2>2. heap'[y] = Cut(heap[y], D)
    BY <1>1, <2>1, FreedType DEF IInv
  <2> QED
    BY <2>1, <2>2, CutNode
<1>4. \A q \in Modules : \A y \in opera_info'[q] : heap'[y].lock <=> y = cur_opera_info'[q]
  <2> SUFFICES ASSUME NEW q \in Modules, NEW y \in opera_info'[q]
               PROVE  heap'[y].lock <=> y = cur_opera_info'[q]
    OBVIOUS
  <2>1. y \in opera_info[q] /\ y \notin D /\ y # NULL
    BY <1>2, ListFacts
  <2>2. heap[y].lock <=> y = cur_opera_info[q]
    BY <2>1 DEF IInv, SuspendedAgrees
  <2> QED
    BY <1>3, <2>1, <2>2
<1>5. ASSUME NEW q \in Modules, state'[q] # "IDLE"
      PROVE  /\ hal'.mod = q /\ hal'.st = state'[q]
             /\ cur_opera_info'[q] \in Tails(q)'
             /\ state'[q] = Suspended(heap'[cur_opera_info'[q]])
  <2>1. /\ state'[q] = state[q] /\ cur_opera_info'[q] = cur_opera_info[q]
        /\ cur_opera_info[q] \notin D /\ hal' = hal
    BY <1>5
  <2>2. /\ hal.mod = q /\ hal.st = state[q] /\ cur_opera_info[q] \in opera_info[q]
        /\ heap[cur_opera_info[q]].rest = {}
        /\ state[q] = Suspended(heap[cur_opera_info[q]])
    BY <1>5, <2>1 DEF IInv, SuspendedAgrees, Tails
  <2> QED
    BY <1>2, <1>3, <2>1, <2>2 DEF Tails, Suspended
<1>6. \A q \in Modules : state'[q] = "IDLE" => hal'.mod # q /\ cur_opera_info'[q] = NULL
  BY DEF IInv, SuspendedAgrees
<1> QED
  BY <1>4, <1>5, <1>6 DEF SuspendedAgrees

LEMMA EraseKeeps ==
    ASSUME IInv, NEW m \in Modules, NEW a \in Sectors, NEW l \in EraseLens,
           a + l <= SECTORS, EraseAsync(m, a, l)
    PROVE  IInv'
<1> DEFINE gone == Superseded(m, a, l)
           kept == opera_info[m] \ gone
           L == [o \in Modules |-> opera_info[o] \ gone]
<1>1. gone \subseteq opera_info[m] /\ \A x \in gone : heap[x].lock = FALSE
  <2>1. gone \subseteq opera_info[m] /\ \A x \in gone : ~heap[x].lock
    BY DEF Superseded, Inside
  <2>2. \A x \in gone : heap[x].lock \in BOOLEAN
    BY <2>1, ListFacts DEF Node
  <2> QED
    BY <2>1, <2>2
<1>2. gone \in SUBSET UsedSlots
  BY <1>1, ListFacts DEF UsedSlots
<1>3. [opera_info EXCEPT ![m] = kept] = L
  <2>1. opera_info \in Lists /\ \A o \in Modules : o # m => opera_info[o] \cap opera_info[m] = {}
    BY DEF IInv, TypeOK, Lists, PoolAccounted
  <2> QED
    BY <1>1, <2>1 DEF Lists
<1>4. \A q \in Modules : cur_opera_info[q] \notin gone
  <2> SUFFICES ASSUME NEW q \in Modules, cur_opera_info[q] \in gone PROVE FALSE
    OBVIOUS
  <2>1. heap[cur_opera_info[q]].lock = FALSE /\ cur_opera_info[q] # NULL
    BY <1>1, ListFacts
  <2>2. cur_opera_info[q] \in opera_info[q]
    BY <2>1, ListFacts
  <2> QED
    BY <2>1, <2>2 DEF IInv, SuspendedAgrees
<1>5. UNCHANGED <<cur_opera_info, state, flash, hal, unprot, cur_mod,
                  cur_mod_id, allowed_cb, cpDone, pc, pick, all, ret, panic>>
  BY DEF EraseAsync, chipVars, cpVars, modVars, callVars
<1> HIDE DEF gone
<1>6. CASE /\ Free(gone) /\ opera_info' = [opera_info EXCEPT ![m] = kept]
  <2>1. opera_info' = L
    BY <1>3, <1>6
  <2>2. /\ heap' \in Heaps /\ buffs' \subseteq Buffers /\ opera_info' \in Lists
        /\ PoolAccounted' /\ ListChained'
    BY <1>2, <1>6, <2>1, FreeKeepsLists
  <2>3. SuspendedAgrees'
    <3>1. \A q \in Modules : IF state'[q] = "IDLE" THEN hal'.mod # q ELSE hal' = hal
      BY <1>5 DEF IInv, SuspendedAgrees
    <3>2. hal'.st = "NONE" <=> hal'.mod = NULL
      BY <1>5 DEF IInv, SuspendedAgrees
    <3>3. Free(gone)
      BY <1>6
    <3> QED
      BY <1>2, <1>4, <1>5, <2>1, <3>1, <3>2, <3>3, FreeAgrees
  <2>4. TypeOK'
    BY <1>5, <2>2 DEF IInv, TypeOK, Heaps, Lists
  <2> QED
    BY <2>2, <2>3, <2>4 DEF IInv
<1>7. CASE \E x \in FirstFree(Slots, UsedSlots \ gone) :
             /\ heap' = [Freed(gone) EXCEPT ![x] = EraseNode(a, l, kept)]
             /\ buffs' = buffs \ {heap[y].buff : y \in gone}
             /\ opera_info' = [opera_info EXCEPT ![m] = kept \cup {x}]
  <2> DEFINE n == EraseNode(a, l, kept)
             H == Freed(gone)
             B == buffs \ {heap[y].buff : y \in gone}
  <2>1. PICK x \in Slots : /\ x \notin UsedSlots \ gone
                           /\ heap' = [H EXCEPT ![x] = n]
                           /\ buffs' = B
                           /\ opera_info' = [opera_info EXCEPT ![m] = kept \cup {x}]
    BY <1>7 DEF FirstFree
  <2>2. opera_info' = [L EXCEPT ![m] = @ \cup {x}]
    <3>1. opera_info' = [o \in Modules |-> IF o = m THEN kept \cup {x} ELSE opera_info[o]]
      BY <2>1 DEF IInv, TypeOK
    <3>2. \A o \in Modules : L[o] = IF o = m THEN kept ELSE opera_info[o]
      BY <1>3 DEF IInv, TypeOK
    <3> QED
      BY <3>1, <3>2
  <2>3. H \in Heaps /\ H[x] = NULL /\ \A y \in Slots : H[y] # NULL <=> heap[y] # NULL /\ y \notin gone
    BY <2>1, FreedType DEF IInv, UsedSlots, Heaps
  <2>4. /\ \A o \in Modules : opera_info[o] \subseteq Slots
        /\ kept \in SUBSET Slots /\ l \in 1 .. SECTORS /\ gone \in SUBSET Slots
    BY <1>1, ListFacts, SizeAssumption
  <2>5. n \in Node
    BY <2>4, EraseNodeType
  <2>6. n.type = "E" /\ n.rest = kept /\ n.lock = FALSE
    BY DEF EraseNode
  <2>7. L \in Lists /\ L[m] = kept
    BY <2>4 DEF Lists
  <2>8. B \in SUBSET Buffers /\ B = buffs \ {heap[y].buff : y \in gone \cap UsedSlots}
    BY <1>2 DEF IInv, TypeOK
  <2>9. PoolOf(H, B, L)
    BY <2>4, <2>8, FreePool DEF IInv
  <2>10. ChainOf(H, L)
    BY <2>4, FreeChain DEF IInv
  <2>11. \A q \in Modules : \A y \in L[q] :
            /\ H[y] # NULL /\ H[y].lock = heap[y].lock /\ H[y].type = heap[y].type
            /\ heap[y].rest = {} => H[y].rest = {}
    <3> SUFFICES ASSUME NEW q \in Modules, NEW y \in L[q]
                 PROVE  /\ H[y] # NULL /\ H[y].lock = heap[y].lock
                        /\ H[y].type = heap[y].type
                        /\ heap[y].rest = {} => H[y].rest = {}
      OBVIOUS
    <3>1. y \in Slots /\ y \notin gone /\ heap[y] # NULL /\ heap[y] \in Node
      BY ListFacts
    <3>2. H[y] = Cut(heap[y], gone) /\ H[y] # NULL
      BY <3>1, <2>3, FreedType DEF IInv
    <3> QED
      BY <3>1, <3>2, CutNode
  <2> HIDE DEF n, H, B, L
  <2>12. PoolOf(heap', buffs', opera_info')
    <3>1. PoolOf([H EXCEPT ![x] = n], B \cup {}, [L EXCEPT ![m] = @ \cup {x}])
      BY <2>3, <2>5, <2>6, <2>7, <2>8, <2>9, AddPool
    <3>2. B \cup {} = B
      OBVIOUS
    <3> QED
      BY <2>1, <2>2, <3>1, <3>2
  <2>13. ChainOf(heap', opera_info')
    <3>1. ChainOf([H EXCEPT ![x] = n], [L EXCEPT ![m] = @ \cup {x}])
      BY <2>3, <2>5, <2>6, <2>7, <2>9, <2>10, AddChain
    <3> QED
      BY <2>1, <2>2, <3>1
  <2>14. SuspendedAgrees'
    <3>1. \A q \in Modules : L[q] \subseteq opera_info[q]
      BY DEF L
    <3>2. \A q \in Modules : state[q] # "IDLE" => cur_opera_info[q] \in L[q]
      BY <1>4, ListFacts DEF L
    <3>3. heap' = [H EXCEPT ![x] = n]
      BY <2>1
    <3>4. UNCHANGED <<cur_opera_info, state, hal>>
      BY <1>5
    <3> QED
      BY <2>2, <2>3, <2>5, <2>6, <2>7, <2>11, <3>1, <3>2, <3>3, <3>4, AddAgrees
  <2>15. heap' \in Heaps /\ opera_info' \in Lists
    <3>1. heap' \in Heaps
      BY <2>1, <2>3, <2>5 DEF Heaps
    <3>2. L[m] \cup {x} \in SUBSET Slots
      BY <2>4, <2>7
    <3>3. opera_info' \in Lists
      BY <2>2, <2>7, <3>2 DEF Lists
    <3> QED
      BY <3>1, <3>3
  <2>16. TypeOK'
    BY <1>5, <2>1, <2>8, <2>15 DEF IInv, TypeOK, Heaps, Lists
  <2> QED
    BY <2>12, <2>13, <2>14, <2>15, <2>16, PoolFormNext, ChainFormNext DEF IInv
<1> QED
  BY <1>6, <1>7 DEF EraseAsync, gone

\* The node a flush works on can be freed: no other node's chain is cut.
LEMMA CurrentFacts ==
    ASSUME IInv, NEW m \in Modules, NEW x \in Current(m)
    PROVE  /\ x \in opera_info[m] /\ x \in Slots /\ heap[x] \in Node /\ heap[x] # NULL
           /\ heap[x].rest = {}
           /\ cur_opera_info[m] # NULL => x = cur_opera_info[m]
           /\ \A q \in Modules : q # m => cur_opera_info[q] # x /\ x \notin opera_info[q]
<1>1. x \in Tails(m) /\ x \in opera_info[m] /\ heap[x].rest = {}
  BY ListFacts DEF Tails
<1>2. x \in Slots /\ heap[x] \in Node /\ heap[x] # NULL /\ x # NULL
  BY <1>1, ListFacts
<1>3. \A q \in Modules : q # m => x \notin opera_info[q]
  BY <1>1 DEF IInv, PoolAccounted
<1>4. \A q \in Modules : cur_opera_info[q] # NULL => cur_opera_info[q] \in opera_info[q]
  BY ListFacts
<1> QED
  BY <1>1, <1>2, <1>3, <1>4 DEF Current

\* When module m may execute an operation, no other module's is suspended.
LEMMA OthersIdle ==
    ASSUME IInv, NEW m \in Modules, state[m] = "IDLE" => hal = HalNone
    PROVE  \A q \in Modules : q # m => state[q] = "IDLE" /\ cur_opera_info[q] = NULL
<1>1. \A q \in Modules : q # NULL
  BY NullAssumption, SizeAssumption DEF Modules
<1> QED
  BY <1>1 DEF IInv, SuspendedAgrees, HalNone

LEMMA CompleteKeeps ==
    ASSUME IInv, NEW f \in Flushers, FlushComplete(f)
    PROVE  IInv'
<1>1. PICK m \in Modules : m = pick[f]
  BY DEF FlushComplete, IInv, TypeOK
<1>2. PICK x \in Current(m) :
        /\ flash' = [flash EXCEPT ![m] = Execute(flash[m], heap[x], CELLS, Open(m, heap[x]))]
        /\ OperaDel(m, x)
  BY <1>1 DEF FlushComplete
<1>3. /\ hal' = HalNone /\ unprot' = Unprotect(m, {})
      /\ state' = [state EXCEPT ![m] = "IDLE"]
      /\ cur_opera_info' = [cur_opera_info EXCEPT ![m] = NULL]
      /\ cur_mod' = m /\ cur_mod_id' = m
      /\ UNCHANGED <<allowed_cb, cpDone, ret, panic>>
      /\ state[m] = "IDLE" => hal = HalNone
  BY <1>1 DEF FlushComplete, cpVars
<1>4. /\ pick' = [pick EXCEPT ![f] = NULL]
      /\ \E r \in {"ret0", "ret1"} : /\ pc' = [pc EXCEPT ![f] = r]
                                     /\ all' = [all EXCEPT ![f] = @ /\ r = "ret1"]
  BY DEF FlushComplete, FlushReturn, Return
<1>5. opera_info' = [o \in Modules |-> opera_info[o] \ {x}]
  <2>1. opera_info \in [Modules -> SUBSET Slots]
    BY DEF IInv, TypeOK
  <2>2. heap[x].rest = {} /\ \A q \in Modules : q # m => x \notin opera_info[q]
    BY <1>1, <1>2, CurrentFacts
  <2>3. opera_info' = [opera_info EXCEPT ![m] = @ \ {x}]
    BY <1>1, <1>2, <2>1, <2>2 DEF OperaDel
  <2> QED
    BY <1>1, <2>1, <2>2, <2>3
<1>6. {x} \in SUBSET UsedSlots /\ Free({x})
  BY <1>1, <1>2, CurrentFacts DEF OperaDel, UsedSlots
<1>7. /\ heap' \in Heaps /\ buffs' \subseteq Buffers /\ opera_info' \in Lists
      /\ PoolAccounted' /\ ListChained'
  BY <1>5, <1>6, FreeKeepsLists
<1>8. SuspendedAgrees'
  <2>1. \A q \in Modules :
           \/ /\ state'[q] = state[q] /\ cur_opera_info'[q] = cur_opera_info[q]
              /\ cur_opera_info[q] \notin {x}
           \/ /\ state'[q] = "IDLE" /\ cur_opera_info'[q] = NULL
              /\ cur_opera_info[q] # NULL => cur_opera_info[q] \in {x}
    BY <1>1, <1>2, <1>3, CurrentFacts DEF IInv, TypeOK
  <2>2. \A q \in Modules : state'[q] = "IDLE"
    BY <1>1, <1>3, OthersIdle DEF IInv, TypeOK
  <2>3. \A q \in Modules : IF state'[q] = "IDLE" THEN hal'.mod # q ELSE hal' = hal
    BY <1>3, <2>2, NullAssumption, SizeAssumption DEF HalNone, Modules
  <2>4. hal'.st = "NONE" <=> hal'.mod = NULL
    BY <1>3 DEF HalNone
  <2> QED
    BY <1>5, <1>6, <2>1, <2>3, <2>4, FreeAgrees
<1>9. TypeOK'
  <2>1. flash' \in [Modules -> [Sectors -> Sector]]
    <3>1. flash \in [Modules -> [Sectors -> Sector]]
      BY DEF IInv, TypeOK
    <3> QED
      BY <1>1, <1>2, <3>1, ExecuteType
  <2>2. hal' \in [st : {"NONE", "WRITTING_SUSPEND", "ERASE_SUSPEND"},
                  mod : Modules \cup {NULL}, next : Cells]
    BY <1>3, SizeAssumption DEF HalNone, Cells
  <2>3. unprot' \in [Modules -> SUBSET Sectors]
    BY <1>3 DEF Unprotect
  <2>4. /\ cur_opera_info' \in [Modules -> Slots \cup {NULL}]
        /\ state' \in [Modules -> {"IDLE", "WRITTING_SUSPEND", "ERASE_SUSPEND"}]
    BY <1>3 DEF IInv, TypeOK
  <2>5. cur_mod' \in Modules \cup {NULL} /\ cur_mod_id' \in 0 .. MODULES
    BY <1>1, <1>3, SizeAssumption DEF Modules
  <2>6. /\ pc' \in [Flushers -> {"idle", "exec", "ret0", "ret1"}]
        /\ pick' \in [Flushers -> Modules \cup {NULL}]
        /\ \A g \in Flushers : pc'[g] = "exec" => pick'[g] # NULL
        /\ all' \in [Flushers -> BOOLEAN]
    BY <1>4 DEF IInv, TypeOK
  <2> QED
    BY <1>3, <1>7, <2>1, <2>2, <2>3, <2>4, <2>5, <2>6 DEF IInv, TypeOK, Heaps, Lists
<1> QED
  BY <1>7, <1>8, <1>9 DEF IInv

LEMMA RangeType ==
    ASSUME NEW n \in Node
    PROVE  Range(n) \subseteq Sectors /\ Programs(n) \subseteq Cells
BY SizeAssumption DEF Range, Programs, Node, Sectors, Cells

LEMMA PartWrittenType ==
    ASSUME NEW old \in [Sectors -> Sector], NEW n, NEW k, NEW g, NEW open
    PROVE  PartWritten(old, n, k, g, open) \in [Sectors -> Sector]
BY DEF PartWritten, Sector, Byte

LEMMA SuspendKeeps ==
    ASSUME IInv, NEW f \in Flushers, FlushSuspend(f)
    PROVE  IInv'
<1> DEFINE m == pick[f]
<1>1. m \in Modules
  BY DEF FlushSuspend, IInv, TypeOK
<1> HIDE DEF m
<1>2. PICK x \in Current(m) :
        LET n == heap[x]
            open == Open(m, n)
        IN  /\ \/ /\ n.type = "W"
                  /\ \E k \in Programs(n), g \in Byte :
                       /\ flash' = [flash EXCEPT ![m] =
                            PartWritten(Execute(flash[m], n, k, open), n, k, g, open)]
                       /\ hal' = [st |-> Suspended(n), mod |-> m, next |-> k]
               \/ /\ n.type = "E"
                  /\ \E D \in SUBSET (open \cap Range(n)) : \E g \in [D -> Byte] :
                       flash' = [flash EXCEPT ![m] =
                            [s \in Sectors |-> IF s \in D THEN [c \in Cells |-> g[s]]
                                               ELSE flash[m][s]]]
                  /\ hal' = [st |-> Suspended(n), mod |-> m, next |-> 0]
            /\ unprot' = Unprotect(m, open)
            /\ heap' = [heap EXCEPT ![x] = Locked(n)]
            /\ state' = [state EXCEPT ![m] = Suspended(n)]
            /\ cur_opera_info' = [cur_opera_info EXCEPT ![m] = x]
  BY DEF FlushSuspend, m
<1>3. /\ cur_mod' = m /\ cur_mod_id' = m
      /\ UNCHANGED <<buffs, opera_info, allowed_cb, cpDone, ret, panic>>
      /\ state[m] = "IDLE" => hal = HalNone
  BY DEF FlushSuspend, m, cpVars
<1>4. /\ pick' = [pick EXCEPT ![f] = NULL]
      /\ \E r \in {"ret0", "ret1"} : /\ pc' = [pc EXCEPT ![f] = r]
                                     /\ all' = [all EXCEPT ![f] = @ /\ r = "ret1"]
  BY DEF FlushSuspend, FlushReturn, Return
<1>5. /\ x \in opera_info[m] /\ x \in Slots /\ heap[x] \in Node /\ heap[x] # NULL
      /\ heap[x].rest = {}
      /\ cur_opera_info[m] # NULL => x = cur_opera_info[m]
      /\ \A q \in Modules : q # m => x \notin opera_info[q]
  BY <1>1, CurrentFacts
<1>6. heap \in Heaps /\ heap' \in Heaps
  BY <1>2, <1>5, LockedNode DEF IInv, TypeOK, Heaps
<1>7. \A y \in Slots : /\ heap'[y] # NULL <=> heap[y] # NULL
                       /\ heap[y] # NULL => /\ heap'[y].type = heap[y].type
                                            /\ heap'[y].buff = heap[y].buff
                                            /\ heap'[y].rest = heap[y].rest
                       /\ y # x => heap'[y] = heap[y]
  BY <1>2, <1>5, <1>6, LockedNode, NullAssumption DEF Heaps
<1>8. \A q \in Modules : opera_info[q] \subseteq Slots /\ \A y \in opera_info[q] : heap[y] # NULL
  BY ListFacts
<1>9. heap'[x].lock = TRUE
  BY <1>2, <1>5, <1>6, LockedNode DEF Heaps
<1>10. PoolAccounted'
  <2>1. PoolOf(heap, buffs, opera_info) /\ opera_info \in Lists
    BY PoolForm DEF IInv, TypeOK, Lists
  <2>2. PoolOf(heap', buffs', opera_info')
    BY <2>1, <1>3, <1>7 DEF PoolOf
  <2> QED
    BY <2>1, <2>2, <1>3, PoolFormNext
<1>11. ListChained'
  <2>1. ChainOf(heap, opera_info)
    BY ChainForm DEF IInv
  <2>2. ChainOf(heap', opera_info')
    BY <2>1, <1>3, <1>7, <1>8 DEF ChainOf
  <2> QED
    BY <2>2, ChainFormNext
<1>12. SuspendedAgrees'
  <2>1. Suspended(heap[x]) \in {"WRITTING_SUSPEND", "ERASE_SUSPEND"}
    BY DEF Suspended
  <2>2. /\ hal'.mod = m /\ hal'.st = Suspended(heap[x])
    BY <1>2
  <2>3. \A q \in Modules : state'[q] = IF q = m THEN Suspended(heap[x]) ELSE "IDLE"
    BY <1>1, <1>2, <1>3, OthersIdle DEF IInv, TypeOK
  <2>4. \A q \in Modules : cur_opera_info'[q] = IF q = m THEN x ELSE NULL
    BY <1>1, <1>2, <1>3, OthersIdle DEF IInv, TypeOK
  <2>5. /\ x \in opera_info'[m] /\ heap'[x].rest = {}
        /\ Suspended(heap'[x]) = Suspended(heap[x])
    <3>1. heap'[x].rest = {} /\ heap'[x].type = heap[x].type
      BY <1>5, <1>7
    <3>2. x \in opera_info'[m]
      BY <1>3, <1>5
    <3> QED
      BY <3>1, <3>2 DEF Suspended
  <2>6. \A q \in Modules : \A y \in opera_info[q] : heap'[y].lock <=> y = cur_opera_info'[q]
    <3> SUFFICES ASSUME NEW q \in Modules, NEW y \in opera_info[q]
                 PROVE  heap'[y].lock <=> y = cur_opera_info'[q]
      OBVIOUS
    <3>1. y \in Slots /\ y # NULL
      BY ListFacts
    <3>2. heap[y].lock <=> y = cur_opera_info[q]
      BY DEF IInv, SuspendedAgrees
    <3>3. q # m => cur_opera_info[q] = NULL
      BY <1>1, <1>3, OthersIdle
    <3>4. CASE y = x
      BY <1>5, <1>9, <2>4, <3>4
    <3>5. CASE y # x
      <4>1. y # cur_opera_info[q] /\ y # cur_opera_info'[q]
        BY <1>5, <2>4, <3>1, <3>3, <3>5
      <4>2. heap'[y] = heap[y]
        BY <1>7, <3>1, <3>5
      <4> QED
        BY <3>2, <4>1, <4>2
    <3> QED
      BY <3>4, <3>5
  <2>7. m # NULL
    BY <1>1, NullAssumption, SizeAssumption DEF Modules
  <2> QED
    BY <1>3, <2>1, <2>2, <2>3, <2>4, <2>5, <2>6, <2>7 DEF SuspendedAgrees, Tails
<1>13. TypeOK'
  <2>1. flash \in [Modules -> [Sectors -> Sector]]
    BY DEF IInv, TypeOK
  <2>2. flash' \in [Modules -> [Sectors -> Sector]]
    <3>1. ASSUME NEW k \in Programs(heap[x]), NEW g \in Byte,
                 flash' = [flash EXCEPT ![m] = PartWritten(Execute(flash[m], heap[x], k,
                             Open(m, heap[x])), heap[x], k, g, Open(m, heap[x]))]
          PROVE  flash' \in [Modules -> [Sectors -> Sector]]
      BY <1>1, <2>1, <3>1, ExecuteType, PartWrittenType
    <3>2. ASSUME NEW D \in SUBSET (Open(m, heap[x]) \cap Range(heap[x])), NEW g \in [D -> Byte],
                 flash' = [flash EXCEPT ![m] = [s \in Sectors |->
                             IF s \in D THEN [c \in Cells |-> g[s]] ELSE flash[m][s]]]
          PROVE  flash' \in [Modules -> [Sectors -> Sector]]
      <4>1. [s \in Sectors |-> IF s \in D THEN [c \in Cells |-> g[s]] ELSE flash[m][s]]
               \in [Sectors -> Sector]
        BY <1>1, <2>1 DEF Sector
      <4> QED
        BY <2>1, <3>2, <4>1
    <3> QED
      BY <1>2, <3>1, <3>2
  <2>3. hal' \in [st : {"NONE", "WRITTING_SUSPEND", "ERASE_SUSPEND"},
                  mod : Modules \cup {NULL}, next : Cells]
    BY <1>1, <1>2, <1>5, RangeType, SizeAssumption DEF Suspended, Cells
  <2>4. unprot' \in [Modules -> SUBSET Sectors]
    BY <1>1, <1>2, <1>5, RangeType DEF Unprotect, Open, IInv, TypeOK
  <2>5. /\ cur_opera_info' \in [Modules -> Slots \cup {NULL}]
        /\ state' \in [Modules -> {"IDLE", "WRITTING_SUSPEND", "ERASE_SUSPEND"}]
    BY <1>2, <1>5 DEF IInv, TypeOK, Suspended
  <2>6. cur_mod' \in Modules \cup {NULL} /\ cur_mod_id' \in 0 .. MODULES
    BY <1>1, <1>3, SizeAssumption DEF Modules
  <2>7. /\ pc' \in [Flushers -> {"idle", "exec", "ret0", "ret1"}]
        /\ pick' \in [Flushers -> Modules \cup {NULL}]
        /\ \A g \in Flushers : pc'[g] = "exec" => pick'[g] # NULL
        /\ all' \in [Flushers -> BOOLEAN]
    BY <1>4 DEF IInv, TypeOK
  <2> QED
    BY <1>3, <1>6, <2>2, <2>3, <2>4, <2>5, <2>6, <2>7 DEF IInv, TypeOK, Heaps
<1> QED
  BY <1>10, <1>11, <1>12, <1>13 DEF IInv

\* An operation suspended in the chip is that of its module.
LEMMA HalFacts ==
    ASSUME IInv
    PROVE  /\ \A q \in Modules : state[q] # "IDLE" <=> hal.mod = q
           /\ \A q \in Modules : q # NULL
           /\ hal = HalNone => \A q \in Modules : state[q] = "IDLE"
<1>1. \A q \in Modules : q # NULL
  BY NullAssumption, SizeAssumption DEF Modules
<1> QED
  BY <1>1 DEF IInv, SuspendedAgrees, HalNone

LEMMA SyncKeeps ==
    ASSUME IInv, NEW m \in Modules, NEW n, SyncOp(m, n)
    PROVE  IInv'
<1> DEFINE D == Drained(m)
           after == AfterDrain(m)
           quiet == Other(m) \cup (IF Drains(m) THEN {m} ELSE {})
           stuck == Drains(m) /\ opera_info[m] # {} /\ HalBusy(m)
<1>1. /\ UNCHANGED <<cur_mod, cur_mod_id, pc, pick, all, cpDone>>
      /\ allowed_cb' \in BOOLEAN
  BY DEF SyncOp, modVars, callVars, ClearCallback
<1>2. CASE stuck /\ panic' = TRUE /\ UNCHANGED <<queueVars, chipVars, ret>>
  <2>1. UNCHANGED <<heap, buffs, opera_info, cur_opera_info, state, flash, hal, unprot, ret>>
    BY <1>2 DEF queueVars, chipVars
  <2>2. TypeOK'
    BY <1>1, <1>2, <2>1 DEF IInv, TypeOK
  <2>3. PoolAccounted' /\ ListChained' /\ SuspendedAgrees'
    BY <2>1 DEF IInv, PoolAccounted, ListChained, SuspendedAgrees, UsedSlots, Newer, Tails
  <2> QED
    BY <2>2, <2>3 DEF IInv
<1>3. CASE /\ ~stuck
           /\ Free(Drained(m))
           /\ opera_info' = [o \in Modules |-> opera_info[o] \ Drained(m)]
           /\ state' = [o \in Modules |-> IF o \in quiet THEN "IDLE" ELSE state[o]]
           /\ cur_opera_info' = [o \in Modules |->
                                   IF o \in quiet THEN NULL ELSE cur_opera_info[o]]
           /\ flash' = IF HalBusy(m) THEN after
                       ELSE [after EXCEPT ![m] = Execute(@, n, CELLS, Range(n))]
           /\ hal' = IF HalBusy(m) THEN hal ELSE HalNone
           /\ ret' = IF HalBusy(m) THEN "ERR" ELSE "OK"
           /\ unprot' = Unprotect(m, {})
           /\ UNCHANGED panic
  <2>1. D \in SUBSET UsedSlots
    BY ListFacts DEF Drained, Other, UsedSlots
  <2>2. /\ heap' \in Heaps /\ buffs' \subseteq Buffers /\ opera_info' \in Lists
        /\ PoolAccounted' /\ ListChained'
    BY <1>3, <2>1, FreeKeepsLists
  <2>3. \A q \in quiet :
           cur_opera_info[q] # NULL => cur_opera_info[q] \in D
    BY ListFacts DEF Drained
  <2>4. \A q \in Modules : q \notin quiet => cur_opera_info[q] \notin D
    <3> SUFFICES ASSUME NEW q \in Modules, q \notin quiet, cur_opera_info[q] \in D
                 PROVE  FALSE
      OBVIOUS
    <3>1. cur_opera_info[q] \in opera_info[q]
      BY <2>1, ListFacts DEF UsedSlots
    <3>2. PICK o \in Modules : o \in quiet /\ cur_opera_info[q] \in opera_info[o]
      BY ListFacts DEF Drained, Other
    <3> QED
      BY <3>1, <3>2 DEF IInv, PoolAccounted
  <2>5. \A q \in Modules :
           \/ /\ state'[q] = state[q] /\ cur_opera_info'[q] = cur_opera_info[q]
              /\ cur_opera_info[q] \notin D
           \/ /\ state'[q] = "IDLE" /\ cur_opera_info'[q] = NULL
              /\ cur_opera_info[q] # NULL => cur_opera_info[q] \in D
    BY <1>3, <2>3, <2>4
  <2>6. \A q \in Modules : IF state'[q] = "IDLE" THEN hal'.mod # q ELSE hal' = hal
    <3>1. CASE HalBusy(m)
      <4>1. hal.mod \notin quiet /\ hal' = hal
        BY <1>3, <3>1 DEF HalBusy
      <4> QED
        BY <1>3, <4>1, HalFacts
    <3>2. CASE ~HalBusy(m)
      <4>1. hal' = HalNone
        BY <1>3, <3>2
      <4>2. \A q \in Modules : q \notin quiet => state[q] = "IDLE"
        BY <3>2, HalFacts DEF HalBusy
      <4> QED
        BY <1>3, <4>1, <4>2, HalFacts DEF HalNone
    <3> QED
      BY <3>1, <3>2
  <2>7. hal'.st = "NONE" <=> hal'.mod = NULL
    BY <1>3 DEF HalNone, IInv, SuspendedAgrees
  <2>8. SuspendedAgrees'
    <3>1. Free(D) /\ opera_info' = [o \in Modules |-> opera_info[o] \ D]
      BY <1>3
    <3> HIDE DEF D
    <3> QED
      BY <2>1, <2>5, <2>6, <2>7, <3>1, FreeAgrees
  <2>9. flash' \in [Modules -> [Sectors -> Sector]]
    <3>1. after \in [Modules -> [Sectors -> Sector]]
      BY ContentsType DEF AfterDrain, IInv
    <3> HIDE DEF after
    <3>2. Execute(after[m], n, CELLS, Range(n)) \in [Sectors -> Sector]
      BY <3>1, ExecuteType
    <3> QED
      BY <1>3, <3>1, <3>2
  <2>10. hal' \in [st : {"NONE", "WRITTING_SUSPEND", "ERASE_SUSPEND"},
                   mod : Modules \cup {NULL}, next : Cells]
    BY <1>3, SizeAssumption DEF HalNone, Cells, IInv, TypeOK
  <2>11. /\ unprot' \in [Modules -> SUBSET Sectors] /\ ret' \in {"OK", "ERR"}
         /\ panic' = panic
    BY <1>3 DEF Unprotect
  <2>12. /\ cur_opera_info' \in [Modules -> Slots \cup {NULL}]
         /\ state' \in [Modules -> {"IDLE", "WRITTING_SUSPEND", "ERASE_SUSPEND"}]
    BY <1>3 DEF IInv, TypeOK
  <2>13. TypeOK'
    BY <1>1, <2>2, <2>9, <2>10, <2>11, <2>12 DEF IInv, TypeOK, Heaps, Lists
  <2> QED
    BY <2>2, <2>8, <2>13 DEF IInv
<1> QED
  BY <1>2, <1>3 DEF SyncOp

\* The actions that leave the queue and the chip alone.
LEMMA QueueUnchanged ==
    ASSUME IInv, TypeOK',
           UNCHANGED <<heap, buffs, opera_info, cur_opera_info, state, hal>>
    PROVE  IInv'
BY DEF IInv, PoolAccounted, ListChained, SuspendedAgrees, UsedSlots, Newer, Tails

LEMMA ControlKeeps ==
    ASSUME IInv, NEW f \in Flushers,
           \/ FlushAll(f) \/ FlushPick(f) \/ FlushSkip(f) \/ FlushEmpty(f) \/ FlushAssert(f)
           \/ FlushDisable \/ CpInitDone \/ FlushEnable
    PROVE  IInv'
<1> USE DEF queueVars, chipVars, cpVars, modVars, callVars
<1>1. CASE FlushAll(f)
  <2>1. TypeOK'
    BY <1>1 DEF FlushAll, IInv, TypeOK
  <2> QED
    BY <1>1, <2>1, QueueUnchanged DEF FlushAll
<1>2. CASE FlushPick(f)
  <2>1. PICK m \in GetCurMod : pick' = [pick EXCEPT ![f] = m]
    BY <1>2 DEF FlushPick
  <2>2. m \in Modules /\ m # NULL
    BY <2>1, NullAssumption, SizeAssumption DEF GetCurMod, Pending, IInv, TypeOK, Modules
  <2>3. TypeOK'
    BY <1>2, <2>1, <2>2 DEF FlushPick, ClearCallback, IInv, TypeOK
  <2> QED
    BY <1>2, <2>3, QueueUnchanged DEF FlushPick
<1>3. CASE FlushSkip(f)
  <2>1. TypeOK'
    BY <1>3 DEF FlushSkip, ClearCallback, Return, IInv, TypeOK
  <2> QED
    BY <1>3, <2>1, QueueUnchanged DEF FlushSkip
<1>4. CASE FlushEmpty(f)
  <2>1. pick[f] \in Modules
    BY <1>4 DEF FlushEmpty, IInv, TypeOK
  <2>2. cur_mod_id' \in 0 .. MODULES /\ cur_mod' = NULL
    BY <1>4, <2>1, SizeAssumption DEF FlushEmpty, Modules
  <2>3. TypeOK'
    BY <1>4, <2>2 DEF FlushEmpty, FlushReturn, Return, IInv, TypeOK
  <2> QED
    BY <1>4, <2>3, QueueUnchanged DEF FlushEmpty
<1>5. CASE FlushAssert(f)
  <2>1. TypeOK'
    BY <1>5 DEF FlushAssert, IInv, TypeOK
  <2> QED
    BY <1>5, <2>1, QueueUnchanged DEF FlushAssert
<1>6. CASE FlushDisable \/ CpInitDone \/ FlushEnable
  <2>1. TypeOK'
    BY <1>6 DEF FlushDisable, CpInitDone, FlushEnable, IInv, TypeOK
  <2> QED
    BY <1>6, <2>1, QueueUnchanged DEF FlushDisable, CpInitDone, FlushEnable
<1> QED
  BY <1>1, <1>2, <1>3, <1>4, <1>5, <1>6

LEMMA InitInv == Init => IInv
<1> SUFFICES ASSUME Init PROVE IInv
  OBVIOUS
<1>1. \A m \in Modules : m # NULL
  BY NullAssumption, SizeAssumption DEF Modules
<1>2. TypeOK
  <2>1. flash \in [Modules -> [Sectors -> Sector]]
    BY BlankType DEF Init
  <2>2. hal \in [st : {"NONE", "WRITTING_SUSPEND", "ERASE_SUSPEND"},
                 mod : Modules \cup {NULL}, next : Cells]
    BY SizeAssumption DEF Init, HalNone, Cells
  <2>3. /\ heap \in [Slots -> Node \cup {NULL}]
        /\ cur_opera_info \in [Modules -> Slots \cup {NULL}]
        /\ cur_mod \in Modules \cup {NULL}
        /\ pick \in [Flushers -> Modules \cup {NULL}]
    BY DEF Init
  <2>4. /\ unprot \in [Modules -> SUBSET Sectors]
        /\ buffs \subseteq Buffers
        /\ opera_info \in [Modules -> SUBSET Slots]
    BY DEF Init
  <2>5. cur_mod_id \in 0 .. MODULES
    BY SizeAssumption DEF Init
  <2>6. /\ state \in [Modules -> {"IDLE", "WRITTING_SUSPEND", "ERASE_SUSPEND"}]
        /\ allowed_cb \in BOOLEAN /\ cpDone \in BOOLEAN
        /\ pc \in [Flushers -> {"idle", "exec", "ret0", "ret1"}]
        /\ \A f \in Flushers : pc[f] # "exec"
        /\ all \in [Flushers -> BOOLEAN]
        /\ ret \in {"OK", "ERR"}
        /\ panic \in BOOLEAN
    BY DEF Init
  <2> QED
    BY <2>1, <2>2, <2>3, <2>4, <2>5, <2>6 DEF TypeOK
<1>3. PoolAccounted
  BY DEF Init, PoolAccounted, UsedSlots
<1>4. ListChained /\ SuspendedAgrees
  BY <1>1 DEF Init, HalNone, ListChained, SuspendedAgrees
<1> QED
  BY <1>2, <1>3, <1>4 DEF IInv

LEMMA ClientKeeps == IInv /\ Client => IInv'
<1> SUFFICES ASSUME IInv, Client PROVE IInv'
  OBVIOUS
<1>1. ASSUME NEW m \in Modules, NEW s \in Sectors, NEW o \in Cells, NEW l \in 1 .. CELLS,
             NEW v \in Byte, WriteAsync(m, s, o, l, v)
      PROVE  IInv'
  BY <1>1, MergeKeeps, AddKeeps DEF WriteAsync, NorWrite
<1>2. ASSUME NEW m \in Modules, NEW s, NEW o, NEW l, NEW v, WriteSync(m, s, o, l, v)
      PROVE  IInv'
  BY <1>2, SyncKeeps DEF WriteSync
<1>3. ASSUME NEW m \in Modules, NEW l \in EraseLens, NEW a \in Sectors, a + l <= SECTORS,
             EraseAsync(m, a, l) \/ EraseSync(m, a, l)
      PROVE  IInv'
  BY <1>3, EraseKeeps, SyncKeeps DEF EraseSync
<1> QED
  BY <1>1, <1>2, <1>3 DEF Client, ClientWrite, ClientErase

LEMMA NextInv == IInv /\ [Next]_vars => IInv'
<1> SUFFICES ASSUME IInv, [Next]_vars PROVE IInv'
  OBVIOUS
<1>1. CASE Client
  BY <1>1, ClientKeeps
<1>2. CASE Flush
  BY <1>2, ControlKeeps, CompleteKeeps, SuspendKeeps DEF Flush, FlushExec
<1>3. CASE Cp
  <2>1. CASE Flushers = {}
    <3>1. TypeOK'
      BY <1>3, <2>1 DEF Cp, FlushDisable, CpInitDone, FlushEnable, IInv, TypeOK,
                        queueVars, chipVars, modVars, callVars
    <3> QED
      BY <1>3, <3>1, QueueUnchanged DEF Cp, FlushDisable, CpInitDone, FlushEnable,
                                        queueVars, chipVars
  <2>2. CASE Flushers # {}
    BY <1>3, <2>2, ControlKeeps DEF Cp
  <2> QED
    BY <2>1, <2>2
<1>4. CASE UNCHANGED vars
  BY <1>4 DEF vars, queueVars, chipVars, cpVars, modVars, callVars, IInv, TypeOK,
              PoolAccounted, ListChained, SuspendedAgrees, UsedSlots, Newer, Tails
<1> QED
  BY <1>1, <1>2, <1>3, <1>4 DEF Next

-----------------------------------------------------------------------------
(* Theorems.                                                               *)

THEOREM Invariance == Spec => []IInv
BY InitInv, NextInv, PTL DEF Spec

\* The type invariant: in particular no merge of writes reaches beyond its
\* sector and no node or buffer index leaves its pool.
THEOREM TypeCorrect == Spec => []TypeOK
BY Invariance, PTL DEF IInv

\* The pools of nodes and sector buffers never leak and never hand out the same
\* node or buffer twice, with any number of threads in the API, with or without
\* its mutex, suspend and the coprocessor's callback.
THEOREM PoolSafe == Spec => []PoolAccounted
BY Invariance, PTL DEF IInv

\* The next pointers of every module always form one list.
THEOREM ListSafe == Spec => []ListChained
BY Invariance, PTL DEF IInv

\* The chip, the module states and the lists agree on what is suspended.
THEOREM SuspendSafe == Spec => []SuspendedAgrees
BY Invariance, PTL DEF IInv

-----------------------------------------------------------------------------
(* Nodes the chip is executing.                                            *)

Frozen == \A x \in Slots : heap[x] # NULL /\ heap'[x] # heap[x] /\ heap'[x] # NULL
                              => ~heap[x].lock

\* A locked node is the last of its list: no node can be cut from behind it.
LEMMA LockedIsTail ==
    ASSUME IInv, NEW x \in Slots, heap[x] # NULL, heap[x].lock
    PROVE  heap[x] \in Node /\ heap[x].rest = {}
<1>1. heap[x] \in Node
  BY DEF IInv, TypeOK
<1>2. PICK m \in Modules : x \in opera_info[m]
  BY DEF IInv, PoolAccounted, UsedSlots
<1>3. x = cur_opera_info[m]
  BY <1>2 DEF IInv, SuspendedAgrees
<1>4. x # NULL
  BY NullAssumption DEF Slots
<1>5. x \in Tails(m)
  BY <1>2, <1>3, <1>4 DEF IInv, SuspendedAgrees
<1> QED
  BY <1>1, <1>5 DEF Tails

LEMMA FreedFrozen ==
    ASSUME IInv, NEW D, NEW x \in Slots, heap[x] # NULL, heap[x].lock, x \notin D
    PROVE  Freed(D)[x] = heap[x]
<1>1. heap[x] \in Node /\ heap[x].rest = {}
  BY LockedIsTail
<1>2. Freed(D)[x] = Cut(heap[x], D)
  BY DEF Freed
<1>3. Cut(heap[x], D) = [heap[x] EXCEPT !.rest = {}]
  BY <1>1 DEF Cut
<1>4. [heap[x] EXCEPT !.rest = {}] = heap[x]
  BY <1>1 DEF Node
<1> QED
  BY <1>2, <1>3, <1>4

LEMMA FreeFrozen ==
    ASSUME IInv, NEW D, heap' = Freed(D)
    PROVE  Frozen
<1> SUFFICES ASSUME NEW x \in Slots, heap[x] # NULL, heap[x].lock, heap'[x] # NULL
             PROVE  heap'[x] = heap[x]
  BY DEF Frozen
<1>1. x \notin D
  BY DEF Freed
<1> QED
  BY <1>1, FreedFrozen

LEMMA WriteFrozen ==
    ASSUME IInv, NEW m \in Modules, NEW s, NEW o, NEW l, NEW v, WriteAsync(m, s, o, l, v)
    PROVE  Frozen
<1>1. heap \in [Slots -> Node \cup {NULL}]
  BY DEF IInv, TypeOK
<1>2. CASE MergeWrite(m, s, o, l, v)
  <2>1. PICK x \in WriteHit(m, s) : /\ heap[x].type = "W"
                                    /\ heap' = [heap EXCEPT ![x] = Merged(@, o, l, v)]
    BY <1>2 DEF MergeWrite
  <2>2. ~heap[x].lock
    BY <2>1 DEF WriteHit, Newest
  <2> QED
    BY <1>1, <2>1, <2>2 DEF Frozen
<1>3. CASE AddWrite(m, s, o, l, v)
  <2>1. PICK x \in Slots \ UsedSlots : \E n : heap' = [heap EXCEPT ![x] = n]
    BY <1>3 DEF AddWrite, FirstFree
  <2> QED
    BY <1>1, <2>1 DEF Frozen, UsedSlots
<1> QED
  BY <1>2, <1>3 DEF WriteAsync

LEMMA EraseFrozen ==
    ASSUME IInv, NEW m \in Modules, NEW a, NEW l, EraseAsync(m, a, l)
    PROVE  Frozen
<1> DEFINE gone == Superseded(m, a, l)
<1>1. \A x \in gone : ~heap[x].lock
  BY DEF Superseded
<1>2. \/ heap' = Freed(gone)
      \/ \E x \in Slots \ (UsedSlots \ gone) : \E n : heap' = [Freed(gone) EXCEPT ![x] = n]
  BY DEF EraseAsync, Free, FirstFree
<1> HIDE DEF gone
<1>3. CASE heap' = Freed(gone)
  BY <1>3, FreeFrozen
<1>4. ASSUME NEW y \in Slots \ (UsedSlots \ gone), NEW n,
             heap' = [Freed(gone) EXCEPT ![y] = n]
      PROVE  Frozen
  <2> SUFFICES ASSUME NEW x \in Slots, heap[x] # NULL, heap[x].lock
               PROVE  heap'[x] = heap[x]
    BY DEF Frozen
  <2>1. x \notin gone /\ x \in UsedSlots
    BY <1>1 DEF UsedSlots
  <2>2. heap'[x] = Freed(gone)[x]
    BY <1>4, <2>1 DEF Freed
  <2> QED
    BY <2>1, <2>2, FreedFrozen
<1> QED
  BY <1>2, <1>3, <1>4

LEMMA SuspendFrozen ==
    ASSUME IInv, NEW f \in Flushers, FlushSuspend(f)
    PROVE  Frozen
<1>1. pick[f] \in Modules
  BY DEF FlushSuspend, IInv, TypeOK
<1>2. PICK x \in Current(pick[f]) : heap' = [heap EXCEPT ![x] = Locked(heap[x])]
  BY DEF FlushSuspend
<1>3. x \in Slots /\ heap[x] \in Node
  BY <1>1, <1>2, CurrentFacts
<1>4. ASSUME heap[x].lock PROVE Locked(heap[x]) = heap[x]
  <2>1. heap[x].lock = TRUE
    BY <1>3, <1>4 DEF Node
  <2> QED
    BY <1>3, <2>1 DEF Locked, Node
<1>5. heap \in [Slots -> Node \cup {NULL}]
  BY DEF IInv, TypeOK
<1> QED
  BY <1>2, <1>3, <1>4, <1>5 DEF Frozen

\* Neither a merge nor an erase, of any client, touches the node the chip is
\* programming or erasing, nor the list behind it.
THEOREM LockedNodeFrozenTheorem == Spec => LockedNodeFrozen
<1>1. ASSUME UNCHANGED heap PROVE Frozen
  BY <1>1 DEF Frozen
<1>2. ASSUME IInv, NEW m \in Modules, NEW n, SyncOp(m, n) PROVE Frozen
  <2>1. UNCHANGED heap \/ heap' = Freed(Drained(m))
    BY <1>2 DEF SyncOp, queueVars, Free
  <2> QED
    BY <1>1, <1>2, <2>1, FreeFrozen
<1>3. ASSUME IInv, Client PROVE Frozen
  BY <1>2, <1>3, WriteFrozen, EraseFrozen DEF Client, ClientWrite, ClientErase, WriteSync, EraseSync
<1>4. ASSUME IInv, NEW f \in Flushers, FlushComplete(f) PROVE Frozen
  <2>1. \E x : heap' = Freed({x})
    BY <1>4 DEF FlushComplete, OperaDel, Free
  <2> QED
    BY <1>4, <2>1, FreeFrozen
<1>5. ASSUME NEW f \in Flushers,
             FlushAll(f) \/ FlushPick(f) \/ FlushSkip(f) \/ FlushEmpty(f) \/ FlushAssert(f)
      PROVE  Frozen
  BY <1>1, <1>5 DEF FlushAll, FlushPick, FlushSkip, FlushEmpty, FlushAssert, queueVars
<1>6. ASSUME IInv, Flush PROVE Frozen
  BY <1>4, <1>5, <1>6, SuspendFrozen DEF Flush, FlushExec
<1>7. ASSUME Cp \/ UNCHANGED vars PROVE Frozen
  BY <1>1, <1>7 DEF Cp, FlushDisable, CpInitDone, FlushEnable, vars, queueVars
<1>8. IInv /\ [Next]_vars => [Frozen]_vars
  BY <1>3, <1>6, <1>7 DEF Next
<1>9. Spec => [][Frozen]_vars
  BY <1>8, Invariance, PTL DEF Spec
<1>10. LockedNodeFrozen <=> [][Frozen]_vars
  BY DEF LockedNodeFrozen, Frozen
<1> QED
  BY <1>9, <1>10
=============================================================================
