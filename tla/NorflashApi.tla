----------------------------- MODULE NorflashApi -----------------------------
(***************************************************************************)
(* services/norflash_api/norflash_api.cpp: the queue of flash operations   *)
(* that every storage client of the firmware (user data, log dump, OTA,    *)
(* factory data) shares, on one flash device.                              *)
(*                                                                         *)
(* A client ("module") queues writes and erases; norflash_api_flush, called*)
(* by the idle task and by clients that wait, executes them oldest first.  *)
(* The chip may suspend an operation to let the CPU serve an interrupt; a  *)
(* later flush resumes it.  Synchronous calls drain the queue first.       *)
(*                                                                         *)
(* A module's singly linked list `opera_info` is modelled by the set of    *)
(* its nodes; the field `rest` of a node is the set of nodes its `next`    *)
(* chain reaches, which are the older ones.  A program page is a "cell";   *)
(* its content is a set of bits, 1 when in the set: erasing sets every     *)
(* bit and programming can only clear bits.                                *)
(***************************************************************************)
EXTENDS Integers, FiniteSets

CONSTANTS
    MODULES,      \* number of registered modules (NORFLASH_API_MODULE_ID_T)
    SECTORS,      \* sectors of a module
    CELLS,        \* program pages of a sector
    Bits,         \* the bits of a page's content
    OPRA_NUM,     \* nodes in the pool, NORFLASH_API_SYS_OPRA_NUM
    BUFFER_NUM,   \* sector buffers in the pool, NORFLASH_API_SYS_BUFFER_NUM
    EraseLens,    \* lengths clients erase, in sectors: {1} or {1, block}
    Flushers,     \* the callers of norflash_api_flush: threads, the idle task
    IDLE,         \* the idle task, which flushes in its sleep hook
    FLASH_SUSPEND,\* built with FLASH_SUSPEND: an operation may be suspended
    MULTI_FLASH,  \* built with USE_MULTI_FLASH: the API takes a mutex
    CP_USER,      \* some client calls norflash_api_flush_disable
    NULL          \* the C null pointer

ASSUME SizeAssumption ==
    /\ MODULES \in Nat \ {0} /\ SECTORS \in Nat \ {0} /\ CELLS \in Nat \ {0}
    /\ OPRA_NUM \in Nat /\ BUFFER_NUM \in Nat
    /\ EraseLens \subseteq 1 .. SECTORS
ASSUME BuildAssumption ==
    FLASH_SUSPEND \in BOOLEAN /\ MULTI_FLASH \in BOOLEAN /\ CP_USER \in BOOLEAN

Modules == 0 .. MODULES - 1
Sectors == 0 .. SECTORS - 1
Cells   == 0 .. CELLS - 1
Slots   == 1 .. OPRA_NUM
Buffers == 1 .. BUFFER_NUM
Byte    == SUBSET Bits
Sector  == [Cells -> Byte]
Blank   == [c \in Cells |-> Bits]

\* OPRA_INFO; what it erases or writes lies in the module and in the sector,
\* and a write has a buffer.
Node == {n \in [type : {"W", "E"}, addr : Sectors, len : 1 .. SECTORS,
                w_offs : Cells, w_len : 0 .. CELLS,
                buff : Buffers \cup {NULL}, data : Sector,
                lock : BOOLEAN, rest : SUBSET Slots] :
           /\ n.addr + n.len <= SECTORS /\ n.w_offs + n.w_len <= CELLS
           /\ n.type = "E" <=> n.buff = NULL}

ASSUME NullAssumption == NULL \notin Nat /\ NULL \notin Node

VARIABLES
    flash,          \* what the chip holds
    hal,            \* hal_norflash.c: suspend_state, whose, op_next_addr
    unprot,         \* per module: its sectors outside the chip's protected range
    heap,           \* the pool of OPRA_INFO nodes
    buffs,          \* sector buffers in use
    opera_info,     \* per module: the nodes of its list
    cur_opera_info, \* per module: the node being executed
    state,          \* per module: NORFLASH_API_STATE
    cur_mod,        \* the module whose list is being flushed
    cur_mod_id,     \* the last module flushed (MODULES before the first)
    allowed_cb,     \* a flush-allowed callback is installed
    cpDone,         \* what that callback, cp_accel_init_done, returns
    pc,             \* per flusher: where it is in norflash_api_flush
    pick,           \* per flusher: the module chosen before the int lock
    all,            \* per flusher: it is inside norflash_api_flush_all
    ret,            \* result of the last synchronous write or erase
    panic           \* an ASSERT has fired

queueVars == <<heap, buffs, opera_info, cur_opera_info, state>>
chipVars  == <<flash, hal, unprot>>
cpVars    == <<allowed_cb, cpDone>>
modVars   == <<cur_mod, cur_mod_id>>
callVars  == <<pc, pick, all>>
vars == <<queueVars, chipVars, cpVars, modVars, callVars, ret, panic>>

HalNone == [st |-> "NONE", mod |-> NULL, next |-> 0]

Init ==
    /\ flash = [m \in Modules |-> [s \in Sectors |-> Blank]]
    /\ hal = HalNone
    /\ unprot = [m \in Modules |-> {}]
    /\ heap = [x \in Slots |-> NULL]
    /\ buffs = {}
    /\ opera_info = [m \in Modules |-> {}]
    /\ cur_opera_info = [m \in Modules |-> NULL]
    /\ state = [m \in Modules |-> "IDLE"]
    /\ cur_mod = NULL
    /\ cur_mod_id = MODULES
    /\ allowed_cb = FALSE /\ cpDone = TRUE
    /\ pc = [f \in Flushers |-> "idle"]
    /\ pick = [f \in Flushers |-> NULL]
    /\ all = [f \in Flushers |-> FALSE]
    /\ ret = "OK"
    /\ panic = FALSE

-----------------------------------------------------------------------------
(* Nodes and lists.                                                        *)

Range(n)   == n.addr .. n.addr + n.len - 1          \* sectors of a node
Programs(n) == n.w_offs .. n.w_offs + n.w_len - 1   \* cells a write programs

Newer(x, y) == y \in heap[x].rest

\* The members of set S of nodes that no other member is newer than.
Newest(S) == {x \in S : \A y \in S : ~Newer(y, x)}

\* _get_tail: the node whose next pointer is null.
Tails(m) == {x \in opera_info[m] : heap[x].rest = {}}

\* The first free slot of a pool, as _norflash_api_malloc scans for it.
FirstFree(pool, used) == {x \in pool \ used : \A y \in pool \ used : x <= y}

UsedSlots == {x \in Slots : heap[x] # NULL}

\* What module m's sector s reads once the nodes N of its list are executed:
\* the newest erase that covers s clears what is older than it.
Contents(m, N, s) ==
    LET erases == Newest({x \in N : heap[x].type = "E" /\ s \in Range(heap[x])})
        writes == {x \in N : /\ heap[x].type = "W" /\ heap[x].addr = s
                             /\ \A e \in erases : Newer(x, e)}
    IN  [c \in Cells |->
           {b \in IF erases # {} THEN Bits ELSE flash[m][s][c] :
              \A x \in writes : c \in Programs(heap[x]) => b \in heap[x].data[c]}]

Logical(m) == [s \in Sectors |-> Contents(m, opera_info[m], s)]

\* norflash_api_read: the newest node that starts at the sector answers.
OperaRead(m, s) ==
    LET first == Newest({x \in opera_info[m] : heap[x].addr = s})
    IN  IF first = {} THEN flash[m][s]
        ELSE LET n == heap[CHOOSE x \in first : TRUE]
             IN  IF n.type = "W" THEN n.data ELSE Blank

Pending == {m \in Modules : opera_info[m] # {}}

FlushIsAllowedFlag == ~allowed_cb  \* mutant: the callback is not asked
FlushIsAllowed == ~allowed_cb \/ cpDone
ClearCallback == allowed_cb' = (allowed_cb /\ ~cpDone) /\ UNCHANGED cpDone

\* hal_sleep_enter_sleep calls the sleep hook with interrupts locked.
IdleRuns == IDLE \in Flushers /\ pc[IDLE] = "exec"

\* Threads enter the API as the scheduler likes, one at a time only under the
\* mutex, which the multi-flash build alone has.
EnteredNoMutex == IdleRuns  \* mutant
Entered == IF MULTI_FLASH THEN \E f \in Flushers : pc[f] = "exec" ELSE IdleRuns
MayEnter == ~panic /\ ~Entered

\* Node n when its next chain leads no more to the nodes D.
Cut(n, D) == [n EXCEPT !.rest = @ \ D]

\* _norflash_api_free of the nodes D and of their buffers; the links that led
\* to them go with the list they were taken from.
Freed(D) == [x \in Slots |-> IF x \in D \/ heap[x] = NULL THEN NULL
                             ELSE Cut(heap[x], D)]
FreeNodesOnly(D) == heap' = Freed(D) /\ UNCHANGED buffs  \* mutant: buffers leak
Free(D) == heap' = Freed(D) /\ buffs' = buffs \ {heap[x].buff : x \in D}

\* _opera_del: frees node x of module m and cuts the list in front of it.
OperaDel(m, x) ==
    /\ Free({x})
    /\ opera_info' = [opera_info EXCEPT ![m] = @ \ ({x} \cup heap[x].rest)]

-----------------------------------------------------------------------------
(* Queueing: norflash_api_write and norflash_api_erase with async = true.   *)

\* The first node _w_opera_add stops at: an unlocked write or an erase that
\* starts at the sector.
WriteHitNoLock(m, s) == Newest({x \in opera_info[m] : heap[x].addr = s})  \* mutant
WriteHit(m, s) == Newest({x \in opera_info[m] :
    heap[x].addr = s /\ (heap[x].type = "E" \/ ~heap[x].lock)})

Overwrite(old, o, l, v) == [c \in Cells |-> IF c \in o .. o + l - 1 THEN v ELSE old[c]]

\* The smallest range that holds node n's and the new one.
HullSum(n, o, l) == [offs |-> n.w_offs, len |-> n.w_len + l]  \* mutant
Hull(n, o, l) ==
    LET lo == IF n.w_offs <= o THEN n.w_offs ELSE o
        hi == IF n.w_offs + n.w_len >= o + l THEN n.w_offs + n.w_len ELSE o + l
    IN  [offs |-> lo, len |-> hi - lo]

Merged(n, o, l, v) ==
    LET h == Hull(n, o, l)
    IN  [n EXCEPT !.w_offs = h.offs, !.w_len = h.len, !.data = Overwrite(@, o, l, v)]

\* It is a write: the data goes into its buffer, its range becomes the hull.
MergeWrite(m, s, o, l, v) ==
    /\ \E x \in WriteHit(m, s) :
         /\ heap[x].type = "W"
         /\ heap' = [heap EXCEPT ![x] = Merged(@, o, l, v)]
    /\ UNCHANGED <<buffs, opera_info>>

\* A new node goes in front of the list.
WriteNode(s, o, l, b, data, list) ==
    [type |-> "W", addr |-> s, len |-> 1, w_offs |-> o, w_len |-> l,
     buff |-> b, data |-> data, lock |-> FALSE, rest |-> list]
EraseNode(a, l, list) ==
    [type |-> "E", addr |-> a, len |-> l, w_offs |-> 0, w_len |-> 0,
     buff |-> NULL, data |-> Blank, lock |-> FALSE, rest |-> list]

\* Otherwise a node and a sector buffer come from the pools; the buffer starts
\* blank behind an erase of the sector, else as a copy of the chip.
AddWrite(m, s, o, l, v) ==
    LET hit == WriteHit(m, s)
        old == IF hit = {} THEN flash[m][s] ELSE Blank
    IN  /\ \A x \in hit : heap[x].type = "E"
        /\ \E x \in FirstFree(Slots, UsedSlots), b \in FirstFree(Buffers, buffs) :
             /\ heap' = [heap EXCEPT ![x] =
                   WriteNode(s, o, l, b, Overwrite(old, o, l, v), opera_info[m])]
             /\ buffs' = buffs \cup {b}
             /\ opera_info' = [opera_info EXCEPT ![m] = @ \cup {x}]

\* A client programs only bits that it does not need to be 1 again: the NOR
\* rule every caller keeps by erasing first.
NorWrite(m, s, o, l, v) ==
    o + l <= CELLS /\ \A c \in o .. o + l - 1 : v \subseteq Logical(m)[s][c]

WriteAsync(m, s, o, l, v) ==
    /\ MayEnter
    /\ NorWrite(m, s, o, l, v)
    /\ MergeWrite(m, s, o, l, v) \/ AddWrite(m, s, o, l, v)
    /\ UNCHANGED <<cur_opera_info, state, chipVars, cpVars, modVars, callVars, ret, panic>>

\* _e_opera_add: the nodes inside the erased range; a locked erase among them
\* takes the new one's place ("erase opera is merged"), the unlocked ones in
\* front of it are dropped.
Inside(m, a, l) == {x \in opera_info[m] : Range(heap[x]) \subseteq a .. a + l - 1}
Replacing(m, a, l) == {x \in Inside(m, a, l) : heap[x].lock /\ heap[x].type = "E"}
Superseded(m, a, l) ==
    {x \in Inside(m, a, l) : ~heap[x].lock /\ \A y \in Replacing(m, a, l) : Newer(x, y)}

EraseAsync(m, a, l) ==
    LET gone == Superseded(m, a, l)
        kept == opera_info[m] \ gone
    IN  /\ MayEnter
        /\ \/ /\ Replacing(m, a, l) # {}
              /\ Free(gone)
              /\ opera_info' = [opera_info EXCEPT ![m] = kept]
           \/ /\ Replacing(m, a, l) = {}
              /\ \E x \in FirstFree(Slots, UsedSlots \ gone) :
                   /\ heap' = [Freed(gone) EXCEPT ![x] = EraseNode(a, l, kept)]
                   /\ buffs' = buffs \ {heap[y].buff : y \in gone}
                   /\ opera_info' = [opera_info EXCEPT ![m] = kept \cup {x}]
        /\ UNCHANGED <<cur_opera_info, state, chipVars, cpVars, modVars, callVars, ret, panic>>

-----------------------------------------------------------------------------
(* The chip.                                                               *)

\* A module's sectors `old` after the chip has executed operation n up to cell
\* `upto`, when the sectors `open` are unprotected: the others ignore it.
ExecuteShort(old, n, upto, open) ==  \* mutant: the last page before upto is missed
    [s \in Sectors |->
       IF s \notin open \cap Range(n) THEN old[s]
       ELSE IF n.type = "E" THEN Blank
       ELSE [c \in Cells |-> IF c \in Programs(n) /\ c + 1 < upto
                             THEN old[s][c] \cap n.data[c] ELSE old[s][c]]]
Execute(old, n, upto, open) ==
    [s \in Sectors |->
       IF s \notin open \cap Range(n) THEN old[s]
       ELSE IF n.type = "E" THEN Blank
       ELSE [c \in Cells |-> IF c \in Programs(n) /\ c < upto
                             THEN old[s][c] \cap n.data[c] ELSE old[s][c]]]

\* Page k of a write when some of its bits, at least those in g, remain to be
\* cleared.
PartWritten(old, n, k, g, open) ==
    [s \in Sectors |-> IF s \in open \cap Range(n)
                       THEN [old[s] EXCEPT ![k] = @ \cap (n.data[k] \cup g)] ELSE old[s]]

Suspended(n) == IF n.type = "W" THEN "WRITTING_SUSPEND" ELSE "ERASE_SUSPEND"

-----------------------------------------------------------------------------
(* Flushing: norflash_api_flush.                                           *)

\* _get_cur_mod: the current module, else the next one, in turn, with work.
Start == IF cur_mod_id + 1 >= MODULES THEN 0 ELSE cur_mod_id + 1
Turn(m) == IF m >= Start THEN m - Start ELSE m - Start + MODULES
GetCurMod ==
    IF cur_mod # NULL THEN {cur_mod}
    ELSE {m \in Pending : \A n \in Pending : Turn(m) <= Turn(n)}

\* norflash_api_flush_all first removes the callbacks, then flushes until the
\* result is 0.
FlushAll(f) ==
    /\ ~panic /\ ~IdleRuns /\ f # IDLE /\ pc[f] # "exec" /\ ~all[f]
    /\ all' = [all EXCEPT ![f] = TRUE]
    /\ allowed_cb' = FALSE
    /\ pc' = [pc EXCEPT ![f] = "idle"]
    /\ UNCHANGED <<queueVars, chipVars, cpDone, modVars, pick, ret, panic>>

Return(f, r) ==
    /\ pc' = [pc EXCEPT ![f] = r]
    /\ pick' = [pick EXCEPT ![f] = NULL]
    /\ all' = [all EXCEPT ![f] = @ /\ r = "ret1"]

\* The idle task runs when no thread is ready.
Scheduled(f) == pc[f] # "exec" /\ (f = IDLE => \A g \in Flushers : pc[g] # "exec")

\* Before the int lock: is flushing allowed, and which module is current?
FlushPick(f) ==
    /\ MayEnter /\ Scheduled(f) /\ FlushIsAllowed
    /\ ClearCallback
    /\ \E m \in GetCurMod : pick' = [pick EXCEPT ![f] = m]
    /\ pc' = [pc EXCEPT ![f] = "exec"]
    /\ UNCHANGED <<queueVars, chipVars, modVars, all, ret, panic>>

FlushSkip(f) ==
    /\ MayEnter /\ Scheduled(f)
    /\ ~FlushIsAllowed \/ GetCurMod = {}
    /\ ClearCallback
    /\ Return(f, "ret0")
    /\ UNCHANGED <<queueVars, chipVars, modVars, ret, panic>>

\* Under the int lock the result is whether some module is still current.
FlushReturnCur(f) == Return(f, IF cur_mod' # NULL THEN "ret1" ELSE "ret0")  \* mutant
FlushReturn(f) == Return(f, IF cur_mod' # NULL \/ \E m \in Modules : opera_info'[m] # {}
                            THEN "ret1" ELSE "ret0")

Locked(n) == [n EXCEPT !.lock = TRUE]

\* The node _opera_flush works on, locked by _get_tail when it is new.
Current(m) == IF cur_opera_info[m] # NULL THEN {cur_opera_info[m]} ELSE Tails(m)

FlushEmpty(f) ==
    /\ ~panic /\ pc[f] = "exec" /\ Current(pick[f]) = {}
    /\ cur_mod_id' = pick[f] /\ cur_mod' = NULL
    /\ UNCHANGED <<queueVars, chipVars, cpVars, ret, panic>>
    /\ FlushReturn(f)

\* _opera_flush unprotects the node's range when it starts it, not when it
\* resumes it.
Open(m, n) == IF state[m] = "IDLE" THEN Range(n) ELSE unprot[m]
Unprotect(m, secs) == [o \in Modules |-> IF o = m THEN secs ELSE {}]

\* The chip finishes the operation: the node leaves the list.
FlushComplete(f) ==
    LET m == pick[f] IN
    /\ ~panic /\ pc[f] = "exec"
    /\ state[m] = "IDLE" => hal = HalNone
    /\ \E x \in Current(m) :
         /\ flash' = [flash EXCEPT ![m] = Execute(flash[m], heap[x], CELLS, Open(m, heap[x]))]
         /\ OperaDel(m, x)
    /\ hal' = HalNone /\ unprot' = Unprotect(m, {})
    /\ state' = [state EXCEPT ![m] = "IDLE"]
    /\ cur_opera_info' = [cur_opera_info EXCEPT ![m] = NULL]
    /\ cur_mod' = m /\ cur_mod_id' = m
    /\ UNCHANGED <<cpVars, ret, panic>>
    /\ FlushReturn(f)

\* An interrupt is pending: a write stops inside page k with the pages before
\* it programmed, an erase leaves its sectors anywhere on the way to blank.
FlushSuspend(f) ==
    LET m == pick[f] IN
    /\ ~panic /\ pc[f] = "exec" /\ FLASH_SUSPEND
    /\ state[m] = "IDLE" => hal = HalNone
    /\ \E x \in Current(m) :
         LET n == heap[x]
             open == Open(m, n)
         IN  /\ \/ /\ n.type = "W"
                   /\ \E k \in Programs(n), g \in Byte :
                        /\ state[m] # "IDLE" => hal.next <= k
                        /\ flash' = [flash EXCEPT ![m] =
                             PartWritten(Execute(flash[m], n, k, open), n, k, g, open)]
                        /\ hal' = [st |-> Suspended(n), mod |-> m, next |-> k]
                \/ /\ n.type = "E"
                   /\ \E D \in SUBSET (open \cap Range(n)) : \E g \in [D -> Byte] :
                        flash' = [flash EXCEPT ![m] =
                             [s \in Sectors |-> IF s \in D THEN [c \in Cells |-> g[s]]
                                                ELSE flash[m][s]]]
                   /\ hal' = [st |-> Suspended(n), mod |-> m, next |-> 0]
             /\ unprot' = Unprotect(m, open)
             /\ heap' = [heap EXCEPT ![x] = Locked(n)]
             /\ state' = [state EXCEPT ![m] = Suspended(n)]
             /\ cur_opera_info' = [cur_opera_info EXCEPT ![m] = x]
    /\ cur_mod' = m /\ cur_mod_id' = m
    /\ UNCHANGED <<buffs, opera_info, cpVars, ret, panic>>
    /\ FlushReturn(f)

\* hal_norflash_{write,erase}_suspend refuse to start while an operation is
\* suspended (HAL_NORFLASH_BAD_OP) and _opera_flush asserts.
FlushAssert(f) ==
    /\ ~panic /\ pc[f] = "exec"
    /\ Current(pick[f]) # {} /\ state[pick[f]] = "IDLE" /\ hal # HalNone
    /\ panic' = TRUE
    /\ UNCHANGED <<queueVars, chipVars, cpVars, modVars, callVars, ret>>

-----------------------------------------------------------------------------
(* norflash_api_write and norflash_api_erase with async = false, under one  *)
(* int lock.                                                               *)

\* "Handle the suspend operation": the current module's, when it is another.
OtherNone(m) == {}  \* mutant: the other module's operation stays suspended
Other(m) == {o \in Modules : o = cur_mod /\ o # m /\ state[o] # "IDLE"}

\* The loop that drains the module's own list runs `continue` while flushing
\* is not allowed, which tests bresult: FALSE unless the loop above ran.
Drains(m) == Other(m) # {} \/ FlushIsAllowed

\* The nodes executed before the call's own operation.
DrainedOwn(m) == IF Drains(m) THEN opera_info[m] ELSE {}  \* mutant
DrainedOne(m) == {cur_opera_info[o] : o \in Other(m)}     \* mutant: one round only
              \cup (IF Drains(m) THEN Tails(m) ELSE {})
Drained(m) == {cur_opera_info[o] : o \in Other(m)}
              \cup (IF Drains(m) THEN opera_info[m] ELSE {})

\* A suspended operation outlives the drain: the module's own when it is not
\* drained, or one of a module that is not current.
HalBusy(m) == hal # HalNone /\ hal.mod \notin Other(m)
                            /\ ~(Drains(m) /\ hal.mod = m)

\* A suspended node whose sectors were protected again has no effect left.
Effective(o, N) == {x \in N : ~(x = cur_opera_info[o] /\ state[o] # "IDLE"
                                /\ ~(Range(heap[x]) \subseteq unprot[o]))}

AfterDrain(m) ==
    [o \in Modules |->
       [s \in Sectors |-> Contents(o, Effective(o, Drained(m) \cap opera_info[o]), s)]]

\* The call's own operation n, refused when one is suspended.
SyncOp(m, n) ==
    LET after == AfterDrain(m)
        quiet == Other(m) \cup (IF Drains(m) THEN {m} ELSE {})
        stuck == Drains(m) /\ opera_info[m] # {} /\ HalBusy(m)
    IN  /\ MayEnter
        /\ Other(m) # {} => FlushIsAllowed
        /\ ClearCallback
        /\ \/ /\ stuck
              /\ panic' = TRUE
              /\ UNCHANGED <<queueVars, chipVars, ret>>
           \/ /\ ~stuck
              /\ Free(Drained(m))
              /\ opera_info' = [o \in Modules |-> opera_info[o] \ Drained(m)]
              /\ state' = [o \in Modules |-> IF o \in quiet THEN "IDLE" ELSE state[o]]
              /\ cur_opera_info' = [o \in Modules |->
                                      IF o \in quiet THEN NULL ELSE cur_opera_info[o]]
              /\ flash' = IF HalBusy(m) THEN after
                          ELSE [after EXCEPT ![m] = Execute(@, n, CELLS, Range(n))]
              /\ hal' = IF HalBusy(m) THEN hal ELSE HalNone
              /\ ret' = IF HalBusy(m) THEN "ERR" ELSE "OK"
              /\ unprot' = Unprotect(m, {})
              /\ UNCHANGED panic
        /\ UNCHANGED <<modVars, callVars>>

WriteSync(m, s, o, l, v) ==
    /\ NorWrite(m, s, o, l, v)
    /\ SyncOp(m, [type |-> "W", addr |-> s, len |-> 1, w_offs |-> o, w_len |-> l,
                  data |-> [c \in Cells |-> v]])

EraseSync(m, a, l) == SyncOp(m, [type |-> "E", addr |-> a, len |-> l])

-----------------------------------------------------------------------------
(* The flush-allowed callback: norflash_api_flush_disable(USER_CP,          *)
(* cp_accel_init_done), then the coprocessor boots, then flush_enable.      *)

FlushDisable ==
    /\ ~panic /\ ~IdleRuns /\ CP_USER /\ ~allowed_cb
    /\ allowed_cb' = TRUE /\ cpDone' = FALSE
    /\ UNCHANGED <<queueVars, chipVars, modVars, callVars, ret, panic>>

CpInitDone ==
    /\ ~panic /\ ~cpDone
    /\ cpDone' = TRUE
    /\ UNCHANGED <<queueVars, chipVars, allowed_cb, modVars, callVars, ret, panic>>

FlushEnable ==
    /\ ~panic /\ ~IdleRuns /\ cpDone /\ allowed_cb
    /\ allowed_cb' = FALSE
    /\ UNCHANGED <<queueVars, chipVars, cpDone, modVars, callVars, ret, panic>>

-----------------------------------------------------------------------------
ClientWrite == \E m \in Modules, s \in Sectors, o \in Cells, l \in 1 .. CELLS, v \in Byte :
                  WriteAsync(m, s, o, l, v) \/ WriteSync(m, s, o, l, v)
ClientErase == \E m \in Modules, l \in EraseLens, a \in Sectors :
                  /\ a % l = 0 /\ a + l <= SECTORS
                  /\ EraseAsync(m, a, l) \/ EraseSync(m, a, l)
Client == ClientWrite \/ ClientErase

FlushExec(f) == FlushEmpty(f) \/ FlushComplete(f) \/ FlushSuspend(f) \/ FlushAssert(f)
Flush == \E f \in Flushers : FlushAll(f) \/ FlushPick(f) \/ FlushSkip(f) \/ FlushExec(f)
Cp == FlushDisable \/ CpInitDone \/ FlushEnable

Next == Client \/ Flush \/ Cp
Spec == Init /\ [][Next]_vars

\* The idle task runs again and again (the sleep hook of norflash_api_init) and
\* finds flushing allowed; the chip is not interrupted for ever; a thread goes
\* on; the coprocessor boots.  Nothing is assumed of what the clients call.
Fairness ==
    /\ SF_vars(IDLE \in Flushers /\ FlushPick(IDLE))
    /\ \A f \in Flushers : WF_vars(FlushExec(f)) /\ SF_vars(FlushComplete(f))
    /\ WF_vars(CpInitDone)
FairSpec == Spec /\ Fairness

-----------------------------------------------------------------------------
(* Properties.                                                             *)

\* The type invariant.
TypeOK ==
    /\ flash \in [Modules -> [Sectors -> Sector]]
    /\ hal \in [st : {"NONE", "WRITTING_SUSPEND", "ERASE_SUSPEND"},
                mod : Modules \cup {NULL}, next : Cells]
    /\ unprot \in [Modules -> SUBSET Sectors]
    /\ heap \in [Slots -> Node \cup {NULL}]
    /\ buffs \subseteq Buffers
    /\ opera_info \in [Modules -> SUBSET Slots]
    /\ cur_opera_info \in [Modules -> Slots \cup {NULL}]
    /\ state \in [Modules -> {"IDLE", "WRITTING_SUSPEND", "ERASE_SUSPEND"}]
    /\ cur_mod \in Modules \cup {NULL}
    /\ cur_mod_id \in 0 .. MODULES
    /\ allowed_cb \in BOOLEAN /\ cpDone \in BOOLEAN
    /\ pc \in [Flushers -> {"idle", "exec", "ret0", "ret1"}]
    /\ pick \in [Flushers -> Modules \cup {NULL}]
    /\ \A f \in Flushers : pc[f] = "exec" => pick[f] # NULL
    /\ all \in [Flushers -> BOOLEAN]
    /\ ret \in {"OK", "ERR"}
    /\ panic \in BOOLEAN

\* No node or sector buffer of the shared pools leaks, is freed twice or is
\* in two lists, whatever order of merging, dropping, flushing and draining.
PoolAccounted ==
    /\ UsedSlots = UNION {opera_info[m] : m \in Modules}
    /\ \A m, o \in Modules : m # o => opera_info[m] \cap opera_info[o] = {}
    /\ buffs = {heap[x].buff : x \in {y \in UsedSlots : heap[y].type = "W"}}
    /\ \A x, y \in UsedSlots : x # y /\ heap[x].type = "W" => heap[x].buff # heap[y].buff

\* The next chains of a module are one list.
ListChained ==
    \A m \in Modules : \A x \in opera_info[m] :
        /\ heap[x].rest \subseteq opera_info[m] \ {x}
        /\ \A y \in opera_info[m] \ {x} :
             /\ Newer(x, y) <=> ~Newer(y, x)
             /\ Newer(x, y) => heap[y].rest \subseteq heap[x].rest

\* The chip, the module states and the list agree on what is suspended: one
\* operation at most, the oldest of its module, and the only locked node.
SuspendedAgrees ==
    /\ \A m \in Modules :
         IF state[m] = "IDLE" THEN hal.mod # m /\ cur_opera_info[m] = NULL
         ELSE /\ hal.mod = m /\ hal.st = state[m]
              /\ cur_opera_info[m] \in Tails(m)
              /\ state[m] = Suspended(heap[cur_opera_info[m]])
    /\ \A m \in Modules : \A x \in opera_info[m] :
         heap[x].lock <=> x = cur_opera_info[m]
    /\ hal.st = "NONE" <=> hal.mod = NULL

\* A synchronous call looks for a suspended operation only in cur_mod.
SuspendedIsCurrent == hal # HalNone => cur_mod = hal.mod

\* Outside an operation the whole chip is protected, and a suspended one can
\* still reach its own sectors when it is resumed.
Protected ==
    \A m \in Modules :
        IF state[m] = "IDLE" THEN unprot[m] = {}
        ELSE unprot[m] = Range(heap[cur_opera_info[m]])

\* No ASSERT of _opera_flush fires.
NoPanic == ~panic

\* A synchronous call is not refused because of a suspended operation.
SyncNotRefused == ret = "OK"

\* norflash_api_read returns what the client wrote, flushed or not.
ReadYourWrites ==
    \A m \in Modules, s \in Sectors : OperaRead(m, s) = Logical(m)[s]

\* A flush that returns 0 leaves no operation pending.
FlushZeroMeansDrained ==
    [][\A f \in Flushers : pc'[f] = "ret0" /\ pc[f] # "ret0" => Pending' = {}]_vars

\* The chip programs from the buffer of a locked node: neither merging nor
\* erasing touches the node until it has been executed.
LockedNodeFrozen ==
    [][\A x \in Slots : heap[x] # NULL /\ heap'[x] # heap[x] /\ heap'[x] # NULL
          => ~heap[x].lock]_vars

\* What an operation does to a client's data is settled when it is queued:
\* executing it, or part of it, is a stutter of the store that clients are
\* promised, and every other step is one of its writes or erases.
Content == [m \in Modules |-> Logical(m)]
Store == INSTANCE FlashStore WITH store <- Content
StoreRefined == Store!Spec

\* A call that is accepted has its effect on what the client observes, at once
\* and on nothing else: a queued operation that is merged, dropped or overtaken
\* loses no write and no erase.
CallsTakeEffect ==
    [][/\ \A m \in Modules, s \in Sectors, o \in Cells, l \in 1 .. CELLS, v \in Byte :
            \/ WriteAsync(m, s, o, l, v)
            \/ WriteSync(m, s, o, l, v) /\ ret' = "OK" /\ ~panic'
            => Store!Write(m, s, o, l, v)
       /\ \A m \in Modules, l \in EraseLens, a \in Sectors :
            /\ a % l = 0 /\ a + l <= SECTORS
            /\ EraseAsync(m, a, l) \/ (EraseSync(m, a, l) /\ ret' = "OK" /\ ~panic')
            => Store!Erase(m, a, l)]_vars

\* "flush all of cur module opera": a synchronous call executes everything its
\* module has queued before its own operation.
SyncDrains ==
    [][\A m \in Modules, l \in EraseLens, a \in Sectors :
          EraseSync(m, a, l) /\ ~panic' => opera_info'[m] = {}]_vars

\* A suspended operation is resumed until it completes.
SuspendedCompletes == \A m \in Modules : state[m] # "IDLE" ~> state[m] = "IDLE"

\* Once the clients stop calling, everything queued is executed.
QuietDrains == <>[][~Client]_vars => <>[](Pending = {})
==============================================================================
