------------------------------ MODULE LogDump ------------------------------
(***************************************************************************)
(* The log section (src/services/nv_section/log_section/log_section.c).    *)
(* Every trace goes to log_dump_output_handler, which collects it in a     *)
(* ring of buffers, each the image of one sector of the flash and headed   *)
(* by a running number.  The hook of the NOR flash API writes full buffers *)
(* to the flash behind one another, a sector at a time, round and round;   *)
(* switching off and a crash write what remains.  After a restart the      *)
(* headers on the flash say where to go on.                                *)
(*                                                                         *)
(* The flash is a function of cells: a cell is erased, holds a header or a *)
(* piece of the log.  Pieces are numbered in the order they were traced.   *)
(* The NOR flash API is the promise of NorflashApi: a queue whose          *)
(* operations take effect in order, and that refuses when full.            *)
(***************************************************************************)
EXTENDS Integers, Sequences, FiniteSets, SequencesExt

CONSTANTS
    COUNT,        \* LOG_DUMP_SECTOR_BUFFER_COUNT
    SECTOR,       \* LOG_DUMP_SECTOR_SIZE, in cells, one for the header
    SECTORS,      \* sectors of the log section
    OPRA,         \* operations the NOR flash API queues for the module
    MULTI_FLASH,  \* the hook runs in a thread, not in the idle task
    MaxLine,      \* bound: cells of one line
    MaxLogged,    \* bound: cells traced in all
    MaxRestarts   \* bound: restarts

ASSUME SizesAssumption ==
    /\ COUNT \in Nat \ {0, 1} /\ SECTOR \in Nat \ {0, 1}
    /\ SECTORS \in Nat \ {0, 1} /\ OPRA \in Nat \ {0}
    /\ MULTI_FLASH \in BOOLEAN
    /\ MaxLine \in 1 .. (SECTOR - 1)
    /\ MaxLogged \in Nat /\ MaxRestarts \in Nat

VARIABLES
    buf,          \* data_buffer_list
    w, f,         \* log_dump_w_seqnum, log_dump_f_seqnum
    state,        \* log_dump_flash_state
    offs,         \* log_dump_flash_offs
    cur,          \* log_dump_cur_dump_seqnum
    immediately,  \* log_dump_is_immediately
    frame,        \* where each caller of _log_dump_flush stands
    mode,         \* run, crash (START notified), end (END notified), off
    flash, queue, \* the section, and the operations queued for it
    logged,       \* pieces traced so far
    lost,         \* pieces reported lost, or lost with the power
    upset,        \* whether the writer once caught up with the flush
                  \* (overtaken), two callers were in it at once (mixed),
                  \* log_dump_flush_all was called (stopped)
    restarts

logVars == <<buf, w, f, cur>>
flushVars == <<state, offs, frame, immediately>>
chipVars == <<flash, queue>>
ghostVars == <<logged, lost, upset, restarts>>
vars == <<logVars, flushVars, chipVars, mode, ghostVars>>

Buffers == 0 .. (COUNT - 1)
Size == SECTOR * SECTORS
Callers == {"hook", "remain"}
Blank == <<>>
Bad == <<"bad", 0>>
Hdr(n) == <<"hdr", n>>
Log(u) == <<"log", u>>
Pieces(from, n) == [i \in 1..n |-> Log(from + i)]
NextBuf(i) == (i + 1) % COUNT
Free == [state |-> "FREE", data |-> <<>>]
Filling(d) == [state |-> "WRITTING", data |-> d]
\* mutant: a full buffer stays in the state of one being filled
FullUnmarked(d) == [state |-> "WRITTING", data |-> d]
Full(d) == [state |-> "WRITTEN", data |-> d]

(* What a queued operation does to the flash: an erase makes its sector    *)
(* blank, a write spoils what was not blank before.                        *)
Program(fl, op) ==
    [i \in DOMAIN fl |->
        LET k == i - op.at + 1
        IN  IF k \notin DOMAIN op.cells THEN fl[i]
            ELSE IF op.cells[k] = Blank \/ fl[i] \in {Blank, op.cells[k]}
                 THEN op.cells[k] ELSE Bad]
(* The flash when the first k of the queue are executed, and all of them.  *)
After(k) ==
    LET after[i \in 0 .. Len(queue)] ==
            IF i = 0 THEN flash ELSE Program(after[i - 1], queue[i])
    IN  after[k]
Stored == After(Len(queue))

EraseOp == [at |-> offs, cells |-> [i \in 1..SECTOR |-> Blank]]
WriteOp(b) == [at |-> offs, cells |-> buf[b].data]

(* _get_seqnum: the number to go on with, and the sector.  The search      *)
(* starts from a maximum of 0 and sector 0.                                *)
Headers(fl) == {i \in 0 .. (SECTORS - 1) : fl[i * SECTOR] # Blank
                                           /\ fl[i * SECTOR][1] = "hdr"}
SeqAt(fl, i) == fl[i * SECTOR][2]
GetSeqnum(fl) ==
    IF Headers(fl) = {} THEN [seqnum |-> 0, sector |-> 0]
    ELSE LET top == CHOOSE i \in Headers(fl) :
                        \A j \in Headers(fl) : SeqAt(fl, j) <= SeqAt(fl, i)
         IN  [seqnum |-> SeqAt(fl, top) + 1,
              sector |-> IF SeqAt(fl, top) = 0 THEN 1 ELSE (top + 1) % SECTORS]

-----------------------------------------------------------------------------
Rest == [c \in Callers |->
            [at |-> IF c = "hook" THEN "loop" ELSE "out", b |-> 0]]

Init ==
    /\ buf = [i \in Buffers |-> Free] /\ w = 0 /\ f = 0 /\ cur = 0
    /\ state = "IDLE" /\ offs = 0 /\ frame = Rest /\ immediately = FALSE
    /\ mode = "run"
    /\ flash = [i \in 0 .. (Size - 1) |-> Blank] /\ queue = <<>>
    /\ logged = 0 /\ lost = {} /\ upset = {} /\ restarts = 0

(* In the idle task the hook runs with interrupts locked, and only when    *)
(* no thread is busy.                                                      *)
Interruptible == MULTI_FLASH \/ frame["hook"].at = "loop"
HookRuns == mode = "run" /\ (MULTI_FLASH \/ frame["remain"].at = "out")

(* log_dump_output_handler, called with interrupts locked: n pieces go     *)
(* behind those of the current buffer, and to the next one when it is full *)
(* -- unless that is the one to be flushed next.                           *)
Started(i) == IF buf[i].state = "WRITTING" THEN buf[i].data ELSE <<Hdr(cur)>>
\* mutant: the number of the next header is not counted up
NumberKept(i) == cur
Number(i) == IF buf[i].state = "WRITTING" THEN cur ELSE cur + 1

Output(n) ==
    LET d == Started(w)
        room == SECTOR - Len(d)
        rest == n - room
    IN  /\ mode \in {"run", "crash"} /\ Interruptible
        /\ logged + n <= MaxLogged
        /\ logged' = logged + n
        /\ \/ /\ n < room
              /\ buf' = [buf EXCEPT ![w] = Filling(d \o Pieces(logged, n))]
              /\ cur' = Number(w)
              /\ UNCHANGED <<w, lost, upset>>
           \/ /\ n >= room /\ (rest = 0 \/ NextBuf(w) = f)
              /\ buf' = [buf EXCEPT ![w] = Full(d \o Pieces(logged, room))]
              /\ cur' = Number(w)
              /\ w' = NextBuf(w)
              /\ lost' = lost \cup ((logged + room + 1) .. (logged + n))
              /\ upset' = IF NextBuf(w) = f THEN upset \cup {"overtaken"} ELSE upset
           \/ /\ rest > 0 /\ NextBuf(w) # f
              /\ buf' = [buf EXCEPT
                            ![w] = Full(d \o Pieces(logged, room)),
                            ![NextBuf(w)] =
                                Filling(<<Hdr(Number(w))>> \o Pieces(logged + room, rest))]
              /\ cur' = Number(w) + 1
              /\ w' = NextBuf(w)
              /\ UNCHANGED <<lost, upset>>
        /\ UNCHANGED <<f, flushVars, chipVars, mode, restarts>>

-----------------------------------------------------------------------------
(* _log_dump_flush, from the hook and from _log_dump_flush_remain          *)

\* mutant: the hook flushes buffers that are not full yet
MaskAll(c) == {"WRITTING", "WRITTEN"}
\* mutant: the last flush leaves the buffer that is not full
MaskFull(c) == {"WRITTEN"}
Mask(c) == IF c = "hook" THEN {"WRITTEN"} ELSE {"WRITTING", "WRITTEN"}
Runs(c) == IF c = "hook" THEN HookRuns ELSE Interruptible
At(c, at) == Runs(c) /\ frame[c].at = at
Go(c, at, b) == frame' = [frame EXCEPT ![c] = [at |-> at, b |-> b]]
Enter(c, at) ==
    /\ Go(c, at, f)
    /\ upset' = IF \E d \in Callers \ {c} : frame[d].at \notin {"loop", "out"}
                THEN upset \cup {"mixed"} ELSE upset

(* norflash_api_erase and norflash_api_write: queued, or done at once      *)
(* behind what is queued; when the queue is full an operation of it is     *)
(* executed and the call fails.                                            *)
Async(c) == c = "hook" /\ ~immediately
Accepted(c, op) ==
    \/ /\ Async(c) /\ Len(queue) < OPRA
       /\ queue' = Append(queue, op)
       /\ UNCHANGED flash
    \/ /\ ~Async(c)
       /\ flash' = Program(Stored, op)
       /\ queue' = <<>>
Drain ==
    /\ queue # <<>>
    /\ flash' = Program(flash, Head(queue))
    /\ queue' = Tail(queue)
Refused(c) == Async(c) /\ Len(queue) = OPRA /\ Drain

EnterErase(c) ==
    /\ At(c, "loop") /\ state = "IDLE" /\ offs % SECTOR = 0
    /\ Enter(c, "erase")
    /\ UNCHANGED <<logVars, state, offs, immediately, chipVars, mode,
                   logged, lost, restarts>>

Erase(c) ==
    /\ At(c, "erase") /\ Go(c, "loop", 0)
    /\ \/ Accepted(c, EraseOp) /\ state' = "ERASED"
       \/ Refused(c) /\ UNCHANGED state
    /\ UNCHANGED <<logVars, offs, immediately, mode, ghostVars>>

\* mutant: a write that was refused is not tried again
EnterWriteOnce(c) ==
    /\ At(c, "loop") /\ state = "ERASED"
    /\ buf[f].state \in Mask(c) /\ buf[f].data # <<>>
    /\ state' = "WRITTING"
    /\ Enter(c, "write")
    /\ UNCHANGED <<logVars, offs, immediately, chipVars, mode,
                   logged, lost, restarts>>
EnterWrite(c) ==
    /\ At(c, "loop") /\ state \in {"ERASED", "WRITTING"}
    /\ buf[f].state \in Mask(c) /\ buf[f].data # <<>>
    /\ state' = "WRITTING"
    /\ Enter(c, "write")
    /\ UNCHANGED <<logVars, offs, immediately, chipVars, mode,
                   logged, lost, restarts>>

Write(c) ==
    /\ At(c, "write")
    /\ \/ Accepted(c, WriteOp(frame[c].b)) /\ Go(c, "wrote", frame[c].b)
       \/ Refused(c) /\ Go(c, "loop", 0)
    /\ UNCHANGED <<logVars, state, offs, immediately, mode, ghostVars>>

SetFree(c) ==
    /\ At(c, "wrote")
    /\ buf' = [buf EXCEPT ![frame[c].b].state = "FREE"]
    /\ Go(c, "freed", frame[c].b)
    /\ UNCHANGED <<w, f, cur, state, offs, immediately, chipVars, mode, ghostVars>>

(* The offset is read from the buffer, which is already free.              *)
Advance(c) ==
    LET to == offs + Len(buf[frame[c].b].data)
    IN  /\ At(c, "freed")
        /\ f' = NextBuf(f)
        /\ offs' = IF to >= Size THEN 0 ELSE to
        /\ state' = "IDLE"
        /\ Go(c, "loop", 0)
        /\ UNCHANGED <<buf, w, cur, immediately, chipVars, mode, ghostVars>>

\* mutant: what is queued is not drained at the end
RemainDoneQueued ==
    /\ At("remain", "loop")
    /\ \A i \in Buffers : buf[i].state = "FREE"
    /\ Go("remain", "out", 0)
    /\ mode' = IF mode = "end" THEN "off" ELSE mode
    /\ UNCHANGED <<logVars, state, offs, immediately, chipVars, ghostVars>>

(* _log_dump_flush_remain ends when every buffer is free, and then drains  *)
(* the queue.                                                              *)
RemainDone ==
    /\ At("remain", "loop")
    /\ \A i \in Buffers : buf[i].state = "FREE"
    /\ Go("remain", "out", 0)
    /\ flash' = Stored /\ queue' = <<>>
    /\ mode' = IF mode = "end" THEN "off" ELSE mode
    /\ UNCHANGED <<logVars, state, offs, immediately, ghostVars>>

(* log_dump_flush_all, when the device is switched off.                    *)
FlushAll ==
    /\ At("remain", "out") /\ mode = "run"
    /\ immediately' = TRUE
    /\ Go("remain", "loop", 0)
    /\ upset' = upset \cup {"stopped"}
    /\ UNCHANGED <<logVars, state, offs, chipVars, mode, logged, lost, restarts>>

(* log_dump_notify_handler.  A crash ends every thread where it stands.    *)
CrashStart ==
    /\ mode = "run"
    /\ mode' = "crash"
    /\ immediately' = TRUE
    /\ frame' = Rest
    /\ UNCHANGED <<logVars, state, offs, chipVars, ghostVars>>

CrashEnd ==
    /\ mode = "crash"
    /\ mode' = "end"
    /\ Go("remain", "loop", 0)
    /\ UNCHANGED <<logVars, state, offs, immediately, chipVars, ghostVars>>

(* The thread or the idle task executes a queued operation.                *)
Execute ==
    /\ mode = "run" /\ Drain
    /\ UNCHANGED <<logVars, flushVars, mode, ghostVars>>

(* The power goes, or comes back after a crash: log_dump_init.             *)
OnFlash(fl) == {u \in 1..logged : \E i \in DOMAIN fl : fl[i] = Log(u)}
Restart ==
    /\ restarts < MaxRestarts
    /\ restarts' = restarts + 1
    /\ lost' = lost \cup ((1..logged) \ OnFlash(flash))
    /\ buf' = [i \in Buffers |-> Free] /\ w' = 0 /\ f' = 0
    /\ cur' = GetSeqnum(flash).seqnum
    /\ offs' = GetSeqnum(flash).sector * SECTOR
    /\ state' = "IDLE" /\ frame' = Rest /\ immediately' = FALSE
    /\ queue' = <<>> /\ mode' = "run"
    /\ UNCHANGED <<flash, logged, upset>>

Flush(c) ==
    EnterErase(c) \/ Erase(c) \/ EnterWrite(c) \/ Write(c) \/ SetFree(c) \/ Advance(c)
Next ==
    \/ \E n \in 1..MaxLine : Output(n)
    \/ \E c \in Callers : Flush(c)
    \/ RemainDone \/ FlushAll \/ CrashStart \/ CrashEnd \/ Execute \/ Restart
Spec == Init /\ [][Next]_vars
FairSpec ==
    /\ Spec
    /\ \A c \in Callers : WF_vars(Flush(c))
    /\ WF_vars(RemainDone) /\ WF_vars(Execute)
-----------------------------------------------------------------------------
(* Properties                                                              *)

(* The buffers hold a header and pieces, and full ones fill a sector.      *)
BuffersOK ==
    /\ w \in Buffers /\ f \in Buffers
    /\ \A i \in Buffers :
        /\ buf[i].state \in {"FREE", "WRITTING", "WRITTEN"}
        /\ Len(buf[i].data) <= SECTOR
        /\ buf[i].state = "WRITTING" => Len(buf[i].data) \in 1 .. (SECTOR - 1)
        /\ buf[i].state = "WRITTEN" => Len(buf[i].data) = SECTOR

(* Only the buffer at w is being filled: what log_dump_output_handler      *)
(* asserts of the buffer it goes on with (log_section.c:476).              *)
OnlyWriterFills == \A i \in Buffers \ {w} : buf[i].state # "WRITTING"

(* No two sectors of the flash carry the same number, and no later header  *)
(* will repeat one: also when power or a crash cut the log short.          *)
NumbersUnique == "mixed" \notin upset =>
    \A i \in Headers(Stored) :
        /\ SeqAt(Stored, i) < cur
        /\ \A j \in Headers(Stored) \ {i} : SeqAt(Stored, i) # SeqAt(Stored, j)

(* The trail of the log, spot by spot: sector after sector round the flash *)
(* from the write position, then buffer after buffer from f on.  A spot is *)
(* the number of a sector or a buffer in that order, and a cell of it.     *)
Spots == (0 .. (SECTORS + COUNT - 1)) \X (1 .. SECTOR)
Before(p, q) == p[1] < q[1] \/ (p[1] = q[1] /\ p[2] < q[2])
BufferAt(i, j) ==
    IF buf[i].state # "FREE" /\ j \in DOMAIN buf[i].data THEN buf[i].data[j] ELSE Blank
Trail ==
    LET fl == Stored
    IN  [p \in Spots |->
            IF p[1] < SECTORS THEN fl[(offs + p[1] * SECTOR + p[2] - 1) % Size]
            ELSE BufferAt((f + p[1] - SECTORS) % COUNT, p[2])]
Only(t, kind) == {p \in Spots : t[p] # Blank /\ t[p][1] = kind}
Rising(t, ps) == \A p, q \in ps : Before(p, q) => t[p][2] < t[q][2]
Found(t) == {t[p][2] : p \in Only(t, "log")}

(* As long as the writer never caught up with the flush, the trail is the  *)
(* log: nothing spoilt, numbers and pieces in their order, and between two *)
(* pieces none missing but those lost with the power.                      *)
InOrder ==
    (/\ upset = {} /\ mode = "run"
     /\ frame["hook"].at \notin {"wrote", "freed"}) =>
        LET t == Trail
        IN  /\ Only(t, "bad") = {}
            /\ Rising(t, Only(t, "hdr")) /\ Rising(t, Only(t, "log"))
            /\ \A u, v \in Found(t) : (u .. v) \subseteq Found(t) \cup lost

(* What a crash leaves: when the flush at its end returns, the last piece  *)
(* traced is on the flash, the text of the crash with it.                  *)
CrashSaved ==
    (mode = "off" /\ upset = {} /\ logged \notin lost) =>
        logged \in OnFlash(flash) \cup {0}

(* log_section.c:466 reports the bytes of the line that find no buffer as  *)
(* "LOST LOG": between two pieces that are kept, one is missing only if it *)
(* was reported, or lost with the power.                                   *)
LossReported ==
    ~immediately => LET kept == OnFlash(Stored) \cup
                {u \in 1..logged : \E i \in Buffers :
                    buf[i].state # "FREE" /\ Log(u) \in Range(buf[i].data)}
    IN  \A t, v \in kept : (t .. v) \subseteq kept \cup lost

(* A full buffer is flushed, unless the writer catches up, the device is   *)
(* switched off or crashes.                                                *)
FilledIsFlushed ==
    \A i \in Buffers :
        (buf[i].state = "WRITTEN") ~>
            (buf[i].state # "WRITTEN" \/ upset # {} \/ immediately)

(* The flush at the end comes to an end, or has left the write position    *)
(* inside a sector, or on a buffer already free, from where nothing is     *)
(* ever flushed again.                                                     *)
Stuck ==
    \/ state = "IDLE" /\ offs % SECTOR # 0
    \/ state # "IDLE" /\ buf[f].state = "FREE"
RemainEnds == (frame["remain"].at = "loop") ~> (frame["remain"].at = "out" \/ Stuck)
=============================================================================
