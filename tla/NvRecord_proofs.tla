--------------------------- MODULE NvRecord_proofs ---------------------------
(***************************************************************************)
(* Proofs about NvRecord for any number of updates and power cuts and for  *)
(* both builds.                                                            *)
(*                                                                         *)
(* At any moment at most one copy is being replaced, and the queue holds   *)
(* operations on that copy only (Phase); the other one is valid, unless    *)
(* nothing was ever saved, and no copy is older than what was saved        *)
(* (Copies).  What is not yet in the main sector is in the burn buffer or  *)
(* marked by is_update (Fresh).                                            *)
(***************************************************************************)
EXTENDS NvRecord, SequenceTheorems, TLAPS

\* Executing the queue q on sector s, which now holds c, ends with v there:
\* q erases and writes v, and writes only over a blank sector or v itself.
Ends(q, c, s, v) ==
    /\ \A i \in 1 .. Len(q) : q[i].sec = s /\ q[i].img \in {Blank, v}
    /\ q = <<>> => c = v
    /\ q # <<>> => q[Len(q)].img = v
    /\ q # <<>> /\ v # Blank /\ q[1].img = v => c \in {Blank, v}

CoreType ==
    /\ flash \in [Sector -> Image]
    /\ queue \in Seq(Operation)
    /\ on \in BOOLEAN
    /\ ram \in Version /\ burn \in Version
    /\ is_update \in BOOLEAN
    /\ state \in NvState
    /\ next \in 1 .. MaxVersion + 1
    /\ told \in Version /\ wanted \in Version /\ saved \in Version

EnvType ==
    /\ holder \in {"none", "flush", "drain"}
    /\ mail \in BOOLEAN /\ task \in {"wait", "hook", "flush"}
    /\ delay \in BOOLEAN /\ timer \in BOOLEAN
    /\ promised \in Version
    /\ cuts \in 0 .. MaxCuts

Copies ==
    /\ saved = 0 \/ Valid("main") \/ Valid("bak")
    /\ \A s \in Sector : Valid(s) => saved <= flash[s] /\ flash[s] < next
    /\ Valid("main") /\ Valid("bak") => flash["bak"] <= flash["main"]
    /\ ram < next
    /\ on => saved <= ram /\ \A s \in Sector : Valid(s) => flash[s] <= ram

\* While the main sector is replaced the backup stands for it.
BakStands == saved = 0 \/ Valid("bak")
Phase ==
    /\ state \in {"IDLE", "MAIN_ERASING"} => queue = <<>> /\ BakStands
    /\ state \in {"MAIN_ERASED", "MAIN_WRITE_PENDING"} =>
         Ends(queue, flash["main"], "main", Blank) /\ BakStands
    /\ state = "MAIN_WRITTEN" => Ends(queue, flash["main"], "main", burn) /\ BakStands
    /\ state \in {"MAIN_WRITE_PENDING", "MAIN_WRITTEN"} =>
         saved <= burn /\ burn <= ram /\ (Valid("bak") => flash["bak"] <= burn)
    /\ state \in {"MAIN_DONE", "BAK_ERASING"} => queue = <<>> /\ Valid("main")
    /\ state = "BAK_ERASED" => Ends(queue, flash["bak"], "bak", Blank) /\ Valid("main")
    /\ state = "BAK_WRITE_PENDING" =>
         /\ flash["main"] = burn
         /\ \/ Ends(queue, flash["bak"], "bak", Blank)
            \/ Ends(queue, flash["bak"], "bak", burn)
    /\ state = "BAK_WRITTEN" =>
         flash["main"] = burn /\ Ends(queue, flash["bak"], "bak", burn)

Fresh ==
    /\ wanted <= told /\ told <= ram
    /\ state \in {"MAIN_ERASING", "MAIN_ERASED"} => is_update = TRUE
    /\ is_update = FALSE =>
         IF state \in {"MAIN_WRITE_PENDING", "MAIN_WRITTEN"}
         THEN told <= burn
         ELSE Valid("main") /\ told <= flash["main"]

Core ==
    /\ CoreType
    /\ Copies
    /\ on = FALSE => queue = <<>>
    /\ on = TRUE => Phase /\ Fresh

\* Nobody holds the mutex while there is no power.
Unpowered == on = FALSE => holder = "none"

IInv == Core /\ EnvType /\ Unpowered

\* What the steps of a flush leave alone.
kept == <<on, ram, next, told, wanted>>
coreVars == <<flash, queue, ram, is_update, state, burn, on, next, told, wanted, saved>>

-----------------------------------------------------------------------------
(* The queue.                                                              *)

\* The head of the queue is on the sector, and executing it leaves a queue that
\* still ends with v; meanwhile the sector is blank or holds v.
LEMMA EndsExecute ==
    ASSUME NEW q \in Seq(Operation), NEW c, NEW s, NEW v, q # <<>>, Ends(q, c, s, v),
           Blank # Torn
    PROVE  /\ Head(q).sec = s
           /\ Programmed(c, Head(q).img) \in {Blank, v}
           /\ Ends(Tail(q), Programmed(c, Head(q).img), s, v)
<1> DEFINE d == Programmed(c, Head(q).img)
<1>1. Len(q) \in Nat /\ Len(q) >= 1 /\ Head(q) = q[1]
  OBVIOUS
<1>2. q[1].sec = s /\ q[1].img \in {Blank, v}
  BY <1>1 DEF Ends
<1>3. d \in {Blank, v}
  <2>1. CASE q[1].img = Blank
    BY <2>1, <1>1 DEF Programmed
  <2>2. CASE q[1].img = v /\ v # Blank
    BY <2>2, <1>1 DEF Programmed, Ends
  <2> QED  BY <1>2, <2>1, <2>2
<1>4. Len(Tail(q)) = Len(q) - 1 /\ \A i \in 1 .. Len(Tail(q)) : Tail(q)[i] = q[i + 1]
  BY <1>1
<1>5. Tail(q) = <<>> => d = v
  <2> SUFFICES ASSUME Tail(q) = <<>>  PROVE d = v
    OBVIOUS
  <2>1. Len(q) = 1
    <3>1. Len(<<>>) = 0
      BY EmptySeq
    <3>2. Len(Tail(q)) = 0
      BY <3>1
    <3> QED  BY <3>2, <1>1, <1>4
  <2>2. q[1].img = v
    BY <2>1 DEF Ends
  <2> QED  BY <2>2, <1>1, <1>3 DEF Programmed, Ends
<1>6. \A i \in 1 .. Len(Tail(q)) : Tail(q)[i].sec = s /\ Tail(q)[i].img \in {Blank, v}
  BY <1>1, <1>4 DEF Ends
<1>7. Tail(q) # <<>> => Tail(q)[Len(Tail(q))].img = v
  BY <1>1, <1>4 DEF Ends
<1> QED  BY <1>1, <1>2, <1>3, <1>5, <1>6, <1>7 DEF Ends

\* An erase on an empty queue.
LEMMA EndsErase ==
    ASSUME NEW q, NEW c, NEW s, q = <<>>
    PROVE  Ends(Append(q, [sec |-> s, img |-> Blank]), c, s, Blank)
<1> DEFINE r == Append(q, [sec |-> s, img |-> Blank])
<1>1. Len(r) = 1 /\ r[1] = [sec |-> s, img |-> Blank] /\ r # <<>>
  OBVIOUS
<1> QED  BY <1>1 DEF Ends

\* A write behind an erase, or behind another write of the same image.
LEMMA EndsWrite ==
    ASSUME NEW q \in Seq(Operation), NEW c, NEW s, NEW v, v # Blank,
           Ends(q, c, s, Blank) \/ Ends(q, c, s, v)
    PROVE  Ends(Append(q, [sec |-> s, img |-> v]), c, s, v)
<1> DEFINE r == Append(q, [sec |-> s, img |-> v])
<1>1. /\ Len(q) \in Nat /\ Len(r) = Len(q) + 1 /\ r # <<>>
      /\ r[Len(q) + 1] = [sec |-> s, img |-> v]
      /\ \A i \in 1 .. Len(q) : r[i] = q[i]
  OBVIOUS
<1>2. \A i \in 1 .. Len(q) : q[i].sec = s /\ q[i].img \in {Blank, v}
  BY DEF Ends
<1>3. \A i \in 1 .. Len(r) : r[i].sec = s /\ r[i].img \in {Blank, v}
  BY <1>1, <1>2
<1>4. r[1].img = v => c \in {Blank, v}
  <2>1. CASE q = <<>>
    BY <2>1 DEF Ends
  <2>2. CASE q # <<>>
    <3>1. r[1] = q[1] /\ Len(q) >= 1
      BY <2>2, <1>1
    <3> QED  BY <3>1, <2>2 DEF Ends
  <2> QED  BY <2>1, <2>2
<1> QED  BY <1>1, <1>3, <1>4 DEF Ends

-----------------------------------------------------------------------------
(* The steps of a flush.                                                   *)

\* A step that touches neither the copies nor the flush.
LEMMA Stutter == Core /\ UNCHANGED coreVars => Core'
  BY DEF coreVars, Core, CoreType, Copies, BakStands, Phase, Fresh, Valid, Ends

\* A step that only moves on: the copies stay as they are.
LEMMA CopiesStay ==
    Copies /\ UNCHANGED <<flash, ram, on, next, saved>> => Copies'
  BY DEF Copies, Valid

\* An operation on the main sector, while the backup stands for it, ...
LEMMA ExecuteMain ==
    ASSUME Core, on = TRUE, UNCHANGED <<kept, is_update, state, burn, saved>>,
           state \in {"MAIN_ERASED", "MAIN_WRITE_PENDING", "MAIN_WRITTEN"},
           NEW d \in {Blank, burn}, flash' = [flash EXCEPT !["main"] = d],
           d = burn => state = "MAIN_WRITTEN",
           Ends(queue', d, "main", IF state = "MAIN_WRITTEN" THEN burn ELSE Blank)
    PROVE  Copies' /\ Phase' /\ Fresh'
<1> USE ContentAssumption DEF kept
<1>1. /\ CoreType /\ Copies /\ Phase /\ Fresh
      /\ flash'["main"] = d /\ flash'["bak"] = flash["bak"]
  BY DEF Core, CoreType, Sector
<1>2. burn \in Version /\ ram \in Version /\ saved \in Version /\ next \in Nat /\ Blank \notin Version
  BY <1>1, BoundAssumption DEF CoreType, Version
<1>3. BakStands /\ (d = burn => saved <= burn /\ burn <= ram /\ (Valid("bak") => flash["bak"] <= burn))
  BY <1>1 DEF Phase
<1>4. Valid("bak")' = Valid("bak") /\ (Valid("main")' => d = burn)
  BY <1>1, <1>2 DEF Valid
<1>5. Copies'
  BY <1>1, <1>2, <1>3, <1>4 DEF Copies, BakStands, Valid, Sector, Version
<1>6. Phase'
  BY <1>1, <1>3, <1>4 DEF Phase, BakStands, Valid
<1>7. Fresh'
  BY <1>1 DEF Fresh
<1> QED  BY <1>5, <1>6, <1>7

\* ... or on the backup, which the main sector stands for.
LEMMA ExecuteBak ==
    ASSUME Core, on = TRUE, UNCHANGED <<kept, is_update, state, burn, saved>>,
           state \in {"BAK_ERASED", "BAK_WRITE_PENDING", "BAK_WRITTEN"},
           NEW d \in {Blank, burn}, flash' = [flash EXCEPT !["bak"] = d],
           d = burn => flash["main"] = burn,
           Ends(queue', d, "bak", Blank) \/ Ends(queue', d, "bak", burn),
           state = "BAK_ERASED" => Ends(queue', d, "bak", Blank),
           state = "BAK_WRITTEN" => Ends(queue', d, "bak", burn)
    PROVE  Copies' /\ Phase' /\ Fresh'
<1> USE ContentAssumption DEF kept
<1>1. /\ CoreType /\ Copies /\ Phase /\ Fresh
      /\ flash'["bak"] = d /\ flash'["main"] = flash["main"]
  BY DEF Core, CoreType, Sector
<1>2. burn \in Version /\ ram \in Version /\ saved \in Version /\ next \in Nat /\ Blank \notin Version
  BY <1>1, BoundAssumption DEF CoreType, Version
<1>3. Valid("main") /\ (state # "BAK_ERASED" => flash["main"] = burn)
  BY <1>1, <1>2 DEF Phase, Valid
<1>4. Valid("main")' /\ (Valid("bak")' => d = burn)
  BY <1>1, <1>2, <1>3 DEF Valid
<1>5. Copies'
  BY <1>1, <1>2, <1>3, <1>4 DEF Copies, Valid, Sector, Version
<1>6. Phase'
  BY <1>1, <1>3, <1>4 DEF Phase, Valid
<1>7. Fresh'
  BY <1>1, <1>3, <1>4 DEF Fresh
<1> QED  BY <1>5, <1>6, <1>7

\* Whatever the state, the oldest operation of the queue leaves the invariant.
LEMMA ExecuteCore == Core /\ Execute /\ UNCHANGED <<kept, is_update, state, burn, saved>> => Core'
<1> SUFFICES ASSUME Core, Execute, UNCHANGED <<kept, is_update, state, burn, saved>>
             PROVE  Core'
  OBVIOUS
<1>1. /\ on = TRUE /\ queue # <<>> /\ queue \in Seq(Operation) /\ Phase /\ burn \in Version
      /\ queue' = Tail(queue) /\ state \in NvState
  BY DEF Core, CoreType, Execute
<1>2. ASSUME NEW s \in Sector, NEW v \in {Blank, burn}, Ends(queue, flash[s], s, v)
      PROVE  \E d \in {Blank, v} : Ends(queue', d, s, v) /\ flash' = [flash EXCEPT ![s] = d]
  <2>1. Head(queue).sec = s /\ Programmed(flash[s], Head(queue).img) \in {Blank, v}
        /\ Ends(Tail(queue), Programmed(flash[s], Head(queue).img), s, v)
    BY <1>1, <1>2, EndsExecute, ContentAssumption
  <2> QED  BY <2>1 DEF Execute
<1>3. (Copies /\ Phase /\ Fresh)' /\ flash' \in [Sector -> Image]
  <2>1. CASE state \in {"MAIN_ERASED", "MAIN_WRITE_PENDING"}
    <3>1. PICK d \in {Blank} : Ends(queue', d, "main", Blank) /\ flash' = [flash EXCEPT !["main"] = d]
      BY <2>1, <1>1, <1>2 DEF Phase, Sector
    <3>2. d \in {Blank, burn} /\ d # burn /\ state # "MAIN_WRITTEN"
      BY <2>1, <1>1, ContentAssumption, BoundAssumption DEF Version
    <3>3. (Copies /\ Phase /\ Fresh)'
      BY <2>1, <3>1, <3>2, <1>1, ExecuteMain
    <3> QED  BY <3>1, <3>3 DEF Core, CoreType, Image
  <2>2. CASE state = "MAIN_WRITTEN"
    <3>1. PICK d \in {Blank, burn} : Ends(queue', d, "main", burn) /\ flash' = [flash EXCEPT !["main"] = d]
      BY <2>2, <1>1, <1>2 DEF Phase, Sector
    <3> QED  BY <2>2, <3>1, <1>1, ExecuteMain DEF Core, CoreType, Image
  <2>3. CASE state \in {"BAK_ERASED", "BAK_WRITE_PENDING"} /\ Ends(queue, flash["bak"], "bak", Blank)
    <3>1. PICK d \in {Blank} : Ends(queue', d, "bak", Blank) /\ flash' = [flash EXCEPT !["bak"] = d]
      BY <2>3, <1>1, <1>2 DEF Sector
    <3>2. d \in {Blank, burn} /\ d # burn /\ state # "BAK_WRITTEN"
      BY <2>3, <3>1, <1>1, ContentAssumption, BoundAssumption DEF Version
    <3>3. (Copies /\ Phase /\ Fresh)'
      BY <2>3, <3>1, <3>2, <1>1, ExecuteBak
    <3> QED  BY <3>1, <3>3 DEF Core, CoreType, Image
  <2>4. CASE state \in {"BAK_WRITE_PENDING", "BAK_WRITTEN"} /\ Ends(queue, flash["bak"], "bak", burn)
    <3>1. PICK d \in {Blank, burn} : Ends(queue', d, "bak", burn) /\ flash' = [flash EXCEPT !["bak"] = d]
      BY <2>4, <1>1, <1>2 DEF Sector
    <3> QED  BY <2>4, <3>1, <1>1, ExecuteBak DEF Core, CoreType, Image, Phase
  <2> QED  BY <2>1, <2>2, <2>3, <2>4, <1>1 DEF NvState, Phase
<1>4. CoreType'
  BY <1>1, <1>3 DEF Core, CoreType, kept
<1> QED  BY <1>1, <1>3, <1>4 DEF Core, kept

\* norflash_api_erase or _write appends one operation.
LEMMA Queued ==
    ASSUME NEW s \in Sector, NEW v \in Version \cup {Blank}, queue \in Seq(Operation), Queue(s, v)
    PROVE  queue' = Append(queue, [sec |-> s, img |-> v]) /\ queue' \in Seq(Operation)
<1>1. [sec |-> s, img |-> v] \in Operation
  BY DEF Operation
<1>2. queue' = Append(queue, [sec |-> s, img |-> v])
  BY DEF Queue
<1> QED  BY <1>1, <1>2

\* The branches of the two flushes; the queue and the copies change in some.
LEMMA StepCore ==
    ASSUME Core, on = TRUE, UNCHANGED kept,
           \/ Common
           \/ state \in {"BAK_ERASED", "BAK_WRITTEN"} /\ ReadMain
           \/ BakDone
    PROVE  Core'
<1> USE ContentAssumption, BoundAssumption DEF kept
<1>1. /\ CoreType /\ Copies /\ Phase /\ Fresh
      /\ burn \in Version /\ ram \in Version /\ Blank \notin Version
      /\ queue \in Seq(Operation)
  BY DEF Core, CoreType, Version
<1>2. CASE EraseMain
  <2>1. queue = <<>> /\ BakStands /\ is_update = TRUE
    BY <1>1, <1>2 DEF EraseMain, Phase, Fresh, CoreType
  <2>2. Ends(queue', flash["main"], "main", Blank) /\ queue' \in Seq(Operation)
    <3>1. queue' = Append(queue, [sec |-> "main", img |-> Blank]) /\ queue' \in Seq(Operation)
      BY <1>1, <1>2, Queued DEF EraseMain, Sector
    <3> QED  BY <3>1, <2>1, EndsErase
  <2>3. Copies'
    BY <1>1, <1>2, CopiesStay DEF EraseMain, Queue
  <2> QED  BY <1>1, <1>2, <2>1, <2>2, <2>3
           DEF EraseMain, Queue, Core, CoreType, Phase, Fresh, BakStands, Valid, NvState
<1>3. CASE Snapshot
  <2>1. Copies'
    BY <1>1, <1>3, CopiesStay DEF Snapshot
  <2>2. saved <= ram /\ (Valid("bak") => flash["bak"] <= ram)
    BY <1>1 DEF Copies, Sector
  <2>3. CoreType'
    BY <1>1, <1>3 DEF Snapshot, CoreType, NvState
  <2>4. Phase'
    <3>1. Ends(queue, flash["main"], "main", Blank) /\ BakStands
      BY <1>1, <1>3 DEF Snapshot, Phase
    <3>2. state' = "MAIN_WRITE_PENDING" /\ UNCHANGED <<flash, queue, saved, ram>> /\ burn' = ram
      BY <1>3 DEF Snapshot
    <3>3. BakStands' /\ saved' <= burn' /\ burn' <= ram' /\ (Valid("bak")' => flash'["bak"] <= burn')
      BY <3>1, <3>2, <2>2, <1>1 DEF BakStands, Valid, Version
    <3> QED  BY <3>1, <3>2, <3>3 DEF Phase
  <2>5. Fresh'
    BY <1>1, <1>3 DEF Snapshot, Fresh
  <2> QED  BY <1>1, <1>3, <2>1, <2>3, <2>4, <2>5 DEF Snapshot, Core
<1>4. CASE WriteMain
  <2>1. Ends(queue', flash["main"], "main", burn) /\ queue' \in Seq(Operation)
    <3>1. queue' = Append(queue, [sec |-> "main", img |-> burn]) /\ queue' \in Seq(Operation)
      BY <1>1, <1>4, Queued DEF WriteMain, Sector
    <3>2. Ends(queue, flash["main"], "main", Blank) \/ Ends(queue, flash["main"], "main", burn)
      BY <1>1, <1>4 DEF WriteMain, Phase
    <3> QED  BY <3>1, <3>2, <1>1, EndsWrite
  <2>2. Copies'
    BY <1>1, <1>4, CopiesStay DEF WriteMain, Queue
  <2> QED  BY <1>1, <1>4, <2>1, <2>2
           DEF WriteMain, Queue, Core, CoreType, Phase, Fresh, BakStands, Valid, NvState
<1>5. CASE MainDone
  <2>1. flash["main"] = burn
    BY <1>1, <1>5 DEF MainDone, Phase, Ends
  <2>2. Copies'
    BY <1>1, <1>5, CopiesStay DEF MainDone
  <2> QED  BY <1>1, <1>5, <2>1, <2>2
           DEF MainDone, Core, CoreType, Phase, Fresh, BakStands, Valid, NvState
<1>6. CASE EraseBak
  <2>1. queue = <<>> /\ Valid("main")
    BY <1>1, <1>6 DEF EraseBak, Phase
  <2>2. Ends(queue', flash["bak"], "bak", Blank) /\ queue' \in Seq(Operation)
    <3>1. queue' = Append(queue, [sec |-> "bak", img |-> Blank]) /\ queue' \in Seq(Operation)
      BY <1>1, <1>6, Queued DEF EraseBak, Sector
    <3> QED  BY <3>1, <2>1, EndsErase
  <2>3. Copies'
    BY <1>1, <1>6, CopiesStay DEF EraseBak, Queue
  <2> QED  BY <1>1, <1>6, <2>1, <2>2, <2>3
           DEF EraseBak, Queue, Core, CoreType, Phase, Fresh, Valid, NvState
<1>7. CASE WriteBak
  <2>1. Ends(queue', flash["bak"], "bak", burn) /\ queue' \in Seq(Operation)
    <3>1. queue' = Append(queue, [sec |-> "bak", img |-> burn]) /\ queue' \in Seq(Operation)
      BY <1>1, <1>7, Queued DEF WriteBak, Sector
    <3>2. Ends(queue, flash["bak"], "bak", Blank) \/ Ends(queue, flash["bak"], "bak", burn)
      BY <1>1, <1>7 DEF WriteBak, Phase
    <3> QED  BY <3>1, <3>2, <1>1, EndsWrite
  <2>2. Copies'
    BY <1>1, <1>7, CopiesStay DEF WriteBak, Queue
  <2> QED  BY <1>1, <1>7, <2>1, <2>2
           DEF WriteBak, Queue, Core, CoreType, Phase, Fresh, Valid, NvState
<1>8. CASE state \in {"BAK_ERASED", "BAK_WRITTEN"} /\ ReadMain
  <2>1. \A i \in 1 .. Len(queue) : queue[i].sec = "bak"
    BY <1>1, <1>8 DEF Phase, Ends
  <2>2. burn' = flash["main"]
    BY <1>8, <2>1 DEF ReadMain, Read, NewestOf
  <2>3. Valid("main") /\ (state = "BAK_WRITTEN" => flash["main"] = burn)
    BY <1>1, <1>8 DEF Phase, Valid
  <2>4. Copies'
    BY <1>1, <1>8, CopiesStay DEF ReadMain
  <2> QED  BY <1>1, <1>8, <2>2, <2>3, <2>4
           DEF ReadMain, Core, CoreType, Phase, Fresh, Valid, NvState
<1>9. CASE BakDone
  <2>1. flash["main"] = burn /\ flash["bak"] = burn
    BY <1>1, <1>9 DEF BakDone, Phase, Ends
  <2>2. Copies'
    BY <1>1, <1>9, <2>1 DEF BakDone, Copies, Valid, Sector
  <2> QED  BY <1>1, <1>9, <2>1, <2>2
           DEF BakDone, Core, CoreType, Phase, Fresh, BakStands, Valid, NvState
<1> QED  BY <1>2, <1>3, <1>4, <1>5, <1>6, <1>7, <1>8, <1>9 DEF Common

\* One call of the asynchronous flush, whether it goes on or waits.
LEMMA AsyncCore == Core /\ Async /\ UNCHANGED kept => Core'
<1> SUFFICES ASSUME Core, Async, UNCHANGED kept  PROVE Core'
  OBVIOUS
<1>1. CASE AsyncProgress
  BY <1>1, StepCore DEF AsyncProgress, Core, CoreType
<1>2. CASE on /\ AsyncWaits
  <2>1. CASE Execute
    \* The state changes to one that has the same part of Phase.
    <3>1. state \notin {"IDLE", "MAIN_DONE"}
      BY <2>1 DEF Execute, Core, Phase, CoreType
    <3>2. UNCHANGED state
      BY <1>2, <3>1 DEF AsyncWaits
    <3> QED  BY <1>2, <2>1, <3>2, ExecuteCore DEF AsyncWaits
  <2>2. CASE UNCHANGED <<flash, queue>>
    <3>1. Copies'
      BY <1>2, <2>2, CopiesStay DEF AsyncWaits, Core, kept
    <3> QED  BY <1>2, <2>2, <3>1
             DEF AsyncWaits, Core, CoreType, Phase, Fresh, BakStands, Valid, NvState, kept
  <2> QED  BY <1>2, <2>1, <2>2 DEF AsyncWaits, FlushOnce
<1> QED  BY <1>1, <1>2 DEF Async

-----------------------------------------------------------------------------
(* The users, and the power.                                               *)

\* An update is newer than anything a flush has taken; is_update marks it.
LEMMA UserCore == Core /\ User => Core'
<1> SUFFICES ASSUME Core, User  PROVE Core'
  OBVIOUS
<1> USE BoundAssumption
<1>1. on = TRUE /\ CoreType /\ Copies /\ Phase /\ Fresh
  BY DEF User, Update, WriteRam, Touch, Core, CoreType
<1>2. UNCHANGED <<flash, queue, on, state, burn, wanted, saved>>
  BY DEF User, Update, WriteRam, Touch, flushVars
<1>3. /\ ram' \in Version /\ told' \in Version /\ next' \in 1 .. MaxVersion + 1
      /\ ram <= ram' /\ ram' < next' /\ next <= next'
      /\ told <= told' /\ told' <= ram'
  <2>1. /\ ram \in Version /\ told \in Version /\ next \in 1 .. MaxVersion + 1
        /\ ram < next /\ told <= ram
    BY <1>1 DEF CoreType, Copies, Fresh
  <2>2. \/ ram' = next /\ next' = next + 1 /\ next <= MaxVersion /\ (told' = next \/ told' = told)
        \/ ram' = ram /\ next' = next /\ told' = ram
    BY DEF User, Update, WriteRam, Touch
  <2> QED  BY <2>1, <2>2 DEF Version
<1>4. is_update' = TRUE \/ (is_update' = is_update /\ told' = told)
  BY DEF User, Update, WriteRam, Touch, flushVars
<1>5. is_update' \in BOOLEAN
  BY <1>1, <1>4 DEF CoreType
<1>6. CoreType'
  BY <1>1, <1>2, <1>3, <1>5 DEF CoreType
<1>7. Copies'
  BY <1>1, <1>2, <1>3 DEF Copies, CoreType, Valid, Version
<1>8. Phase'
  BY <1>1, <1>2, <1>3 DEF Phase, CoreType, BakStands, Valid, Version
<1>9. Fresh'
  <2>1. wanted' <= told' /\ told' <= ram'
    BY <1>1, <1>2, <1>3 DEF Fresh, CoreType, Version
  <2> QED  BY <2>1, <1>1, <1>2, <1>4 DEF Fresh, Valid
<1> QED  BY <1>1, <1>2, <1>6, <1>7, <1>8, <1>9 DEF Core

\* A cut tears the copy that is being replaced, if any, and never the other.
LEMMA CutCore == Core /\ PowerCut => Core'
<1> SUFFICES ASSUME Core, PowerCut  PROVE Core'
  OBVIOUS
<1> USE ContentAssumption, BoundAssumption
<1>1. on = TRUE /\ CoreType /\ Copies /\ Phase
  BY DEF PowerCut, Core, CoreType
<1>2. UNCHANGED <<ram, is_update, state, burn, next, told, wanted, saved>>
      /\ on' = FALSE /\ queue' = <<>> /\ queue' \in Seq(Operation)
  BY EmptySeq DEF PowerCut, flushVars
<1>3. CoreType' /\ Copies'
  <2>1. CASE UNCHANGED flash
    BY <1>1, <1>2, <2>1 DEF CoreType, Copies, Valid
  <2>2. CASE queue # <<>> /\ flash' = [flash EXCEPT ![Head(queue).sec] = Torn]
    <3>1. PICK v : \/ Ends(queue, flash["main"], "main", v) /\ BakStands
                   \/ Ends(queue, flash["bak"], "bak", v) /\ Valid("main")
      BY <1>1, <2>2 DEF Phase, CoreType, NvState, Valid
    <3>2. \/ Head(queue).sec = "main" /\ BakStands
          \/ Head(queue).sec = "bak" /\ Valid("main")
      BY <3>1, <2>2, <1>1, EndsExecute DEF CoreType
    <3>3. CoreType'
      BY <1>1, <1>2, <2>2, <3>2 DEF CoreType, Image, Sector
    <3>4. \A s \in Sector : Valid(s)' => Valid(s) /\ flash'[s] = flash[s]
      BY <1>1, <2>2, <3>2 DEF CoreType, Valid, Sector, Version
    <3>5. saved = 0 \/ Valid("main")' \/ Valid("bak")'
      BY <1>1, <2>2, <3>2 DEF CoreType, Valid, BakStands, Sector
    <3>6. Copies'
      BY <1>1, <1>2, <3>4, <3>5 DEF Copies, Sector
    <3> QED  BY <3>3, <3>6
  <2> QED  BY <2>1, <2>2 DEF PowerCut
<1> QED  BY <1>2, <1>3 DEF Core

\* The repair at boot begins with the copy that is not valid.
LEMMA BootCore == Core /\ PowerOn => Core'
<1> SUFFICES ASSUME Core, PowerOn  PROVE Core'
  OBVIOUS
<1> USE ContentAssumption, BoundAssumption
<1>1. on = FALSE /\ CoreType /\ Copies /\ queue = <<>>
  BY DEF PowerOn, Core, CoreType
<1>2. /\ UNCHANGED <<flash, queue, next, saved>> /\ on' = TRUE
      /\ ram' = Loadable /\ told' = Loadable /\ wanted' = Loadable /\ burn' = 0
      /\ is_update' = (~Valid("main") \/ ~Valid("bak"))
  BY DEF PowerOn
<1>3. /\ state' = "IDLE" \/ (state' = "MAIN_DONE" /\ Valid("main"))
      /\ state' = "IDLE" => Valid("bak") \/ ~Valid("main")
  BY DEF PowerOn, BootState
<1>4. /\ Loadable \in Version /\ Loadable < next /\ saved <= Loadable
      /\ \A s \in Sector : Valid(s) => flash[s] <= Loadable
      /\ Valid("main") => Loadable = flash["main"]
  BY <1>1 DEF Loadable, Valid, Copies, CoreType, Sector, Version
<1> HIDE DEF Loadable
<1>5. CoreType'
  BY <1>1, <1>2, <1>3, <1>4 DEF CoreType, NvState, Version
<1>6. Copies'
  BY <1>1, <1>2, <1>4 DEF Copies, Valid
<1>7. Phase'
  BY <1>1, <1>2, <1>3 DEF Phase, BakStands, Valid, Copies
<1>8. Fresh'
  <2>1. is_update' = FALSE => Valid("main")
    BY <1>2
  <2>2. is_update' = FALSE => Valid("main")' /\ told' <= flash'["main"]
    BY <2>1, <1>2, <1>4 DEF Valid, Version
  <2>3. wanted' <= told' /\ told' <= ram'
    BY <1>2, <1>4, Loadable \in Int DEF Version
  <2> QED  BY <2>2, <2>3, <1>3 DEF Fresh
<1> QED  BY <1>2, <1>5, <1>6, <1>7, <1>8 DEF Core

-----------------------------------------------------------------------------
(* The invariant.                                                          *)

\* The earbud starts unpowered, with blank copies.
LEMMA InitIInv == Init => IInv
<1> SUFFICES ASSUME Init  PROVE IInv
  OBVIOUS
<1> USE ContentAssumption, BoundAssumption
<1>1. CoreType
  <2>1. flash \in [Sector -> Image] /\ queue \in Seq(Operation)
    BY EmptySeq DEF Init, Image
  <2>2. /\ ram \in Version /\ burn \in Version /\ next \in 1 .. MaxVersion + 1
        /\ told \in Version /\ wanted \in Version /\ saved \in Version
    BY DEF Init, Version
  <2>3. on \in BOOLEAN /\ is_update \in BOOLEAN /\ state \in NvState
    BY Zenon DEF Init, NvState
  <2> QED  BY <2>1, <2>2, <2>3 DEF CoreType
<1>2. Copies
  BY DEF Init, Copies, Valid, Sector, Version
<1>3. EnvType
  <2>1. promised \in Version /\ cuts \in 0 .. MaxCuts
    BY DEF Init, Version
  <2>2. mail \in BOOLEAN /\ delay \in BOOLEAN /\ timer \in BOOLEAN
    BY Zenon DEF Init
  <2> QED  BY <2>1, <2>2 DEF Init, EnvType
<1>4. on = FALSE /\ queue = <<>>
  BY DEF Init
<1> QED  BY <1>1, <1>2, <1>3, <1>4 DEF IInv, Core, Init, Unpowered

\* The mutex, the thread of norflash_api and the observations keep their types.
LEMMA EnvTypeKept == IInv /\ [Next]_vars => EnvType'
<1> SUFFICES ASSUME IInv, [Next]_vars  PROVE EnvType'
  OBVIOUS
<1> USE BuildAssumption, BoundAssumption
<1>1. EnvType /\ CoreType
  BY DEF IInv, Core
<1>2. CASE User
  BY <1>1, <1>2 DEF User, Update, WriteRam, Touch, HookActivate, EnvType, taskVars
<1>3. CASE ApiFlush
  BY <1>1, <1>3 DEF ApiFlush, EnvType, taskVars, obsVars
<1>4. ASSUME Async  PROVE holder' \in {"none", "flush", "drain"} /\ mail' \in BOOLEAN
  BY <1>1, <1>4 DEF Async, AsyncProgress, AsyncWaits, Common, EraseMain, Snapshot, WriteMain,
     MainDone, EraseBak, ReadMain, WriteBak, BakDone, Queue, HookActivate, EnvType
<1>5. CASE AsyncFlush \/ IdleHook
  BY <1>1, <1>4, <1>5 DEF AsyncFlush, IdleHook, EnvType, taskVars, obsVars
<1>6. CASE TaskFlush
  BY <1>1, <1>4, <1>6 DEF TaskFlush, TaskGoesOn, EnvType, obsVars
<1>7. CASE TaskTake \/ TaskDelays \/ TaskEnters \/ TaskNothing
  BY <1>1, <1>7 DEF TaskTake, TaskDelays, TaskEnters, TaskNothing, TaskGoesOn, EnvType, obsVars
<1>8. CASE TimerExpires
  BY <1>1, <1>8 DEF TimerExpires, HookActivate, EnvType, obsVars
<1>9. CASE SyncBegin \/ SyncReturn
  BY <1>1, <1>9 DEF SyncBegin, SyncReturn, EnvType, CoreType, taskVars
<1>10. CASE SyncStep
  BY <1>1, <1>10 DEF SyncStep, Common, EraseMain, Snapshot, WriteMain, MainDone, EraseBak,
     ReadMain, WriteBak, BakDone, Queue, HookActivate, EnvType, taskVars, obsVars
<1>11. CASE PowerCut
  <2>1. cuts' \in 0 .. MaxCuts /\ promised' \in Version
    BY <1>1, <1>11 DEF PowerCut, EnvType
  <2>2. mail' \in BOOLEAN /\ delay' \in BOOLEAN /\ timer' \in BOOLEAN
    BY <1>11, Zenon DEF PowerCut
  <2> QED  BY <1>11, <2>1, <2>2 DEF PowerCut, EnvType
<1>13. CASE PowerOn
  <2>1. holder' \in {"none", "flush", "drain"}
    BY <1>13 DEF PowerOn
  <2> QED  BY <1>1, <1>13, <2>1 DEF PowerOn, EnvType, taskVars
<1>12. CASE UNCHANGED vars
  BY <1>1, <1>12 DEF vars, EnvType, taskVars, obsVars
<1> QED  BY <1>2, <1>3, <1>5, <1>6, <1>7, <1>8, <1>9, <1>10, <1>11, <1>12, <1>13
         DEF Next, Hook, Sync, Power

\* Only a cut turns the power off, and it takes the mutex from its holder.
LEMMA UnpoweredKept == IInv /\ [Next]_vars => Unpowered'
<1> SUFFICES ASSUME IInv, [Next]_vars  PROVE Unpowered'
  OBVIOUS
<1>1. CASE PowerCut
  BY <1>1 DEF PowerCut, Unpowered
<1>2. CASE PowerOn
  BY <1>2 DEF PowerOn, Unpowered
<1>3. CASE UNCHANGED vars
  BY <1>3 DEF vars, IInv, Unpowered
<1>4. CASE on = TRUE /\ UNCHANGED on
  BY <1>4 DEF Unpowered
<1>5. on = TRUE \/ on = FALSE
  BY DEF IInv, Core, CoreType
<1> QED  BY <1>1, <1>2, <1>3, <1>4, <1>5
         DEF Next, User, Update, WriteRam, Touch, ApiFlush, Execute, AsyncFlush, Async,
             AsyncProgress, Hook, IdleHook, TaskTake, TaskDelays, TaskEnters, TaskFlush,
             TaskNothing, TaskGoesOn, TimerExpires, Sync, SyncBegin, SyncStep, SyncReturn, Power

\* Every step, of whoever, keeps the copies, the phase and the freshness.
LEMMA CoreKept == Core /\ [Next]_vars => Core'
<1> SUFFICES ASSUME Core, [Next]_vars  PROVE Core'
  OBVIOUS
<1>1. CASE User
  BY <1>1, UserCore
<1>2. CASE ApiFlush
  BY <1>2, ExecuteCore DEF ApiFlush, kept, flushVars, obsVars
<1>3. CASE AsyncFlush \/ IdleHook \/ TaskFlush
  BY <1>3, AsyncCore DEF AsyncFlush, IdleHook, TaskFlush, TaskGoesOn, kept, obsVars
<1>4. CASE TaskTake \/ TaskDelays \/ TaskEnters \/ TaskNothing \/ TimerExpires \/ SyncReturn
  BY <1>4, Stutter DEF TaskTake, TaskDelays, TaskEnters, TaskNothing, TaskGoesOn, TimerExpires,
     SyncReturn, coreVars, flushVars, obsVars
<1>5. CASE SyncBegin
  <2>1. UNCHANGED <<flash, queue, on, ram, is_update, state, burn, next, told, saved>>
        /\ wanted' = told /\ on = TRUE
    BY <1>5 DEF SyncBegin, flushVars, Core, CoreType
  <2> QED  BY <2>1 DEF Core, CoreType, Copies, BakStands, Phase, Fresh, Valid, Version, Ends
<1>6. CASE SyncStep
  BY <1>6, StepCore DEF SyncStep, Core, CoreType, kept, obsVars
<1>7. CASE Power
  BY <1>7, CutCore, BootCore DEF Power
<1>8. CASE UNCHANGED vars
  BY <1>8, Stutter DEF vars, coreVars, flushVars, obsVars
<1> QED  BY <1>1, <1>2, <1>3, <1>4, <1>5, <1>6, <1>7, <1>8 DEF Next, Hook, Sync

\* Together: the invariant holds of every reachable state.
LEMMA Inductive == Spec => []IInv
<1>1. IInv /\ [Next]_vars => IInv'
  BY CoreKept, EnvTypeKept, UnpoweredKept DEF IInv
<1> QED  BY InitIInv, <1>1, PTL DEF Spec

-----------------------------------------------------------------------------
(* The theorems.                                                           *)

\* Every variable keeps its type; that the burn buffer always holds an image says
\* that the backup is never made from an invalid main sector.
THEOREM NvTypeCorrect == Spec => []TypeOK
<1>1. IInv => TypeOK
  BY DEF IInv, Core, CoreType, EnvType, TypeOK
<1> QED  BY Inductive, <1>1, PTL

\* However often and wherever the power is cut, what boots is at least as new as
\* what was last flushed to both sectors (the order main first, backup after the
\* wait in nv_record_extension_flush).
THEOREM FlushedSurvives == Spec => []FlushedIsDurable
<1>1. IInv => FlushedIsDurable
  BY ContentAssumption, BoundAssumption
     DEF IInv, Core, CoreType, Copies, FlushedIsDurable, Loadable, Valid, Sector, Version
<1> QED  BY Inductive, <1>1, PTL

\* When the flush rests, the main sector has every update that set is_update: the
\* flag is cleared with the copy of the image, under the same lock.
THEOREM NothingForgotten == Spec => []QuietMeansSaved
<1>1. IInv => QuietMeansSaved
  BY DEF IInv, Core, CoreType, Phase, Fresh, QuietMeansSaved, Finished
<1> QED  BY Inductive, <1>1, PTL

\* nv_record_flash_flush returns with everything updated before it in the main
\* sector, in whatever state it found the asynchronous flush.
THEOREM SyncFlushSaves == Spec => SyncSaves
<1> DEFINE Returned == holder # "none" /\ holder' = "none" /\ on'
                         => Valid("main") /\ flash["main"] >= wanted
<1>1. IInv /\ [Next]_vars => Returned
  <2> SUFFICES ASSUME IInv, [Next]_vars, holder # "none", holder' = "none", on'
               PROVE  Valid("main") /\ flash["main"] >= wanted
    OBVIOUS
  <2>1. CASE SyncReturn
    BY <2>1 DEF SyncReturn, Finished, IInv, Core, CoreType, Fresh, Valid, Version
  <2>2. CASE UNCHANGED holder
    BY <2>2
  <2>3. ~SyncStep
    BY DEF SyncStep, Common, EraseMain, Snapshot, WriteMain, MainDone, EraseBak, ReadMain,
       WriteBak, BakDone
  <2>4. ~PowerCut /\ ~SyncBegin
    BY DEF PowerCut, SyncBegin
  <2>5. ~PowerOn
    BY DEF PowerOn, IInv, Core, CoreType, Unpowered
  <2>6. ~Async
    BY DEF Async, AsyncProgress
  <2> QED  BY <2>1, <2>2, <2>3, <2>4, <2>5, <2>6
           DEF Next, User, Update, WriteRam, Touch, ApiFlush, AsyncFlush, Hook, IdleHook, TaskTake,
               TaskDelays, TaskEnters, TaskFlush, TaskNothing, TimerExpires, Sync, Power, vars
<1> QED  BY Inductive, <1>1, PTL DEF Spec, SyncSaves
==============================================================================
