------------------------------ MODULE NvRecord -------------------------------
(***************************************************************************)
(* services/nv_section/userdata_section/nvrecord_extension.c: the user     *)
(* data of the earbud (pairings, volumes, roles), one image in RAM and two *)
(* copies in flash, the main sector and its backup.                        *)
(*                                                                         *)
(* A flush erases and writes the main sector, waits until the flash queue  *)
(* has executed both, and only then does the same with the backup.  The    *)
(* asynchronous flush takes one step of this per call: threads call it, and *)
(* so does the idle task or, in the build with several flash devices, the  *)
(* thread of norflash_api.  The synchronous one, which a thread calls to   *)
(* be sure, does all of it under the same mutex and may find the           *)
(* asynchronous one half way.  Power may be cut at any moment.             *)
(*                                                                         *)
(* An image is known by its version, the number of updates that led to it; *)
(* its CRC tells it from anything else a sector may hold.  The operations  *)
(* go through the flash queue of NorflashApi, which executes those of one  *)
(* module in order and is here always allowed to.                          *)
(***************************************************************************)
EXTENDS Integers, Sequences

CONSTANTS
    MULTI_FLASH,  \* is USE_MULTI_FLASH defined?
    MaxVersion,   \* bound on the updates of the RAM image
    MaxCuts,      \* bound on the power cuts
    Blank,        \* content of an erased sector
    Torn          \* content of a sector that is neither blank nor valid

ASSUME BuildAssumption == MULTI_FLASH \in BOOLEAN
ASSUME BoundAssumption == MaxVersion \in Nat /\ MaxCuts \in Nat
ASSUME ContentAssumption == Blank \notin Nat /\ Torn \notin Nat /\ Blank # Torn

Version == 0 .. MaxVersion   \* 0 is the default image, nv_record_set_default
Sector  == {"main", "bak"}
Image   == Version \cup {Blank, Torn}
NvState == {"IDLE", "MAIN_ERASING", "MAIN_ERASED", "MAIN_WRITE_PENDING",
            "MAIN_WRITTEN", "MAIN_DONE", "BAK_ERASING", "BAK_ERASED",
            "BAK_WRITE_PENDING", "BAK_WRITTEN"}

\* An operation of the flash queue: to write an image, or Blank to erase.
Operation == [sec : Sector, img : Version \cup {Blank}]

VARIABLES
    flash,      \* content of the two sectors
    queue,      \* the user-data module's operations in the flash queue
    on,         \* the earbud is powered and booted
    ram,        \* version of the RAM image, nvrecord_extension_p
    is_update,  \* nv_flush_state.is_update
    state,      \* nv_flush_state.state
    burn,       \* version in _nv_burn_buf
    holder,     \* the synchronous flush that holds the mutex, if any: it is
                \* in its steps ("flush") or in its last wait ("drain")
    \* The thread of norflash_api, with MULTI_FLASH.
    mail,       \* a message of norflash_api_hook_activate waits for it
    task,       \* it waits, is to run the hook, or is in the flush of the hook
    delay,      \* flush_is_delay of nv_norflash_async_flush_check
    timer,      \* debouce_timer is running
    \* Observations.
    next,       \* version of the next update
    told,       \* newest version whose update has set is_update
    wanted,     \* what `told` was when the synchronous flush began
    promised,   \* newest `wanted` of a synchronous flush that returned
    saved,      \* version of the last flush that went through both sectors
    cuts        \* power cuts so far

flushVars == <<is_update, state, burn>>
taskVars  == <<task, delay, timer>>
obsVars   == <<next, told, wanted, promised, cuts>>
vars == <<flash, queue, on, ram, flushVars, holder, mail, taskVars, obsVars, saved>>

Valid(s) == flash[s] \in Version

\* The version that nv_record_extension_init finds: nv_record_data_is_valid
\* of the main sector, else of the backup, else the default.
Loadable == IF Valid("main") THEN flash["main"]
            ELSE IF Valid("bak") THEN flash["bak"] ELSE 0

Init ==
    /\ flash = [s \in Sector |-> Blank]
    /\ queue = <<>>
    /\ on = FALSE /\ ram = 0
    /\ is_update = FALSE /\ state = "IDLE" /\ burn = 0
    /\ holder = "none"
    /\ mail = FALSE /\ task = "wait" /\ delay = FALSE /\ timer = FALSE
    /\ next = 1 /\ told = 0 /\ wanted = 0 /\ promised = 0 /\ saved = 0 /\ cuts = 0

-----------------------------------------------------------------------------
(* The flash queue.                                                        *)

\* Programming clears bits only: over anything but a blank sector, or the same
\* image, the result is no image.
Programmed(old, img) == IF img = Blank \/ old \in {Blank, img} THEN img ELSE Torn

\* norflash_api_flush, by whatever caller, executes the oldest operation.
Execute ==
    /\ on /\ queue # <<>>
    /\ flash' = [flash EXCEPT ![Head(queue).sec] = Programmed(@, Head(queue).img)]
    /\ queue' = Tail(queue)

ApiFlush == Execute /\ UNCHANGED <<on, ram, flushVars, holder, mail, taskVars, obsVars, saved>>

\* The call of norflash_api_flush in a flush that found the pools full or its
\* operations pending: it executes an operation of this module or of another.
FlushOnce == Execute \/ UNCHANGED <<flash, queue>>

\* norflash_api_hook_activate; of two messages that wait one is enough.
HookActivate == mail' = (mail \/ MULTI_FLASH)

\* norflash_api_erase and norflash_api_write that return NORFLASH_API_OK.
Queue(s, img) ==
    /\ queue' = Append(queue, [sec |-> s, img |-> img])
    /\ HookActivate
    /\ UNCHANGED flash

\* norflash_api_read.
NewestOf(s) == {i \in 1 .. Len(queue) :
                  queue[i].sec = s /\ \A j \in i + 1 .. Len(queue) : queue[j].sec # s}
Read(s) == IF NewestOf(s) = {} THEN flash[s] ELSE queue[CHOOSE i \in NewestOf(s) : TRUE].img

-----------------------------------------------------------------------------
(* Users of the data.                                                      *)

\* Most change the RAM image and set is_update under one interrupt lock ...
Update ==
    /\ on /\ next <= MaxVersion
    /\ ram' = next /\ is_update' = TRUE /\ told' = next /\ next' = next + 1
    /\ HookActivate
    /\ UNCHANGED <<flash, queue, on, state, burn, holder, taskVars, wanted, promised,
                   saved, cuts>>

\* ... and some call nv_record_update_runtime_userdata after the lock.  (When
\* nothing has changed, that is an Update whose image is the same.)
WriteRam ==
    /\ on /\ next <= MaxVersion
    /\ ram' = next /\ next' = next + 1
    /\ UNCHANGED <<flash, queue, on, flushVars, holder, mail, taskVars, told, wanted,
                   promised, saved, cuts>>
Touch ==
    /\ on /\ told # ram
    /\ is_update' = TRUE /\ told' = ram
    /\ HookActivate
    /\ UNCHANGED <<flash, queue, on, ram, state, burn, holder, taskVars, next, wanted,
                   promised, saved, cuts>>

-----------------------------------------------------------------------------
(* The steps of nv_record_extension_flush, one for each branch of          *)
(* nv_record_extension_flush_main and _bak.                                *)

\* The branch may not get a node or a buffer: NORFLASH_API_BUFFER_FULL.
EraseMain ==
    /\ (state = "IDLE" /\ is_update) \/ state = "MAIN_ERASING"
    /\ Queue("main", Blank)
    /\ state' = "MAIN_ERASED"
    /\ UNCHANGED <<is_update, burn, holder, saved>>

\* Under the interrupt lock: the image is copied and the flag is cleared.
Snapshot ==
    /\ state = "MAIN_ERASED"
    /\ burn' = ram /\ is_update' = FALSE
    /\ state' = "MAIN_WRITE_PENDING"
    /\ UNCHANGED <<flash, queue, mail, holder, saved>>

WriteMain ==
    /\ state = "MAIN_WRITE_PENDING"
    /\ Queue("main", burn)
    /\ state' = "MAIN_WRITTEN"
    /\ UNCHANGED <<is_update, burn, holder, saved>>

MainDone ==
    /\ state = "MAIN_WRITTEN" /\ queue = <<>>
    /\ state' = "MAIN_DONE"
    /\ UNCHANGED <<flash, queue, mail, is_update, burn, holder, saved>>

EraseBak ==
    /\ state \in {"MAIN_DONE", "BAK_ERASING"}
    /\ Queue("bak", Blank)
    /\ state' = "BAK_ERASED"
    /\ UNCHANGED <<is_update, burn, holder, saved>>

\* The backup is a copy of the main sector, not of RAM.
ReadMain ==
    /\ burn' = Read("main")
    /\ state' = "BAK_WRITE_PENDING"
    /\ UNCHANGED <<flash, queue, mail, is_update, holder, saved>>

\* After its write the synchronous flush goes on to its last wait.
WriteBak ==
    /\ state = "BAK_WRITE_PENDING"
    /\ Queue("bak", burn)
    /\ state' = "BAK_WRITTEN"
    /\ holder' = IF holder = "flush" THEN "drain" ELSE holder
    /\ UNCHANGED <<is_update, burn, saved>>

BakDoneClears ==  \* mutant: the flag is cleared when the flush ends
    /\ state = "BAK_WRITTEN" /\ queue = <<>>
    /\ state' = "IDLE" /\ saved' = burn /\ is_update' = FALSE
    /\ holder' = IF holder = "drain" THEN "flush" ELSE holder
    /\ UNCHANGED <<flash, queue, mail, burn>>
BakDone ==
    /\ state = "BAK_WRITTEN" /\ queue = <<>>
    /\ state' = "IDLE" /\ saved' = burn
    /\ holder' = IF holder = "drain" THEN "flush" ELSE holder
    /\ UNCHANGED <<flash, queue, mail, is_update, burn>>

Common == EraseMain \/ Snapshot \/ WriteMain \/ MainDone \/ EraseBak \/ WriteBak

-----------------------------------------------------------------------------
(* The asynchronous flush: one branch per call.                            *)

\* It found no room, or its operations are still pending, and flushes once.
AsyncWaits ==
    /\ \/ state = "IDLE" /\ is_update /\ state' = "MAIN_ERASING"
       \/ state = "MAIN_DONE" /\ state' = "BAK_ERASING"
       \/ /\ state \in {"MAIN_ERASING", "MAIN_WRITE_PENDING", "BAK_ERASING", "BAK_WRITE_PENDING"}
          /\ UNCHANGED state
       \/ state \in {"MAIN_WRITTEN", "BAK_WRITTEN"} /\ queue # <<>> /\ UNCHANGED state
    /\ FlushOnce
    /\ UNCHANGED <<is_update, burn, holder, mail, saved>>

AsyncProgress ==
    /\ on /\ holder = "none"
    /\ Common \/ (state = "BAK_ERASED" /\ ReadMain) \/ BakDone
Async == AsyncProgress \/ (on /\ holder = "none" /\ AsyncWaits)

\* nv_record_execute_async_flush, from a thread.
AsyncFlush == Async /\ UNCHANGED <<on, ram, taskVars, obsVars>>

-----------------------------------------------------------------------------
(* The hook, nv_record_flash_flush_in_sleep.                               *)

\* With one flash device the idle task runs it, with interrupts locked.  The
\* RTOS refuses to start a timer then, so nothing delays the flush, and to wait
\* for a mutex: no synchronous flush is under way, as that never blocks.
IdleHook == ~MULTI_FLASH /\ Async /\ UNCHANGED <<on, ram, taskVars, obsVars>>
IdleProgress == ~MULTI_FLASH /\ AsyncProgress /\ UNCHANGED <<on, ram, taskVars, obsVars>>

\* With several it is run by the thread of norflash_api, which a message wakes
\* and which goes on until nothing is pending.
TaskTake ==
    /\ on /\ task = "wait" /\ mail
    /\ task' = "hook" /\ mail' = FALSE
    /\ UNCHANGED <<flash, queue, on, ram, flushVars, holder, delay, timer, obsVars, saved>>

\* When a flush would begin, a timer that every such call restarts must have run
\* out; the state is read before the mutex is taken.
DebouncedNever == state # "IDLE"  \* mutant: the expiry is not reported
Debounced == state # "IDLE" \/ (delay /\ ~timer)
TaskDelays ==
    /\ on /\ task = "hook" /\ ~Debounced
    /\ delay' = TRUE /\ timer' = TRUE
    /\ task' = IF queue = <<>> THEN "wait" ELSE "hook"
    /\ UNCHANGED <<flash, queue, on, ram, flushVars, holder, mail, obsVars, saved>>
TaskEnters ==
    /\ on /\ task = "hook" /\ Debounced
    /\ task' = "flush" /\ delay' = (delay /\ state # "IDLE")
    /\ UNCHANGED <<flash, queue, on, ram, flushVars, holder, mail, timer, obsVars, saved>>

TaskGoesOn ==
    /\ task = "flush"
    /\ task' = IF state' # "IDLE" \/ is_update' \/ queue' # <<>> THEN "hook" ELSE "wait"
    /\ UNCHANGED <<on, ram, delay, timer, obsVars>>
TaskFlush == Async /\ TaskGoesOn
TaskProgress == AsyncProgress /\ TaskGoesOn
TaskNothing ==
    /\ on /\ holder = "none" /\ state = "IDLE" /\ ~is_update
    /\ UNCHANGED <<flash, queue, flushVars, holder, mail, saved>>
    /\ TaskGoesOn

\* async_flush_confirm_timer_callback
TimerExpires ==
    /\ on /\ timer
    /\ timer' = FALSE /\ HookActivate
    /\ UNCHANGED <<flash, queue, on, ram, flushVars, holder, task, delay, obsVars, saved>>

-----------------------------------------------------------------------------
(* The synchronous flush: nv_record_flash_flush holds the mutex until       *)
(* nothing is left to do.  Its retries after NORFLASH_API_BUFFER_FULL and   *)
(* its waits are steps of ApiFlush.                                        *)

SyncBegin ==
    /\ on /\ holder = "none"
    /\ holder' = "flush" /\ wanted' = told
    /\ UNCHANGED <<flash, queue, on, ram, flushVars, mail, taskVars, next, told,
                   promised, saved, cuts>>

\* It does again the backup that an asynchronous flush has written and not
\* waited for.
SyncStep ==
    /\ on /\ holder # "none"
    /\ \/ holder = "flush" /\ Common
       \/ holder = "flush" /\ state \in {"BAK_ERASED", "BAK_WRITTEN"} /\ ReadMain
       \/ holder = "drain" /\ BakDone
    /\ UNCHANGED <<on, ram, taskVars, obsVars>>

FinishedIdle == state = "IDLE"  \* mutant: the flag is not looked at
Finished == state = "IDLE" /\ ~is_update
SyncReturn ==
    /\ on /\ holder = "flush" /\ Finished
    /\ holder' = "none"
    /\ promised' = IF wanted > promised THEN wanted ELSE promised
    /\ UNCHANGED <<flash, queue, on, ram, flushVars, mail, taskVars, next, told, wanted,
                   cuts, saved>>

-----------------------------------------------------------------------------
(* Power.                                                                  *)

\* Whatever was queued is lost; the operation at the head may have begun.
PowerCut ==
    /\ on /\ cuts < MaxCuts
    /\ on' = FALSE /\ queue' = <<>> /\ holder' = "none" /\ cuts' = cuts + 1
    /\ mail' = FALSE /\ task' = "wait" /\ delay' = FALSE /\ timer' = FALSE
    /\ \/ UNCHANGED flash
       \/ /\ queue # <<>> /\ flash[Head(queue).sec] # Head(queue).img
          /\ flash' = [flash EXCEPT ![Head(queue).sec] = Torn]
    /\ UNCHANGED <<ram, flushVars, next, told, wanted, promised, saved>>

\* nv_record_extension_init: an invalid copy is repaired by a synchronous
\* flush, which begins with the backup when the main sector is good.
BootStateIdle == "IDLE"       \* mutant: the only valid copy is erased first
BootState == IF Valid("main") /\ ~Valid("bak") THEN "MAIN_DONE" ELSE "IDLE"
PowerOn ==
    /\ ~on
    /\ on' = TRUE
    /\ ram' = Loadable /\ told' = Loadable /\ wanted' = Loadable
    /\ is_update' = (~Valid("main") \/ ~Valid("bak"))
    /\ state' = IF is_update' THEN BootState ELSE "IDLE"
    /\ burn' = 0
    /\ holder' = IF is_update' THEN "flush" ELSE "none"
    /\ UNCHANGED <<flash, queue, mail, taskVars, next, promised, saved, cuts>>

-----------------------------------------------------------------------------
User == Update \/ WriteRam \/ Touch
Hook == \/ IdleHook
        \/ TaskTake \/ TaskDelays \/ TaskEnters \/ TaskFlush \/ TaskNothing
Sync == SyncBegin \/ SyncStep \/ SyncReturn
Power == PowerCut \/ PowerOn
Next == User \/ ApiFlush \/ AsyncFlush \/ Hook \/ TimerExpires \/ Sync \/ Power
Spec == Init /\ [][Next]_vars

\* The idle task runs again and again, or the thread of norflash_api gets the
\* processor and, between synchronous flushes, the mutex; the flash queue drains,
\* so a retry finds room; threads go on; the earbud is switched on.
Fairness ==
    /\ WF_vars(PowerOn) /\ WF_vars(Touch) /\ WF_vars(ApiFlush) /\ WF_vars(TimerExpires)
    /\ SF_vars(IdleProgress) /\ SF_vars(TaskProgress) /\ SF_vars(TaskNothing)
    /\ WF_vars(TaskTake) /\ WF_vars(TaskDelays) /\ WF_vars(TaskEnters)
    /\ WF_vars(SyncStep) /\ WF_vars(SyncReturn)
FairSpec == Spec /\ Fairness

-----------------------------------------------------------------------------
(* Properties.                                                             *)

\* The type invariant.  That burn is a version says that the backup is never
\* made from an invalid main sector.
TypeOK ==
    /\ flash \in [Sector -> Image]
    /\ queue \in Seq(Operation)
    /\ on \in BOOLEAN
    /\ ram \in Version /\ burn \in Version
    /\ is_update \in BOOLEAN
    /\ state \in NvState
    /\ holder \in {"none", "flush", "drain"}
    /\ mail \in BOOLEAN /\ task \in {"wait", "hook", "flush"}
    /\ delay \in BOOLEAN /\ timer \in BOOLEAN
    /\ next \in 1 .. MaxVersion + 1
    /\ told \in Version /\ wanted \in Version /\ promised \in Version /\ saved \in Version
    /\ cuts \in 0 .. MaxCuts

\* Wherever the power is cut, now and again during the repair, what boots is at
\* least as new as what was last flushed to both sectors.
FlushedIsDurable == Loadable >= saved

\* When the flush rests, the newest update that set the flag is in the main
\* sector: none was lost to a flush that was on its way.
QuietMeansSaved ==
    on /\ Finished => queue = <<>> /\ Valid("main") /\ flash["main"] >= told

\* A synchronous flush returns with everything updated before it in the main
\* sector, also when it found an older image half written.
SyncSaves ==
    [][holder # "none" /\ holder' = "none" /\ on'
         => Valid("main") /\ flash["main"] >= wanted]_vars

\* "flush the hotword info to flash": what a synchronous flush was called for
\* survives the power cuts that come after it returned.
FlushSurvives == Loadable >= promised

\* Whatever is cut and whoever flushes, the RAM image reaches the main sector
\* once updates and cuts end.
EventuallySaved == <>[](on /\ state = "IDLE" /\ flash["main"] = ram)
==============================================================================
