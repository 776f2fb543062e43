------------------------------- MODULE WrsShm -------------------------------
(***************************************************************************)
(* A shared memory area of userspace/libwr/shmem.c: one writer process     *)
(* (the HAL, the RTU daemon, ...) brackets its updates with                *)
(* wrs_shm_write(BEGIN) and wrs_shm_write(END), and reader processes copy  *)
(* the area between wrs_shm_seqbegin() and wrs_shm_seqretry(), as          *)
(* read_ports() of the RTU daemon does.  The sequence number is the only   *)
(* thing the two sides share besides the data.                             *)
(*                                                                         *)
(* The switch has one CPU and shmem.c is a separate compilation unit, so   *)
(* stores become visible in program order; every store to the sequence     *)
(* number is a step of its own.                                            *)
(***************************************************************************)
EXTENDS Integers, FiniteSets

CONSTANTS
    Words,        \* words of the area
    Values,       \* what a word can hold
    Zero,         \* the value memset() leaves
    Readers,      \* processes that copy the area
    Threads,      \* threads of the writer process
    Serialized,   \* TRUE iff the writer's threads exclude each other
    SeqMod,       \* 2^32 in the code: head->sequence is an unsigned
    MaxSections,  \* bound: write sections of one run of the writer process
    MaxRestarts,  \* bound: restarts of the writer process
    MaxTries,     \* retries > 100 in read_ports()
    NoImage

ASSUME ShmData == /\ Zero \in Values
                  /\ NoImage \notin [Words -> Values]
ASSUME ShmWriter == /\ Serialized \in BOOLEAN
                    /\ MaxSections \in Nat
                    /\ MaxRestarts \in Nat
                    /\ MaxTries \in Nat
\* The sequence number does not come round within one run of the writer.
ASSUME ShmNoWrap == /\ SeqMod \in Nat
                    /\ SeqMod > 4 * MaxSections + 8
                    /\ SeqMod % 2 = 0

VARIABLES
    sequence,     \* head->sequence
    pidsequence,  \* head->pidsequence: how often the area was opened for writing
    alive,        \* the process head->pid exists
    mem,          \* the data of the area
    wpc,          \* [Threads -> where the thread is]
    sections,     \* write sections begun by this run of the writer
    rpc,          \* [Readers -> where the reader is]
    start,        \* [Readers -> result of wrs_shm_seqbegin]
    copied,       \* [Readers -> words already copied]
    local,        \* [Readers -> the reader's local copy]
    tries,        \* [Readers -> retries]
    result,       \* [Readers -> how read_ports() returned]
    published,    \* history: the image at the last END
    epoch         \* history: pidsequence when the reader called seqbegin

writerVars == <<sequence, pidsequence, alive, mem, wpc, sections, published>>
readerVars == <<rpc, start, copied, local, tries, result, epoch>>
vars == <<sequence, pidsequence, alive, mem, wpc, sections, published,
          rpc, start, copied, local, tries, result, epoch>>

Images == [Words -> Values]

-----------------------------------------------------------------------------
(* The sequence number                                                     *)

\* head->sequence += 2 on an unsigned
Advance(s) == IF s + 2 < SeqMod THEN s + 2 ELSE s + 2 - SeqMod
Locked(s) == s % 2 = 1                            \* s & WRS_SHM_LOCK_MASK
SetLock(s) == IF Locked(s) THEN s ELSE s + 1      \* s |= WRS_SHM_LOCK_MASK
ClearLock(s) == IF Locked(s) THEN s - 1 ELSE s    \* s &= ~WRS_SHM_LOCK_MASK

\* Faults: a retry that looks at one half of the rule only.
SeqRetry_IgnoresLock(st) == sequence # st
SeqRetry_OnlyLock(st) == Locked(st)

\* wrs_shm_seqretry(): an odd start, or a number that has moved, is refused
SeqRetry(st) == Locked(st) \/ sequence # st

-----------------------------------------------------------------------------
Init ==
    /\ sequence = 0
    /\ pidsequence = 0
    /\ alive = FALSE
    /\ mem = [w \in Words |-> Zero]
    /\ wpc = [t \in Threads |-> "out"]
    /\ sections = 0
    /\ published = [w \in Words |-> Zero]
    /\ rpc = [r \in Readers |-> "closed"]
    /\ start = [r \in Readers |-> 0]
    /\ copied = [r \in Readers |-> {}]
    /\ local = [r \in Readers |-> [w \in Words |-> Zero]]
    /\ tries = [r \in Readers |-> 0]
    /\ result = [r \in Readers |-> "none"]
    /\ epoch = [r \in Readers |-> 0]

\* wrs_shm_get(WRITE | LOCKED) by thread t of a new writer process: refused
\* with EBUSY while the process in head->pid exists.  The area stays locked
\* (sequence = 1) while the process fills it, until its first END.
Get(t) ==
    /\ ~alive
    /\ pidsequence <= MaxRestarts
    /\ alive' = TRUE
    /\ sequence' = 1
    /\ pidsequence' = pidsequence + 1
    /\ wpc' = [u \in Threads |-> IF u = t THEN "in" ELSE "out"]
    /\ sections' = 0
    /\ UNCHANGED <<mem, published>>
    /\ UNCHANGED readerVars

\* wrs_shm_write(BEGIN), first store: sequence += 2.  The process starts its
\* other threads once the first END has released the area.
BeginAdvance(t) ==
    /\ alive
    /\ wpc[t] = "out"
    /\ Serialized \/ sections = 0 => \A u \in Threads : wpc[u] = "out"
    /\ sections < MaxSections
    /\ sections' = sections + 1
    /\ sequence' = Advance(sequence)
    /\ wpc' = [wpc EXCEPT ![t] = "begin"]
    /\ UNCHANGED <<pidsequence, alive, mem, published>>
    /\ UNCHANGED readerVars

\* wrs_shm_write(BEGIN), second store: sequence |= LOCK_MASK.  An area that
\* is locked already is only reported with pr_error.
BeginLock(t) ==
    /\ wpc[t] = "begin"
    /\ sequence' = SetLock(sequence)
    /\ wpc' = [wpc EXCEPT ![t] = "in"]
    /\ UNCHANGED <<pidsequence, alive, mem, sections, published>>
    /\ UNCHANGED readerVars

\* The writer changes one word of the area inside a section.
Store(t, w, v) ==
    /\ wpc[t] = "in"
    /\ mem' = [mem EXCEPT ![w] = v]
    /\ UNCHANGED <<sequence, pidsequence, alive, wpc, sections, published>>
    /\ UNCHANGED readerVars

\* wrs_shm_write(END), first store.
EndAdvance(t) ==
    /\ wpc[t] = "in"
    /\ sequence' = Advance(sequence)
    /\ wpc' = [wpc EXCEPT ![t] = "end"]
    /\ UNCHANGED <<pidsequence, alive, mem, sections, published>>
    /\ UNCHANGED readerVars

\* wrs_shm_write(END), second store: the area is readable again.
EndUnlock(t) ==
    /\ wpc[t] = "end"
    /\ sequence' = ClearLock(sequence)
    /\ wpc' = [wpc EXCEPT ![t] = "out"]
    /\ published' = mem
    /\ UNCHANGED <<pidsequence, alive, mem, sections>>
    /\ UNCHANGED readerVars

\* The writer process dies, possibly inside a section.
Crash ==
    /\ alive
    /\ alive' = FALSE
    /\ wpc' = [t \in Threads |-> "out"]
    /\ UNCHANGED <<sequence, pidsequence, mem, sections, published>>
    /\ UNCHANGED readerVars

-----------------------------------------------------------------------------
\* wrs_shm_get_and_check(): waits for a live writer, then for an even
\* sequence number with a version behind it.
Open(r) ==
    /\ rpc[r] = "closed"
    /\ alive
    /\ ~Locked(sequence)
    /\ rpc' = [rpc EXCEPT ![r] = "idle"]
    /\ UNCHANGED <<start, copied, local, tries, result, epoch>>
    /\ UNCHANGED writerVars

\* wrs_shm_seqbegin(), at the head of the retry loop.
SeqBegin(r) ==
    /\ rpc[r] = "begin"
    /\ start' = [start EXCEPT ![r] = sequence]
    /\ epoch' = [epoch EXCEPT ![r] = pidsequence]
    /\ copied' = [copied EXCEPT ![r] = {}]
    /\ rpc' = [rpc EXCEPT ![r] = "copy"]
    /\ UNCHANGED <<local, tries, result>>
    /\ UNCHANGED writerVars

\* read_ports() is called.
Call(r) ==
    /\ rpc[r] = "idle"
    /\ rpc' = [rpc EXCEPT ![r] = "begin"]
    /\ tries' = [tries EXCEPT ![r] = 0]
    /\ result' = [result EXCEPT ![r] = "none"]
    /\ UNCHANGED <<start, copied, local, epoch>>
    /\ UNCHANGED writerVars

\* memcpy() moves one word.
CopyWord(r, w) ==
    /\ rpc[r] = "copy"
    /\ w \notin copied[r]
    /\ local' = [local EXCEPT ![r][w] = mem[w]]
    /\ copied' = [copied EXCEPT ![r] = @ \cup {w}]
    /\ UNCHANGED <<rpc, start, tries, result, epoch>>
    /\ UNCHANGED writerVars

\* retries++, and -1 is returned once there have been too many.
Exhausted_Late(r) == tries[r] > MaxTries        \* fault: they are compared before the count
Exhausted(r) == tries[r] + 1 > MaxTries

GiveUp(r) ==
    /\ rpc[r] = "copy"
    /\ copied[r] = Words
    /\ Exhausted(r)
    /\ rpc' = [rpc EXCEPT ![r] = "idle"]
    /\ result' = [result EXCEPT ![r] = "failed"]
    /\ UNCHANGED <<start, copied, local, tries, epoch>>
    /\ UNCHANGED writerVars

Accept(r) ==
    /\ rpc[r] = "copy"
    /\ copied[r] = Words
    /\ ~Exhausted(r)
    /\ ~SeqRetry(start[r])
    /\ rpc' = [rpc EXCEPT ![r] = "idle"]
    /\ result' = [result EXCEPT ![r] = "ok"]
    /\ UNCHANGED <<start, copied, local, tries, epoch>>
    /\ UNCHANGED writerVars

\* Fault: the retries are not counted.
TryAgain_NotCounted(r) ==
    /\ rpc[r] = "copy"
    /\ copied[r] = Words
    /\ ~Exhausted(r)
    /\ SeqRetry(start[r])
    /\ rpc' = [rpc EXCEPT ![r] = "begin"]
    /\ UNCHANGED <<start, copied, local, tries, result, epoch>>
    /\ UNCHANGED writerVars

TryAgain(r) ==
    /\ rpc[r] = "copy"
    /\ copied[r] = Words
    /\ ~Exhausted(r)
    /\ SeqRetry(start[r])
    /\ tries' = [tries EXCEPT ![r] = @ + 1]
    /\ rpc' = [rpc EXCEPT ![r] = "begin"]
    /\ UNCHANGED <<start, copied, local, result, epoch>>
    /\ UNCHANGED writerVars

-----------------------------------------------------------------------------
Write(t) ==
    \/ BeginAdvance(t)
    \/ BeginLock(t)
    \/ \E w \in Words, v \in Values : Store(t, w, v)
    \/ EndAdvance(t)
    \/ EndUnlock(t)

Read(r) ==
    \/ SeqBegin(r)
    \/ \E w \in Words : CopyWord(r, w)
    \/ GiveUp(r)
    \/ Accept(r)
    \/ TryAgain(r)

Next ==
    \/ \E t \in Threads : Get(t) \/ Write(t)
    \/ Crash
    \/ \E r \in Readers : Open(r) \/ Call(r) \/ Read(r)

Spec == Init /\ [][Next]_vars

\* A reader that has entered the loop keeps running; nothing is asked of the
\* writer, which may be dead.
FairSpec == Spec /\ \A r \in Readers : WF_vars(Read(r))

-----------------------------------------------------------------------------
(* Properties                                                              *)

\* Every variable stays in its range: the arithmetic on head->sequence keeps it
\* an unsigned number, and read_ports() never counts beyond its limit.
TypeOK ==
    /\ sequence \in 0 .. SeqMod - 1
    /\ pidsequence \in 0 .. MaxRestarts + 1
    /\ alive \in BOOLEAN
    /\ mem \in Images
    /\ published \in Images
    /\ wpc \in [Threads -> {"out", "begin", "in", "end"}]
    /\ sections \in 0 .. MaxSections
    /\ rpc \in [Readers -> {"closed", "idle", "begin", "copy"}]
    /\ start \in [Readers -> 0 .. SeqMod - 1]
    /\ copied \in [Readers -> SUBSET Words]
    /\ local \in [Readers -> Images]
    /\ tries \in [Readers -> 0 .. MaxTries]
    /\ result \in [Readers -> {"none", "ok", "failed"}]
    /\ epoch \in [Readers -> 0 .. MaxRestarts + 1]

\* A copy that wrs_shm_seqretry() lets through is the image the writer
\* published last, whole, whatever the writer did meanwhile and wherever it
\* died, as long as the writer was not restarted during the copy.
AcceptedIsPublished ==
    [][\A r \in Readers :
          Accept(r) /\ epoch[r] = pidsequence => local[r] = published]_vars

\* The same without the proviso on restarts: what shmem.c says of the
\* sequence number ("in the <linux/seqlock.h> way").
AcceptedIsPublishedAlways ==
    [][\A r \in Readers : Accept(r) => local[r] = published]_vars

\* rtud.c: "read data, with the sequential lock to have all data consistent".
\* What read_ports() leaves in the local copy, which its callers use without
\* a look at the result, is an image the writer published.
ReturnedIsPublished ==
    [][\A r \in Readers : Accept(r) \/ GiveUp(r) => local[r] = published]_vars

\* A reader is never trapped in the retry loop, even by a writer that died
\* inside a section and left the sequence number odd.
ReaderReturns ==
    \A r \in Readers : rpc[r] \in {"begin", "copy"} ~> rpc[r] = "idle"

\* What a reader has obtained: nothing, once the writer was restarted after its
\* copy began.
Obtained ==
    [r \in Readers |->
        IF result[r] = "ok" /\ epoch[r] = pidsequence THEN local[r] ELSE NoImage]

Snap == INSTANCE ShmSnapshot WITH area <- published, obtained <- Obtained

\* The area with its sequence number implements the promise of ShmSnapshot: what
\* read_ports() returns 0 for is as good as one step that copies the whole area.
SnapshotSpec == Snap!Spec
=============================================================================
