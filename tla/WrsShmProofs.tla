---------------------------- MODULE WrsShmProofs ----------------------------
(***************************************************************************)
(* Proofs about WrsShm: type correctness, and the consistency of what      *)
(* wrs_shm_seqretry() accepts when the writer's threads exclude each       *)
(* other, for every area, every number of readers and every bound.         *)
(***************************************************************************)
EXTENDS WrsShm, TLAPS

-----------------------------------------------------------------------------
(* Arithmetic of the sequence number                                       *)

\* Adding two to the unsigned sequence number leaves it in range, and while
\* the number cannot come round it is an ordinary addition.
LEMMA AdvanceRange ==
    ASSUME NEW s \in 0 .. SeqMod - 1
    PROVE  /\ Advance(s) \in 0 .. SeqMod - 1
           /\ s + 2 < SeqMod => Advance(s) = s + 2
  BY ShmNoWrap DEF Advance

\* Setting and clearing the lock bit keep the number in range.
LEMMA LockRange ==
    ASSUME NEW s \in 0 .. SeqMod - 1
    PROVE  /\ SetLock(s) \in 0 .. SeqMod - 1
           /\ ClearLock(s) \in 0 .. SeqMod - 1
  BY ShmNoWrap DEF SetLock, ClearLock, Locked

-----------------------------------------------------------------------------
\* The initial state is well typed.
LEMMA InitType == Init => TypeOK
<1> SUFFICES ASSUME Init PROVE TypeOK
  OBVIOUS
<1>1. 0 \in 0 .. SeqMod - 1 /\ 0 \in 0 .. MaxRestarts + 1
      /\ 0 \in 0 .. MaxSections /\ 0 \in 0 .. MaxTries
  BY ShmWriter, ShmNoWrap
<1>2. [w \in Words |-> Zero] \in Images
  BY ShmData DEF Images
<1>3. QED
  BY <1>1, <1>2 DEF Init, TypeOK

\* Every step keeps the types, whether or not the threads of the writer
\* exclude each other.
LEMMA TypeStep == ASSUME TypeOK, [Next]_vars PROVE TypeOK'
<1> USE ShmData, ShmWriter, ShmNoWrap DEF TypeOK, Images
<1>1. ASSUME NEW t \in Threads, Get(t) PROVE TypeOK'
  BY <1>1 DEF Get, readerVars
<1>2. ASSUME NEW t \in Threads, BeginAdvance(t) PROVE TypeOK'
  BY <1>2, AdvanceRange DEF BeginAdvance, readerVars
<1>3. ASSUME NEW t \in Threads, BeginLock(t) PROVE TypeOK'
  BY <1>3, LockRange DEF BeginLock, readerVars
<1>4. ASSUME NEW t \in Threads, NEW w \in Words, NEW v \in Values, Store(t, w, v)
      PROVE  TypeOK'
  BY <1>4 DEF Store, readerVars
<1>5. ASSUME NEW t \in Threads, EndAdvance(t) PROVE TypeOK'
  BY <1>5, AdvanceRange DEF EndAdvance, readerVars
<1>6. ASSUME NEW t \in Threads, EndUnlock(t) PROVE TypeOK'
  BY <1>6, LockRange DEF EndUnlock, readerVars
<1>7. CASE Crash
  BY <1>7 DEF Crash, readerVars
<1>8. ASSUME NEW r \in Readers, Open(r) PROVE TypeOK'
  BY <1>8 DEF Open, writerVars
<1>9. ASSUME NEW r \in Readers, Call(r) PROVE TypeOK'
  BY <1>9 DEF Call, writerVars
<1>10. ASSUME NEW r \in Readers, SeqBegin(r) PROVE TypeOK'
  BY <1>10 DEF SeqBegin, writerVars
<1>11. ASSUME NEW r \in Readers, NEW w \in Words, CopyWord(r, w) PROVE TypeOK'
  BY <1>11 DEF CopyWord, writerVars
<1>12. ASSUME NEW r \in Readers, GiveUp(r) PROVE TypeOK'
  BY <1>12 DEF GiveUp, writerVars
<1>13. ASSUME NEW r \in Readers, Accept(r) PROVE TypeOK'
  BY <1>13 DEF Accept, writerVars
<1>14. ASSUME NEW r \in Readers, TryAgain(r) PROVE TypeOK'
  BY <1>14 DEF TryAgain, Exhausted, writerVars
<1>15. CASE UNCHANGED vars
  BY <1>15 DEF vars
<1>16. QED
  BY <1>1, <1>2, <1>3, <1>4, <1>5, <1>6, <1>7, <1>8, <1>9, <1>10, <1>11,
   <1>12, <1>13, <1>14, <1>15 DEF Next, Write, Read

\* The variables of the model keep their types, whatever the writer's threads do.
THEOREM TypeCorrect == Spec => []TypeOK
<1>1. Init => TypeOK
  BY InitType
<1>2. TypeOK /\ [Next]_vars => TypeOK'
  BY TypeStep
<1>3. QED
  BY <1>1, <1>2, PTL DEF Spec

-----------------------------------------------------------------------------
(* The inductive invariant.  A section moves the number through            *)
(* 4k (between the stores of BEGIN), 4k + 1 (inside), 4k + 3 (between the  *)
(* stores of END) and 4k + 2 (at rest), where k counts the sections of     *)
(* this run of the writer.  The number is not monotone, so what a reader   *)
(* can know of an even start is stated against k.                          *)

PhaseInv ==
    /\ \A t, u \in Threads : wpc[t] # "out" /\ wpc[u] # "out" => t = u
    /\ sequence \in 4 * sections .. 4 * sections + 3
    /\ \A t \in Threads :
          /\ wpc[t] # "out" => alive
          /\ wpc[t] = "begin" => sequence = 4 * sections
          /\ wpc[t] = "in" => sequence = 4 * sections + 1
          /\ wpc[t] = "end" => sequence = 4 * sections + 3
    /\ alive /\ (\A t \in Threads : wpc[t] = "out") => sequence = 4 * sections + 2

\* An area that is not locked holds the published image.
RestInv == ~Locked(sequence) => mem = published

EvenStartBound(r) ==
    \/ start[r] <= 4 * sections
    \/ start[r] = 4 * sections + 2 /\ sequence = start[r]

ReaderInv ==
    \A r \in Readers :
        /\ epoch[r] <= pidsequence
        /\ epoch[r] = pidsequence /\ ~Locked(start[r]) => EvenStartBound(r)
        /\ rpc[r] = "copy" /\ epoch[r] = pidsequence /\ ~SeqRetry(start[r])
              => \A w \in copied[r] : local[r][w] = mem[w]

ShmInv == TypeOK /\ PhaseInv /\ RestInv /\ ReaderInv

\* The strengthened invariant holds when nothing has been opened yet.
LEMMA ShmInvInit == Init => ShmInv
<1> SUFFICES ASSUME Init PROVE ShmInv
  OBVIOUS
<1>1. TypeOK
  BY InitType
<1>2. PhaseInv
  BY DEF Init, PhaseInv
<1>3. RestInv
  BY DEF Init, RestInv
<1>4. ReaderInv
  BY DEF Init, ReaderInv, EvenStartBound
<1>5. QED
  BY <1>1, <1>2, <1>3, <1>4 DEF ShmInv

\* The writer moves the phase, and only the writer.
LEMMA PhaseStep ==
    ASSUME Serialized, ShmInv, [Next]_vars
    PROVE  PhaseInv'
<1> USE ShmNoWrap, ShmWriter DEF ShmInv, PhaseInv, TypeOK
<1>1. ASSUME NEW t \in Threads, Get(t) PROVE PhaseInv'
  BY <1>1 DEF Get
<1>2. ASSUME NEW t \in Threads, BeginAdvance(t) PROVE PhaseInv'
  <2>1. sequence = 4 * sections + 2 /\ sequence + 2 < SeqMod
    BY <1>2 DEF BeginAdvance
  <2>2. sequence' = 4 * sections' /\ sections' = sections + 1
    BY <1>2, <2>1, AdvanceRange DEF BeginAdvance
  <2>3. alive' /\ wpc' = [wpc EXCEPT ![t] = "begin"]
        /\ \A u \in Threads : wpc[u] = "out"
    BY <1>2 DEF BeginAdvance
  <2>4. QED
    BY <2>2, <2>3
<1>3. ASSUME NEW t \in Threads, BeginLock(t) PROVE PhaseInv'
  <2>1. sequence' = 4 * sections + 1
    BY <1>3 DEF BeginLock, SetLock, Locked
  <2>2. QED
    BY <1>3, <2>1 DEF BeginLock
<1>4. ASSUME NEW t \in Threads, NEW w \in Words, NEW v \in Values, Store(t, w, v)
      PROVE  PhaseInv'
  BY <1>4 DEF Store
<1>5. ASSUME NEW t \in Threads, EndAdvance(t) PROVE PhaseInv'
  <2>1. sequence = 4 * sections + 1 /\ sequence + 2 < SeqMod
    BY <1>5 DEF EndAdvance
  <2>2. sequence' = 4 * sections + 3
    BY <1>5, <2>1, AdvanceRange DEF EndAdvance
  <2>3. QED
    BY <1>5, <2>2 DEF EndAdvance
<1>6. ASSUME NEW t \in Threads, EndUnlock(t) PROVE PhaseInv'
  <2>1. sequence' = 4 * sections + 2
    BY <1>6 DEF EndUnlock, ClearLock, Locked
  <2>2. QED
    BY <1>6, <2>1 DEF EndUnlock
<1>7. CASE Crash
  BY <1>7 DEF Crash
<1>8. CASE UNCHANGED writerVars
  BY <1>8 DEF writerVars
<1>9. QED
  BY <1>1, <1>2, <1>3, <1>4, <1>5, <1>6, <1>7, <1>8
  DEF Next, Write, Read, vars, writerVars,
      Open, Call, SeqBegin, CopyWord, GiveUp, Accept, TryAgain

\* Data only change where the sequence number is odd.
LEMMA RestStep ==
    ASSUME Serialized, ShmInv, [Next]_vars
    PROVE  RestInv'
<1> USE ShmNoWrap, ShmWriter DEF ShmInv, PhaseInv, RestInv, TypeOK, Locked
<1>1. ASSUME NEW t \in Threads, Get(t) PROVE RestInv'
  BY <1>1 DEF Get
<1>2. ASSUME NEW t \in Threads, BeginAdvance(t) PROVE RestInv'
  <2>1. ~Locked(sequence)
    BY <1>2 DEF BeginAdvance
  <2>2. QED
    BY <1>2, <2>1 DEF BeginAdvance
<1>3. ASSUME NEW t \in Threads, BeginLock(t) PROVE RestInv'
  BY <1>3 DEF BeginLock, SetLock
<1>4. ASSUME NEW t \in Threads, NEW w \in Words, NEW v \in Values, Store(t, w, v)
      PROVE  RestInv'
  <2>1. Locked(sequence) /\ sequence' = sequence
    BY <1>4 DEF Store
  <2>2. QED
    BY <2>1
<1>5. ASSUME NEW t \in Threads, EndAdvance(t) PROVE RestInv'
  <2>1. Locked(sequence')
    BY <1>5, AdvanceRange DEF EndAdvance
  <2>2. QED
    BY <2>1
<1>6. ASSUME NEW t \in Threads, EndUnlock(t) PROVE RestInv'
  BY <1>6 DEF EndUnlock
<1>7. CASE Crash
  BY <1>7 DEF Crash
<1>8. CASE UNCHANGED writerVars
  BY <1>8 DEF writerVars
<1>9. QED
  BY <1>1, <1>2, <1>3, <1>4, <1>5, <1>6, <1>7, <1>8
  DEF Next, Write, Read, vars, writerVars,
      Open, Call, SeqBegin, CopyWord, GiveUp, Accept, TryAgain

\* What a reader knows of its even start, and of the words it has copied.
LEMMA ReaderStep ==
    ASSUME Serialized, ShmInv, [Next]_vars
    PROVE  ReaderInv'
<1> USE ShmNoWrap, ShmWriter DEF ShmInv, PhaseInv, TypeOK, EvenStartBound
<1>1. ASSUME NEW t \in Threads, Get(t) PROVE ReaderInv'
  BY <1>1 DEF Get, readerVars, ReaderInv
<1>2. ASSUME NEW t \in Threads, BeginAdvance(t) PROVE ReaderInv'
  <2>1. sequence = 4 * sections + 2 /\ sequence + 2 < SeqMod
    BY <1>2 DEF BeginAdvance
  <2>2. sequence' = 4 * sections' /\ sections' = sections + 1
    BY <1>2, <2>1, AdvanceRange DEF BeginAdvance
  <2>3. pidsequence' = pidsequence /\ UNCHANGED readerVars
    BY <1>2 DEF BeginAdvance
  <2>4. QED
    BY <2>1, <2>2, <2>3 DEF readerVars, ReaderInv, SeqRetry, Locked
<1>3. ASSUME NEW t \in Threads, BeginLock(t) PROVE ReaderInv'
  <2>1. sequence = 4 * sections /\ sequence' = 4 * sections + 1
    BY <1>3 DEF BeginLock, SetLock, Locked
  <2>2. pidsequence' = pidsequence /\ sections' = sections /\ UNCHANGED readerVars
    BY <1>3 DEF BeginLock
  <2>3. QED
    BY <2>1, <2>2 DEF readerVars, ReaderInv, SeqRetry, Locked
<1>4. ASSUME NEW t \in Threads, NEW w \in Words, NEW v \in Values, Store(t, w, v)
      PROVE  ReaderInv'
  <2>1. sequence = 4 * sections + 1 /\ sequence' = sequence
    BY <1>4 DEF Store
  <2>2. pidsequence' = pidsequence /\ sections' = sections /\ UNCHANGED readerVars
    BY <1>4 DEF Store
  <2>3. QED
    BY <2>1, <2>2 DEF readerVars, ReaderInv, SeqRetry, Locked
<1>5. ASSUME NEW t \in Threads, EndAdvance(t) PROVE ReaderInv'
  <2>1. sequence = 4 * sections + 1 /\ sequence + 2 < SeqMod
    BY <1>5 DEF EndAdvance
  <2>2. sequence' = 4 * sections + 3
    BY <1>5, <2>1, AdvanceRange DEF EndAdvance
  <2>3. pidsequence' = pidsequence /\ sections' = sections /\ UNCHANGED readerVars
    BY <1>5 DEF EndAdvance
  <2>4. QED
    BY <2>1, <2>2, <2>3 DEF readerVars, ReaderInv, SeqRetry, Locked
<1>6. ASSUME NEW t \in Threads, EndUnlock(t) PROVE ReaderInv'
  <2>1. sequence = 4 * sections + 3 /\ sequence' = 4 * sections + 2
    BY <1>6 DEF EndUnlock, ClearLock, Locked
  <2>2. pidsequence' = pidsequence /\ sections' = sections /\ UNCHANGED readerVars
    BY <1>6 DEF EndUnlock
  <2>3. QED
    BY <2>1, <2>2 DEF readerVars, ReaderInv, SeqRetry, Locked
<1>7. CASE Crash
  BY <1>7 DEF Crash, readerVars, ReaderInv, SeqRetry
<1>8. ASSUME NEW q \in Readers, SeqBegin(q) PROVE ReaderInv'
  <2>1. ~Locked(sequence) => sequence = 4 * sections \/ sequence = 4 * sections + 2
    BY DEF Locked
  <2>2. QED
    BY <1>8, <2>1 DEF SeqBegin, writerVars, ReaderInv, SeqRetry
<1>9. ASSUME NEW q \in Readers, NEW w \in Words, CopyWord(q, w) PROVE ReaderInv'
  BY <1>9 DEF CopyWord, writerVars, ReaderInv, SeqRetry, Images
<1>10. ASSUME NEW q \in Readers, Open(q) \/ Call(q) \/ GiveUp(q) \/ Accept(q) \/ TryAgain(q)
       PROVE  ReaderInv'
  BY <1>10 DEF Open, Call, GiveUp, Accept, TryAgain, writerVars, ReaderInv, SeqRetry
<1>11. CASE UNCHANGED vars
  BY <1>11 DEF vars, ReaderInv, SeqRetry
<1>12. QED
  BY <1>1, <1>2, <1>3, <1>4, <1>5, <1>6, <1>7, <1>8, <1>9, <1>10, <1>11
  DEF Next, Write, Read

\* ShmInv holds in every state of a writer whose threads exclude each other.
THEOREM ShmInvariant ==
    ASSUME Serialized
    PROVE  Spec => []ShmInv
<1>1. Init => ShmInv
  BY ShmInvInit
<1>2. ShmInv /\ [Next]_vars => ShmInv'
  BY TypeStep, PhaseStep, RestStep, ReaderStep DEF ShmInv
<1>3. QED
  BY <1>1, <1>2, PTL DEF Spec

-----------------------------------------------------------------------------
\* The core of the seqlock: in a state of ShmInv, a complete copy that
\* wrs_shm_seqretry() lets through is the published image.
LEMMA AcceptedCopy ==
    ASSUME ShmInv, NEW r \in Readers, Accept(r), epoch[r] = pidsequence
    PROVE  local[r] = published
<1>1. \A w \in Words : local[r][w] = mem[w]
  BY DEF ShmInv, ReaderInv, Accept
<1>2. local[r] = mem
  <2>1. local[r] \in [Words -> Values] /\ mem \in [Words -> Values]
    BY DEF ShmInv, TypeOK, Images
  <2>2. QED
    BY <1>1, <2>1
<1>3. mem = published
  BY DEF ShmInv, RestInv, Accept, SeqRetry
<1>4. QED
  BY <1>2, <1>3

\* What a reader accepts is the image published last, whole, for any number
\* of words, readers, sections, crashes and restarts, provided the writer's
\* threads exclude each other and it was not restarted during the copy.
THEOREM Consistency ==
    ASSUME Serialized
    PROVE  Spec => AcceptedIsPublished
<1>1. ShmInv /\ [Next]_vars =>
         [\A r \in Readers :
             Accept(r) /\ epoch[r] = pidsequence => local[r] = published]_vars
  BY AcceptedCopy
<1>2. QED
  BY <1>1, ShmInvariant, PTL DEF Spec, AcceptedIsPublished

-----------------------------------------------------------------------------
(* Refinement of ShmSnapshot                                               *)

\* A result belongs to a call that has returned.
CallInv == \A r \in Readers : result[r] = "ok" => rpc[r] = "idle"

\* Every step keeps CallInv.
LEMMA CallStep == ASSUME TypeOK, CallInv, [Next]_vars PROVE CallInv'
<1> USE DEF TypeOK, CallInv
<1>1. ASSUME NEW t \in Threads, Get(t) \/ Write(t) PROVE CallInv'
  <2>1. UNCHANGED readerVars
    BY <1>1 DEF Get, Write, BeginAdvance, BeginLock, Store, EndAdvance, EndUnlock
  <2>2. QED
    BY <2>1 DEF readerVars
<1>2. CASE Crash
  BY <1>2 DEF Crash, readerVars
<1>3. ASSUME NEW r \in Readers, Open(r) PROVE CallInv'
  BY <1>3 DEF Open
<1>4. ASSUME NEW r \in Readers, Call(r) PROVE CallInv'
  BY <1>4 DEF Call
<1>5. ASSUME NEW r \in Readers, Read(r) PROVE CallInv'
  BY <1>5 DEF Read, SeqBegin, CopyWord, GiveUp, Accept, TryAgain
<1>6. CASE UNCHANGED vars
  BY <1>6 DEF vars
<1>7. QED
  BY <1>1, <1>2, <1>3, <1>4, <1>5, <1>6 DEF Next

\* One step of the area, seen by its readers: a step of ShmSnapshot or none.
\* A restart of the writer makes every reader forget.
LEMMA SnapshotStep ==
    ASSUME ShmInv, CallInv, [Next]_vars
    PROVE  [Snap!Next]_<<published, Obtained>>
<1> USE DEF ShmInv, TypeOK, CallInv
<1>1. ASSUME NEW t \in Threads, Get(t) PROVE Snap!Forget
  <2>1. /\ pidsequence' = pidsequence + 1
        /\ UNCHANGED <<published, result, epoch>>
    BY <1>1 DEF Get, readerVars
  <2>2. \A r \in Readers : epoch'[r] # pidsequence'
    BY <2>1 DEF ReaderInv
  <2>3. Obtained' = [r \in Readers |-> IF r \in Readers THEN NoImage ELSE Obtained[r]]
    BY <2>2 DEF Obtained
  <2>4. QED
    BY <2>1, <2>3 DEF Snap!Forget
<1>2. ASSUME NEW t \in Threads, Write(t), ~EndUnlock(t)
      PROVE  UNCHANGED <<published, Obtained>>
  BY <1>2 DEF Write, BeginAdvance, BeginLock, Store, EndAdvance, readerVars, Obtained
<1>3. ASSUME NEW t \in Threads, EndUnlock(t) PROVE Snap!Publish
  BY <1>3 DEF EndUnlock, readerVars, Obtained, Snap!Publish, Snap!Images, Images
<1>4. CASE Crash
  BY <1>4 DEF Crash, readerVars, Obtained
<1>5. ASSUME NEW r \in Readers,
             Open(r) \/ SeqBegin(r) \/ (\E w \in Words : CopyWord(r, w)) \/ TryAgain(r)
      PROVE  UNCHANGED <<published, Obtained>>
  <2>1. UNCHANGED <<published, pidsequence, result>>
    BY <1>5 DEF Open, SeqBegin, CopyWord, TryAgain, writerVars
  <2>2. \A q \in Readers : result[q] = "ok" => local'[q] = local[q] /\ epoch'[q] = epoch[q]
    BY <1>5 DEF Open, SeqBegin, CopyWord, TryAgain
  <2>3. QED
    BY <2>1, <2>2 DEF Obtained
<1>6. ASSUME NEW r \in Readers, Call(r) \/ GiveUp(r) PROVE Snap!Forget
  <2>1. result'[r] # "ok" /\ UNCHANGED <<local, epoch>>
    BY <1>6 DEF Call, GiveUp
  <2>2. \A q \in Readers \ {r} : result'[q] = result[q]
    BY <1>6 DEF Call, GiveUp
  <2>3. UNCHANGED <<published, pidsequence>>
    BY <1>6 DEF Call, GiveUp, writerVars
  <2>4. Obtained' = [q \in Readers |-> IF q \in {r} THEN NoImage ELSE Obtained[q]]
    BY <2>1, <2>2, <2>3 DEF Obtained
  <2>5. QED
    BY <2>3, <2>4 DEF Snap!Forget
<1>7. ASSUME NEW r \in Readers, Accept(r)
      PROVE  Snap!Obtain(r) \/ UNCHANGED <<published, Obtained>>
  <2>1. /\ result' = [result EXCEPT ![r] = "ok"]
        /\ UNCHANGED <<local, epoch, published, pidsequence>>
    BY <1>7 DEF Accept, writerVars
  <2>2. CASE epoch[r] = pidsequence
    <3>1. local[r] = published
      BY <1>7, <2>2, AcceptedCopy
    <3>2. QED
      BY <2>1, <2>2, <3>1 DEF Obtained, Snap!Obtain
  <2>3. CASE epoch[r] # pidsequence
    BY <2>1, <2>3 DEF Obtained
  <2>4. QED
    BY <2>2, <2>3
<1>8. CASE UNCHANGED vars
  BY <1>8 DEF vars, Obtained
<1>9. QED
  BY <1>1, <1>2, <1>3, <1>4, <1>5, <1>6, <1>7, <1>8 DEF Next, Read, Snap!Next

\* Every behaviour of an area whose writer serialises its threads is, for its
\* readers, a behaviour of whole images; a reader that was in its copy when
\* the writer was restarted has obtained nothing.
THEOREM Refinement ==
    ASSUME Serialized
    PROVE  Spec => SnapshotSpec
<1>1. Init => Snap!Init
  BY InitType DEF Init, TypeOK, Snap!Init, Snap!Images, Images, Obtained
<1>2. Init => CallInv
  BY DEF Init, CallInv
<1>3. CallInv /\ TypeOK /\ [Next]_vars => CallInv'
  BY CallStep
<1>4. ShmInv /\ CallInv /\ [Next]_vars => [Snap!Next]_<<published, Obtained>>
  BY SnapshotStep
<1>5. QED
  BY <1>1, <1>2, <1>3, <1>4, TypeCorrect, ShmInvariant, PTL
  DEF Spec, SnapshotSpec, Snap!Spec
=============================================================================
