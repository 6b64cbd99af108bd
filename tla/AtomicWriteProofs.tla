------------------------- MODULE AtomicWriteProofs -------------------------
(***************************************************************************)
(* For any number of writers of one target, in any order of their steps,   *)
(* whatever is refused and whenever a process dies or the power goes: no   *)
(* reader ever sees part of a file, what a call reported as written stays  *)
(* where the flush of a directory reaches the medium (not on Darwin), a    *)
(* call that returned left no temporary file it could have removed, and a  *)
(* write is one step (OneFile).                                            *)
(***************************************************************************)
EXTENDS AtomicWrite, SequenceTheorems, TLAPS

\* The program counters of a writer that has not renamed its file, and of one that may have.
Before == {"parent", "create", "write", "rest", "flush", "rename"}
After == {"flushdir", "cleanup", "ok", "err", "dead"}

\* Every byte is there, for a reader now and for one after a power loss.
Safe(i) == bytes[i] = "full" /\ bytesOnMedium[i] = {"full"}

\* Order matters: the bytes are whole before they are flushed, and flushed before the name changes.
FlushedFirst ==
    \A w \in Writers : /\ pc[w] = "flush" => bytes[w] = "full"
                       /\ pc[w] = "rename" => Safe(w)

\* Whatever the name may lead to, now or after a power loss, is whole, and nobody writes to it again.
Whole ==
    /\ entry \in entryOnMedium
    /\ \A e \in entryOnMedium \ {None} : Safe(e) /\ (e \in Writers => pc[e] \in After)

\* While a writer is about to flush the directory, no power loss came since it took the name: the
\* name is the last one's, and the writer is in the history.
InOrder ==
    \A w \in Writers : pc[w] = "flushdir" =>
        /\ \E n \in DOMAIN renamed : renamed[n] = w
        /\ entry = renamed[Len(renamed)]

\* What a call reported as written, or what replaced it later, is all a power loss can bring back, on a
\* system whose flush of a directory lasts.
Kept ==
    \A w \in Writers : \A n \in DOMAIN renamed :
        reach = "medium" /\ pc[w] = "ok" /\ renamed[n] = w =>
            \A e \in entryOnMedium : e = w \/ \E m \in DOMAIN renamed : m > n /\ e = renamed[m]

\* The history names every call that was reported as written, until a power loss takes the directory:
\* from then on nobody is at work.
Recorded ==
    \A w \in Writers : pc[w] = "ok" =>
        \/ \E n \in DOMAIN renamed : renamed[n] = w
        \/ \A v \in Writers : pc[v] \in Ended

IInv == TypeOK /\ FlushedFirst /\ Whole /\ InOrder /\ Kept /\ Recorded /\ NoDebris
-----------------------------------------------------------------------------
\* The invariant holds before anything is written, the target there or not.
LEMMA InitIInv == Init => IInv
<1> SUFFICES ASSUME Init
             PROVE  IInv
  OBVIOUS
<1> USE AtomicAssumption DEF Init, Inodes, Amount, Working, Ended
<1>1. TypeOK
  <2>1. bytes \in [Inodes -> Amount] /\ bytesOnMedium = [i \in Inodes |-> {bytes[i]}]
    OBVIOUS
  <2> HIDE DEF Init
  <2>2. bytesOnMedium \in [Inodes -> (SUBSET Amount) \ {{}}]
    <3>1. \A i \in Inodes : bytes[i] \in Amount /\ {bytes[i]} \in (SUBSET Amount) \ {{}}
      BY <2>1
    <3>2. QED
      BY <2>1, <3>1
  <2>3. entry \in Inodes \cup {None} /\ entryOnMedium \in (SUBSET (Inodes \cup {None})) \ {{}}
    BY DEF Init
  <2>4. renamed \in Seq(Writers)
    BY EmptySeq DEF Init
  <2>5. /\ temp = {} /\ parent \in {"missing", "kept"} /\ unremovable = {}
        /\ pc = [w \in Writers |-> "parent"]
    BY DEF Init
  <2>6. QED
    BY <2>5, <2>1, <2>2, <2>3, <2>4 DEF TypeOK, Init
<1>2. FlushedFirst /\ Whole /\ InOrder /\ Kept /\ Recorded /\ NoDebris
  BY DEF FlushedFirst, Whole, InOrder, Kept, Recorded, NoDebris, Safe
<1>3. QED
  BY <1>1, <1>2 DEF IInv

\* Every step keeps the types, and a temporary file is there exactly while its writer may need it.
LEMMA NextTypeOK == TypeOK /\ [Next]_vars => TypeOK'
<1> SUFFICES ASSUME TypeOK, [Next]_vars
             PROVE  TypeOK'
  OBVIOUS
<1> USE AtomicAssumption DEF TypeOK, Inodes, Amount, Working, Ended, Goto, media
<1>1. ASSUME NEW w \in Writers, EnsureParent(w)
      PROVE  TypeOK'
  BY <1>1 DEF EnsureParent
<1>2. ASSUME NEW w \in Writers, CreateTemp(w)
      PROVE  TypeOK'
  BY <1>2 DEF CreateTemp
<1>3. ASSUME NEW w \in Writers, WriteAll(w)
      PROVE  TypeOK'
  <2>1. bytes' \in [Inodes -> Amount] /\ bytes'[w] \in Amount
    BY <1>3 DEF WriteAll
  <2>2. bytesOnMedium' = [bytesOnMedium EXCEPT ![w] = @ \cup {bytes'[w]}]
    BY <1>3 DEF WriteAll
  <2>3. bytesOnMedium' \in [Inodes -> (SUBSET Amount) \ {{}}]
    BY <2>1, <2>2
  <2>4. /\ UNCHANGED <<entry, entryOnMedium, temp, parent, renamed, unremovable, reach>>
        /\ pc' \in [Writers -> Working \cup Ended]
        /\ \A v \in Writers : pc'[v] = pc[v] \/ (v = w /\ w \in temp /\ pc'[w] \in {"rest", "flush"})
    BY <1>3 DEF WriteAll
  <2>5. QED
    BY <2>1, <2>3, <2>4
<1>4. ASSUME NEW w \in Writers, FlushToMedium(w)
      PROVE  TypeOK'
  <2>1. bytesOnMedium' = [bytesOnMedium EXCEPT ![w] = {bytes[w]}] /\ bytes[w] \in Amount
    BY <1>4 DEF FlushToMedium
  <2>2. bytesOnMedium' \in [Inodes -> (SUBSET Amount) \ {{}}]
    BY <2>1
  <2>3. QED
    BY <1>4, <2>2 DEF FlushToMedium
<1>5. ASSUME NEW w \in Writers, Persist(w)
      PROVE  TypeOK'
  <2>1. entryOnMedium' \in (SUBSET (Inodes \cup {None})) \ {{}}
    BY <1>5 DEF Persist
  <2>2. renamed' \in Seq(Writers)
    BY <1>5 DEF Persist
  <2>3. QED
    BY <1>5, <2>1, <2>2 DEF Persist
<1>6. ASSUME NEW w \in Writers, FlushDirectory(w)
      PROVE  TypeOK'
  <2>1. entryOnMedium' \in (SUBSET (Inodes \cup {None})) \ {{}}
    BY <1>6 DEF FlushDirectory
  <2>2. QED
    BY <1>6, <2>1 DEF FlushDirectory
<1>7. ASSUME NEW w \in Writers, Fail(w)
      PROVE  TypeOK'
  BY <1>7 DEF Fail
<1>8. ASSUME NEW w \in Writers, Cleanup(w)
      PROVE  TypeOK'
  BY <1>8 DEF Cleanup
<1>9. ASSUME NEW w \in Writers, Crash(w)
      PROVE  TypeOK'
  BY <1>9 DEF Crash
<1>10. CASE PowerLoss
  <2>1. \A w \in Writers : pc'[w] \in Ended
    BY <1>10 DEF PowerLoss
  <2>2. bytesOnMedium' \in [Inodes -> (SUBSET Amount) \ {{}}]
    BY <1>10 DEF PowerLoss, MayRemain
  <2>3. entry' \in Inodes \cup {None} /\ entryOnMedium' \in (SUBSET (Inodes \cup {None})) \ {{}}
    BY <1>10 DEF PowerLoss
  <2>4. /\ bytes' \in [Inodes -> Amount] /\ temp' \subseteq Writers
        /\ parent' \in {"missing", "made", "kept"}
        /\ pc' \in [Writers -> Working \cup Ended]
        /\ unremovable' \subseteq Writers /\ reach' = reach
    BY <1>10 DEF PowerLoss, MayRemain
  <2>5. renamed' \in Seq(Writers)
    <3>1. renamed' = renamed \/ renamed' = << >>
      BY <1>10 DEF PowerLoss
    <3>2. << >> \in Seq(Writers)
      BY EmptySeq
    <3>3. QED
      BY <3>1, <3>2
  <2>6. QED
    BY <2>1, <2>2, <2>3, <2>4, <2>5
<1>11. CASE UNCHANGED vars
  BY <1>11 DEF vars
<1>12. QED
  BY <1>1, <1>2, <1>3, <1>4, <1>5, <1>6, <1>7, <1>8, <1>9, <1>10, <1>11 DEF Next

\* Every state is of its type, whatever may fail.
THEOREM TypeCorrect == Spec => []TypeOK
<1>1. Init => TypeOK
  BY InitIInv DEF IInv
<1>2. QED
  BY <1>1, NextTypeOK, PTL DEF Spec

\* A step a writer takes alone leaves the others where they are.
LEMMA OthersStay ==
    ASSUME TypeOK, NEW w \in Writers, NEW to \in Working \cup Ended,
           pc' = [pc EXCEPT ![w] = to]
    PROVE  pc'[w] = to /\ \A v \in Writers : v # w => pc'[v] = pc[v]
BY DEF TypeOK

\* No step lets a writer rename bytes it has not written whole and flushed.
LEMMA NextFlushedFirst == TypeOK /\ FlushedFirst /\ [Next]_vars => FlushedFirst'
<1> SUFFICES ASSUME TypeOK, FlushedFirst, [Next]_vars
             PROVE  FlushedFirst'
  OBVIOUS
<1> USE DEF TypeOK, FlushedFirst, Safe, Inodes, Goto, media
<1>1. ASSUME NEW w \in Writers, EnsureParent(w) \/ CreateTemp(w)
      PROVE  FlushedFirst'
  BY <1>1 DEF EnsureParent, CreateTemp
<1>2. ASSUME NEW w \in Writers, WriteAll(w)
      PROVE  FlushedFirst'
  BY <1>2 DEF WriteAll
<1>3. ASSUME NEW w \in Writers, FlushToMedium(w)
      PROVE  FlushedFirst'
  BY <1>3 DEF FlushToMedium
<1>4. ASSUME NEW w \in Writers, Persist(w) \/ FlushDirectory(w)
      PROVE  FlushedFirst'
  BY <1>4 DEF Persist, FlushDirectory
<1>5. ASSUME NEW w \in Writers, Fail(w) \/ Cleanup(w) \/ Crash(w)
      PROVE  FlushedFirst'
  BY <1>5 DEF Fail, Cleanup, Crash
<1>6. CASE PowerLoss
  <2>1. \A w \in Writers : pc'[w] \in Ended
    BY <1>6 DEF PowerLoss, Ended
  <2>2. QED
    BY <2>1 DEF Ended
<1>7. CASE UNCHANGED vars
  BY <1>7 DEF vars
<1>8. QED
  BY <1>1, <1>2, <1>3, <1>4, <1>5, <1>6, <1>7 DEF Next

\* No step gives the name to a file that is not whole, on the medium too, and none writes to one
\* that the name may lead to.
LEMMA NextWhole == TypeOK /\ FlushedFirst /\ Whole /\ [Next]_vars => Whole'
<1> SUFFICES ASSUME TypeOK, FlushedFirst, Whole, [Next]_vars
             PROVE  Whole'
  OBVIOUS
<1> USE AtomicAssumption DEF TypeOK, Whole, Safe, After, Inodes, Goto, media
<1>1. ASSUME NEW w \in Writers, EnsureParent(w) \/ CreateTemp(w)
      PROVE  Whole'
  BY <1>1 DEF EnsureParent, CreateTemp
<1>2. ASSUME NEW w \in Writers, WriteAll(w)
      PROVE  Whole'
  <2>1. w \notin entryOnMedium
    BY <1>2 DEF WriteAll
  <2>2. QED
    BY <1>2, <2>1 DEF WriteAll
<1>3. ASSUME NEW w \in Writers, FlushToMedium(w)
      PROVE  Whole'
  <2>1. w \notin entryOnMedium
    BY <1>3 DEF FlushToMedium
  <2>2. QED
    BY <1>3, <2>1 DEF FlushToMedium
<1>4. ASSUME NEW w \in Writers, Persist(w)
      PROVE  Whole'
  <2>1. Safe(w)
    BY <1>4 DEF Persist, FlushedFirst
  <2>2. QED
    BY <1>4, <2>1 DEF Persist
<1>5. ASSUME NEW w \in Writers, FlushDirectory(w)
      PROVE  Whole'
  BY <1>5 DEF FlushDirectory
<1>6. ASSUME NEW w \in Writers, Fail(w) \/ Cleanup(w) \/ Crash(w)
      PROVE  Whole'
  <2>1. pc'[w] \in After
    BY <1>6 DEF Fail, Cleanup, Crash, Working
  <2>2. QED
    BY <1>6, <2>1 DEF Fail, Cleanup, Crash
<1>7. CASE PowerLoss
  <2>1. \A w \in Writers : pc'[w] \in After
    BY <1>7 DEF PowerLoss, Ended
  <2>2. entryOnMedium' = {entry'} /\ entry' \in entryOnMedium \cup {None}
    BY <1>7 DEF PowerLoss
  <2>3. entry' # None => bytesOnMedium[entry'] = {"full"} /\ entry' \in Inodes
    BY <2>2
  <2>4. entry' # None => bytes'[entry'] = "full" /\ bytesOnMedium'[entry'] = {"full"}
    BY <1>7, <2>3 DEF PowerLoss, MayRemain
  <2>5. QED
    BY <2>1, <2>2, <2>4
<1>8. CASE UNCHANGED vars
  BY <1>8 DEF vars
<1>9. QED
  BY <1>1, <1>2, <1>3, <1>4, <1>5, <1>6, <1>7, <1>8 DEF Next

\* Between a writer's rename and its flush of the directory the name is the last renamed file's.
LEMMA NextInOrder == TypeOK /\ InOrder /\ [Next]_vars => InOrder'
<1> SUFFICES ASSUME TypeOK, InOrder, [Next]_vars
             PROVE  InOrder'
  OBVIOUS
<1> USE DEF InOrder, Goto, media
<1>0. renamed \in Seq(Writers) /\ pc \in [Writers -> Working \cup Ended]
  BY DEF TypeOK
<1>1. ASSUME NEW w \in Writers, Persist(w)
      PROVE  InOrder'
  <2>1. /\ renamed' = Append(renamed, w) /\ entry' = w
        /\ pc' = [pc EXCEPT ![w] = "flushdir"]
    BY <1>1 DEF Persist
  <2>2. /\ Len(renamed') = Len(renamed) + 1 /\ Len(renamed) \in Nat
        /\ renamed'[Len(renamed) + 1] = w
        /\ DOMAIN renamed' = 1..(Len(renamed) + 1) /\ DOMAIN renamed = 1..Len(renamed)
        /\ \A n \in 1..Len(renamed) : renamed'[n] = renamed[n]
    BY <1>0, <2>1
  <2>3. ASSUME NEW v \in Writers, pc'[v] = "flushdir"
        PROVE  \E n \in DOMAIN renamed' : renamed'[n] = v
    <3>1. CASE v = w
      BY <2>2, <3>1
    <3>2. CASE v # w
      <4>1. pc[v] = "flushdir"
        BY <1>0, <2>1, <2>3, <3>2
      <4>2. PICK n \in DOMAIN renamed : renamed[n] = v
        BY <4>1
      <4>3. QED
        BY <2>2, <4>2
    <3>3. QED
      BY <3>1, <3>2
  <2>4. QED
    BY <2>1, <2>2, <2>3
<1>2. ASSUME NEW w \in Writers,
             \/ EnsureParent(w) \/ CreateTemp(w) \/ WriteAll(w) \/ FlushToMedium(w)
             \/ FlushDirectory(w) \/ Fail(w) \/ Cleanup(w) \/ Crash(w)
      PROVE  InOrder'
  <2>1. /\ UNCHANGED <<renamed, entry>>
        /\ \A v \in Writers : pc'[v] = "flushdir" => pc[v] = "flushdir"
    BY <1>0, <1>2 DEF EnsureParent, CreateTemp, WriteAll, FlushToMedium, FlushDirectory,
                      Fail, Cleanup, Crash
  <2>2. QED
    BY <2>1
<1>3. CASE PowerLoss
  <2>1. \A w \in Writers : pc'[w] # "flushdir"
    BY <1>3, <1>0 DEF PowerLoss, Working
  <2>2. QED
    BY <2>1
<1>4. CASE UNCHANGED vars
  BY <1>4 DEF vars
<1>5. QED
  BY <1>1, <1>2, <1>3, <1>4 DEF Next

\* No step makes a power loss able to bring back a file older than one a call reported as written.
LEMMA NextKept == TypeOK /\ InOrder /\ Kept /\ [Next]_vars => Kept'
<1> SUFFICES ASSUME TypeOK, InOrder, Kept, [Next]_vars
             PROVE  Kept'
  OBVIOUS
<1> USE DEF Goto, media
<1>0. /\ renamed \in Seq(Writers) /\ Len(renamed) \in Nat /\ DOMAIN renamed = 1..Len(renamed)
      /\ pc \in [Writers -> Working \cup Ended]
  BY DEF TypeOK
<1>1. ASSUME NEW w \in Writers, Persist(w)
      PROVE  Kept'
  <2>1. /\ renamed' = Append(renamed, w) /\ entryOnMedium' = entryOnMedium \cup {w}
        /\ pc' = [pc EXCEPT ![w] = "flushdir"]
    BY <1>1 DEF Persist
  <2>2. /\ DOMAIN renamed' = 1..(Len(renamed) + 1) /\ renamed'[Len(renamed) + 1] = w
        /\ \A n \in 1..Len(renamed) : renamed'[n] = renamed[n]
    BY <1>0, <2>1
  <2>3. ASSUME NEW v \in Writers, NEW n \in DOMAIN renamed', reach' = "medium", pc'[v] = "ok",
               renamed'[n] = v, NEW e \in entryOnMedium'
        PROVE  e = v \/ \E m \in DOMAIN renamed' : m > n /\ e = renamed'[m]
    <3>1. reach = "medium" /\ v # w /\ pc[v] = "ok"
      BY <1>0, <1>1, <2>1, <2>3 DEF Persist
    <3>2. n \in 1..Len(renamed) /\ renamed[n] = v
      BY <1>0, <2>2, <2>3, <3>1
    <3>3. CASE e = w
      BY <1>0, <2>2, <3>2, <3>3
    <3>4. CASE e \in entryOnMedium
      <4>1. e = v \/ \E m \in DOMAIN renamed : m > n /\ e = renamed[m]
        BY <1>0, <3>1, <3>2, <3>4 DEF Kept
      <4>2. QED
        BY <1>0, <2>2, <4>1
    <3>5. QED
      BY <2>1, <3>3, <3>4
  <2>4. QED
    BY <2>3 DEF Kept
<1>2. ASSUME NEW w \in Writers, FlushDirectory(w)
      PROVE  Kept'
  <2>1. /\ entry = renamed[Len(renamed)]
        /\ reach' = "medium" => entryOnMedium' = {entry}
        /\ renamed' = renamed
    BY <1>2 DEF FlushDirectory, InOrder
  <2>2. ASSUME NEW v \in Writers, NEW n \in DOMAIN renamed, renamed[n] = v
        PROVE  entry = v \/ \E m \in DOMAIN renamed : m > n /\ entry = renamed[m]
    <3>1. CASE n = Len(renamed)
      BY <2>1, <2>2, <3>1
    <3>2. CASE n < Len(renamed)
      BY <1>0, <2>1, <2>2, <3>2
    <3>3. QED
      BY <1>0, <3>1, <3>2
  <2>3. QED
    BY <2>1, <2>2 DEF Kept
<1>3. ASSUME NEW w \in Writers,
             \/ EnsureParent(w) \/ CreateTemp(w) \/ WriteAll(w) \/ FlushToMedium(w)
             \/ Fail(w) \/ Cleanup(w) \/ Crash(w)
      PROVE  Kept'
  <2>1. /\ UNCHANGED <<renamed, entryOnMedium, reach>>
        /\ \A v \in Writers : pc'[v] = "ok" => pc[v] = "ok"
    BY <1>0, <1>3 DEF EnsureParent, CreateTemp, WriteAll, FlushToMedium, Fail, Cleanup, Crash
  <2>2. QED
    BY <2>1 DEF Kept
<1>4. CASE PowerLoss
  <2>1. \A w \in Writers : pc'[w] = "ok" => pc[w] = "ok"
    BY <1>0, <1>4 DEF PowerLoss
  <2>2. /\ reach' = reach
        /\ \/ renamed' = renamed /\ entryOnMedium' \subseteq entryOnMedium
           \/ renamed' = << >>
    BY <1>4 DEF PowerLoss
  <2>3. QED
    BY <2>1, <2>2 DEF Kept
<1>5. CASE UNCHANGED vars
  BY <1>5 DEF vars, Kept
<1>6. QED
  BY <1>1, <1>2, <1>3, <1>4, <1>5 DEF Next

\* A call is reported as written only after it took the name, and stays in the history.
LEMMA NextRecorded == TypeOK /\ InOrder /\ Recorded /\ [Next]_vars => Recorded'
<1> SUFFICES ASSUME TypeOK, InOrder, Recorded, [Next]_vars
             PROVE  Recorded'
  OBVIOUS
<1> USE DEF Recorded, Goto, Ended, Working
<1>0. renamed \in Seq(Writers) /\ pc \in [Writers -> Working \cup Ended]
  BY DEF TypeOK
<1>1. ASSUME NEW w \in Writers,
             \/ EnsureParent(w) \/ CreateTemp(w) \/ WriteAll(w) \/ FlushToMedium(w)
             \/ Persist(w) \/ FlushDirectory(w) \/ Fail(w) \/ Cleanup(w) \/ Crash(w)
      PROVE  Recorded'
  <2>1. pc[w] \notin Ended
    BY <1>1 DEF EnsureParent, CreateTemp, WriteAll, FlushToMedium, Persist, FlushDirectory,
                Fail, Cleanup, Crash
  <2>2. \A v \in Writers : pc'[v] = "ok" => pc[v] = "ok" \/ (v = w /\ pc[w] = "flushdir")
    BY <1>0, <1>1 DEF EnsureParent, CreateTemp, WriteAll, FlushToMedium, Persist, FlushDirectory,
                      Fail, Cleanup, Crash
  <2>3. renamed' = renamed \/ renamed' = Append(renamed, w)
    BY <1>1 DEF EnsureParent, CreateTemp, WriteAll, FlushToMedium, Persist, FlushDirectory,
                Fail, Cleanup, Crash
  <2>4. \A n \in DOMAIN renamed : n \in DOMAIN renamed' /\ renamed'[n] = renamed[n]
    BY <1>0, <2>3
  <2>5. \A v \in Writers : pc'[v] = "ok" => \E n \in DOMAIN renamed : renamed[n] = v
    BY <2>1, <2>2 DEF InOrder
  <2>6. QED
    BY <2>4, <2>5
<1>2. CASE PowerLoss
  BY <1>0, <1>2 DEF PowerLoss
<1>3. CASE UNCHANGED vars
  BY <1>3 DEF vars
<1>4. QED
  BY <1>1, <1>2, <1>3 DEF Next

\* A call returns only from a state without its temporary file, or after trying to remove it.
LEMMA NextNoDebris == TypeOK /\ NoDebris /\ [Next]_vars => NoDebris'
<1> SUFFICES ASSUME TypeOK, NoDebris, [Next]_vars
             PROVE  NoDebris'
  OBVIOUS
<1> USE DEF TypeOK, NoDebris, Goto, media
<1>1. ASSUME NEW w \in Writers, \/ EnsureParent(w) \/ CreateTemp(w) \/ WriteAll(w)
                                \/ FlushToMedium(w) \/ Persist(w) \/ FlushDirectory(w)
      PROVE  NoDebris'
  BY <1>1 DEF EnsureParent, CreateTemp, WriteAll, FlushToMedium, Persist, FlushDirectory
<1>2. ASSUME NEW w \in Writers, Fail(w) \/ Cleanup(w) \/ Crash(w)
      PROVE  NoDebris'
  BY <1>2 DEF Fail, Cleanup, Crash
<1>3. CASE PowerLoss
  BY <1>3 DEF PowerLoss
<1>4. CASE UNCHANGED vars
  BY <1>4 DEF vars
<1>5. QED
  BY <1>1, <1>2, <1>3, <1>4 DEF Next

\* Together: the invariant is inductive.
LEMMA Inductive == IInv /\ [Next]_vars => IInv'
BY NextTypeOK, NextFlushedFirst, NextWhole, NextInOrder, NextKept, NextRecorded,
   NextNoDebris DEF IInv

\* Whatever the name may lead to now or after a power loss is whole and flushed (atomic.rs,
\* write_then_rename: write_all, flush_to_medium, then persist), and what a call reported is kept.
THEOREM InvariantHolds == Spec => []IInv
BY InitIInv, Inductive, PTL DEF Spec
-----------------------------------------------------------------------------
(* What follows from it. *)

\* atomic.rs, "a reader sees either the old contents or the new ones, never a partial file", for any
\* number of writers and of power losses.
THEOREM ReaderSeesWhole == Spec => []NeverPartial
<1>1. IInv => NeverPartial
  BY DEF IInv, Whole, Safe, NeverPartial
<1>2. QED
  BY <1>1, InvariantHolds, PTL

\* atomic.rs, "the new contents survive a power loss": on a system whose flush of a directory reaches
\* the medium, what a call reported as written stays until another writer replaces it, or the directory
\* it had to make goes with its name (only then is such a call not in the history: Recorded).
THEOREM ReportedStays == Spec => []SuccessIsDurable
<1>1. IInv => SuccessIsDurable
  BY DEF IInv, Whole, Kept, SuccessIsDurable
<1>2. QED
  BY <1>1, InvariantHolds, PTL

\* atomic.rs, "Leave nothing behind": a returned call's temporary file is gone, or could not be
\* removed, wherever it failed.
THEOREM NothingLeftBehind == Spec => []NoDebris
<1>1. IInv => NoDebris
  BY DEF IInv
<1>2. QED
  BY <1>1, InvariantHolds, PTL
-----------------------------------------------------------------------------
(* One write is one step. *)

\* Where there is no directory there is no file, now or after a power loss, and nobody is past making
\* it.
NoDirectory ==
    parent = "missing" => /\ entryOnMedium = {None}
                          /\ \A w \in Writers : pc[w] = "parent" \/ pc[w] \in Ended

\* Every step keeps it: a directory goes only in a power loss, with everybody at work.
LEMMA NextNoDirectory == TypeOK /\ NoDirectory /\ [Next]_vars => NoDirectory'
<1> SUFFICES ASSUME TypeOK, NoDirectory, [Next]_vars
             PROVE  NoDirectory'
  OBVIOUS
<1> USE DEF TypeOK, NoDirectory, Goto, media, Ended
<1>1. ASSUME NEW w \in Writers, EnsureParent(w)
      PROVE  NoDirectory'
  BY <1>1 DEF EnsureParent
<1>2. ASSUME NEW w \in Writers, \/ CreateTemp(w) \/ WriteAll(w) \/ FlushToMedium(w)
                                \/ Persist(w) \/ FlushDirectory(w)
      PROVE  NoDirectory'
  BY <1>2 DEF CreateTemp, WriteAll, FlushToMedium, Persist, FlushDirectory
<1>3. ASSUME NEW w \in Writers, Fail(w) \/ Cleanup(w) \/ Crash(w)
      PROVE  NoDirectory'
  BY <1>3 DEF Fail, Cleanup, Crash, Working
<1>4. CASE PowerLoss
  BY <1>4 DEF PowerLoss, Working
<1>5. CASE UNCHANGED vars
  BY <1>5 DEF vars
<1> QED
  BY <1>1, <1>2, <1>3, <1>4, <1>5 DEF Next

\* Nothing is torn: what a reader gets now, and after any power loss, is the whole of the file the name
\* leads to.
LEMMA NothingTorn ==
    TypeOK /\ Whole =>
        Holds = entry /\ OnMedium = entryOnMedium
<1> SUFFICES ASSUME TypeOK, Whole
             PROVE  Holds = entry /\ OnMedium = entryOnMedium
  OBVIOUS
<1>1. Holds = entry
  BY DEF Whole, Safe, Holds, Read
<1>2. ASSUME NEW e \in entryOnMedium, NEW b \in MayRemain
      PROVE  Read(e, b) = e
  <2>1. e # None => e \in Inodes /\ bytesOnMedium[e] = {"full"}
    BY DEF TypeOK, Whole, Safe
  <2> QED
    BY <2>1 DEF MayRemain, Read
<1>3. \E b : b \in MayRemain
  <2>1. \A i \in Inodes : \E a \in Amount : a \in bytesOnMedium[i]
    BY DEF TypeOK
  <2>2. PICK b : b = [i \in Inodes |-> CHOOSE a \in Amount : a \in bytesOnMedium[i]]
    OBVIOUS
  <2>3. \A i \in Inodes : b[i] \in Amount /\ b[i] \in bytesOnMedium[i]
    BY <2>1, <2>2
  <2>4. b \in [Inodes -> Amount]
    BY <2>2, <2>3
  <2> QED
    BY <2>3, <2>4 DEF MayRemain
<1> QED
  BY <1>1, <1>2, <1>3 DEF OnMedium

\* The file before any call is an initial state of the promise.
LEMMA InitPromise == Init => Promise!Init
<1> SUFFICES ASSUME Init
             PROVE  Promise!Init
  OBVIOUS
<1>1. TypeOK /\ Whole
  BY InitIInv DEF IInv
<1>2. entry \in {Old, None} /\ entryOnMedium = {entry} /\ parent # "made"
  BY DEF Init
<1>3. Stage = [w \in Writers |-> "open"]
  BY DEF Init, Stage, StageOf
<1> QED
  BY <1>1, <1>2, <1>3, NothingTorn DEF Promise!Init, NewDir, Init

\* A writer's step moves its stage alone.
LEMMA StageMoves ==
    ASSUME TypeOK, NEW w \in Writers, NEW to \in Working \cup Ended, pc' = [pc EXCEPT ![w] = to]
    PROVE  Stage' = [Stage EXCEPT ![w] = StageOf(to)] /\ Stage[w] = StageOf(pc[w])
<1>1. \A v \in Writers : pc'[v] = IF v = w THEN to ELSE pc[v]
  BY DEF TypeOK
<1>2. \A v \in Writers : StageOf(pc[v])' = IF v = w THEN StageOf(to) ELSE StageOf(pc[v])
  BY <1>1
<1>3. \A v \in Writers : Stage'[v] = IF v = w THEN StageOf(to) ELSE StageOf(pc[v])
  BY <1>2 DEF Stage
<1>4. [Stage EXCEPT ![w] = StageOf(to)] =
          [v \in Writers |-> IF v = w THEN StageOf(to) ELSE StageOf(pc[v])]
  BY DEF Stage
<1>5. Stage' = [v \in Writers |-> IF v = w THEN StageOf(to) ELSE StageOf(pc[v])]
  BY <1>2 DEF Stage
<1> QED
  BY <1>4, <1>5 DEF Stage

\* A writer that gives up, or is gone, has failed for whoever called it.
LEMMA FailureShows ==
    ASSUME TypeOK, NEW w \in Writers, NEW to \in {"cleanup", "err", "dead"},
           pc' = [pc EXCEPT ![w] = to]
    PROVE  Stage' = [Stage EXCEPT ![w] = "failed"]
<1>1. to \in Working \cup Ended
  BY DEF Working, Ended
<1>2. StageOf(to) = "failed"
  BY DEF StageOf
<1>3. Stage' = [Stage EXCEPT ![w] = StageOf(to)]
  BY <1>1, StageMoves
<1> QED
  BY <1>2, <1>3

\* Every step is a step of the promise, or one nobody can tell from outside.
LEMMA StepPromise ==
    /\ IInv /\ IInv' /\ NoDirectory
    /\ [Next]_vars
    => [Promise!Next]_(Promise!vars)
<1> SUFFICES ASSUME IInv, IInv', NoDirectory, [Next]_vars
             PROVE  [Promise!Next]_(Promise!vars)
  OBVIOUS
<1>1. Holds = entry /\ OnMedium = entryOnMedium
  BY NothingTorn DEF IInv
<1>2. Holds' = entry' /\ OnMedium' = entryOnMedium'
  <2>1. (TypeOK /\ Whole)'
    BY DEF IInv
  <2>2. (Holds = entry /\ OnMedium = entryOnMedium)'
    BY <2>1, NothingTorn, PTL
  <2> QED
    BY <2>2
<1>3. TypeOK /\ entry \in entryOnMedium /\ \A w \in Writers : Stage[w] = StageOf(pc[w])
  BY DEF IInv, Whole, Stage
<1>0. reach' = reach
  BY DEF Next, vars, EnsureParent, CreateTemp, WriteAll, FlushToMedium, Persist, FlushDirectory, Fail,
         Cleanup, Crash, PowerLoss
<1>4. ASSUME UNCHANGED <<entry, entryOnMedium, parent, Stage>>
      PROVE  UNCHANGED Promise!vars
  BY <1>0, <1>1, <1>2, <1>4 DEF Promise!vars, NewDir
<1> USE DEF Promise!Next
<1>5. ASSUME NEW w \in Writers, NEW from \in Working, NEW to \in Working \cup Ended, Goto(w, from, to)
      PROVE  /\ Stage[w] = StageOf(from) /\ Stage' = [Stage EXCEPT ![w] = StageOf(to)]
             /\ StageOf(from) = StageOf(to) => Stage' = Stage
  <2>1. Stage' = [Stage EXCEPT ![w] = StageOf(to)]
    BY <1>3, <1>5, StageMoves DEF Goto
  <2>2. Stage[w] = StageOf(from)
    BY <1>3, <1>5 DEF Goto
  <2>3. [Stage EXCEPT ![w] = Stage[w]] = Stage
    BY DEF Stage
  <2> QED
    BY <2>1, <2>2, <2>3
<1>6. ASSUME NEW w \in Writers, EnsureParent(w)
      PROVE  [Promise!Next]_(Promise!vars)
  <2>1. UNCHANGED <<entry, entryOnMedium>>
    BY <1>6 DEF EnsureParent, media
  <2>2. CASE Goto(w, "parent", "create")
    <3>1. Stage' = Stage /\ Stage[w] = "open"
      BY <1>5, <2>2 DEF StageOf, Working
    <3>2. CASE parent' = parent
      BY <1>4, <2>1, <3>1, <3>2
    <3>3. CASE parent = "missing" /\ parent' = "made"
      <4>1. Promise!MakeDirectory(w)
        BY <1>0, <1>1, <1>2, <1>3, <2>1, <3>1, <3>3 DEF NewDir, Promise!MakeDirectory, NoDirectory, TypeOK
      <4> QED
        BY <4>1
    <3> QED
      BY <1>6, <3>2, <3>3 DEF EnsureParent
  <2>3. CASE Goto(w, "parent", "err") /\ parent = "missing"
    <3>1. Stage' = [Stage EXCEPT ![w] = "failed"] /\ Stage[w] = "open"
      BY <1>5, <2>3 DEF StageOf, Working, Ended
    <3>2. CASE parent' = parent
      <4>1. Promise!Fail(w)
        BY <1>0, <1>1, <1>2, <2>1, <3>1, <3>2 DEF NewDir, Promise!Fail
      <4> QED
        BY <4>1
    <3>3. CASE parent' = "made"
      <4>1. Promise!MakeDirectory(w)
        BY <1>0, <1>1, <1>2, <1>3, <2>1, <2>3, <3>1, <3>3 DEF NewDir, Promise!MakeDirectory, NoDirectory, TypeOK
      <4> QED
        BY <4>1
    <3> QED
      BY <1>6, <2>3, <3>2, <3>3 DEF EnsureParent
  <2> QED
    BY <1>6, <2>2, <2>3 DEF EnsureParent
<1>7. ASSUME NEW w \in Writers, CreateTemp(w) \/ WriteAll(w) \/ FlushToMedium(w)
      PROVE  [Promise!Next]_(Promise!vars)
  <2>1. UNCHANGED <<entry, entryOnMedium, parent>>
    BY <1>7 DEF CreateTemp, WriteAll, FlushToMedium, media
  <2>2. \/ Goto(w, "create", "write") \/ Goto(w, "write", "rest") \/ Goto(w, "rest", "flush")
        \/ Goto(w, "flush", "rename")
    BY <1>7 DEF CreateTemp, WriteAll, FlushToMedium
  <2>3. Stage' = Stage
    BY <1>5, <2>2 DEF StageOf, Working
  <2> QED
    BY <1>4, <2>1, <2>3
<1>8. ASSUME NEW w \in Writers, Persist(w)
      PROVE  [Promise!Next]_(Promise!vars)
  <2>1. Stage[w] = "open" /\ Stage' = [Stage EXCEPT ![w] = "replaced"]
    BY <1>5, <1>8 DEF Persist, StageOf, Working
  <2>2. entry' = w /\ entryOnMedium' = entryOnMedium \cup {w} /\ parent' = parent
    BY <1>8 DEF Persist
  <2>3. Promise!Replace(w)
    BY <1>0, <1>1, <1>2, <2>1, <2>2 DEF NewDir, Promise!Replace
  <2> QED
    BY <2>3
<1>9. ASSUME NEW w \in Writers, FlushDirectory(w)
      PROVE  [Promise!Next]_(Promise!vars)
  <2>1. Stage[w] = "replaced" /\ Stage' = [Stage EXCEPT ![w] = "ok"]
    BY <1>5, <1>9 DEF FlushDirectory, StageOf, Working, Ended
  <2>2. /\ entry' = entry /\ parent' = parent
        /\ entryOnMedium' = IF reach = "medium" THEN {entry} ELSE entryOnMedium
    BY <1>9 DEF FlushDirectory
  <2>3. Promise!Report(w)
    BY <1>0, <1>1, <1>2, <2>1, <2>2 DEF NewDir, Promise!Report
  <2> QED
    BY <2>3
<1>10. ASSUME NEW w \in Writers, Fail(w) \/ Cleanup(w) \/ Crash(w)
       PROVE  [Promise!Next]_(Promise!vars)
  <2>1. UNCHANGED <<entry, entryOnMedium, parent>>
    BY <1>10 DEF Fail, Cleanup, Crash, media
  <2>2. PICK to \in {"cleanup", "err", "dead"} : pc' = [pc EXCEPT ![w] = to]
    BY <1>10 DEF Fail, Cleanup, Crash, Goto
  <2>3. Stage' = [Stage EXCEPT ![w] = "failed"]
    BY <1>3, <2>2, FailureShows
  <2>4. Stage[w] \in {"open", "replaced", "failed"}
    <3>1. pc[w] \in Working
      BY <1>10 DEF Fail, Cleanup, Crash, Goto, Working
    <3> QED
      BY <1>3, <3>1 DEF StageOf, Working
  <2>5. CASE Stage[w] = "failed"
    <3>1. Stage' = Stage
      BY <2>3, <2>5 DEF Stage
    <3> QED
      BY <1>4, <2>1, <3>1
  <2>6. CASE Stage[w] # "failed"
    <3>1. Promise!Fail(w)
      BY <1>0, <1>1, <1>2, <2>1, <2>3, <2>4, <2>6 DEF NewDir, Promise!Fail
    <3> QED
      BY <3>1
  <2> QED
    BY <2>5, <2>6
<1>11. CASE PowerLoss
  <2>1. Stage' = [w \in Writers |-> IF Stage[w] = "ok" THEN "ok" ELSE "failed"]
    <3>1. \A w \in Writers : pc'[w] = IF pc[w] \in Working THEN "dead" ELSE pc[w]
      BY <1>11 DEF PowerLoss
    <3>2. \A w \in Writers : StageOf(pc'[w]) = IF StageOf(pc[w]) = "ok" THEN "ok" ELSE "failed"
      BY <1>3, <3>1 DEF TypeOK, StageOf, Working, Ended
    <3> QED
      BY <1>3, <3>2 DEF Stage
  <2>2. /\ entry' \in entryOnMedium \cup IF parent = "made" THEN {None} ELSE {}
        /\ entryOnMedium' = {entry'} /\ parent' # "made"
    BY <1>3, <1>11 DEF PowerLoss, TypeOK
  <2>3. Promise!PowerLoss
    BY <1>0, <1>1, <1>2, <2>1, <2>2 DEF NewDir, Promise!PowerLoss
  <2> QED
    BY <2>3
<1>12. CASE UNCHANGED vars
  BY <1>4, <1>12 DEF vars, Stage
<1> QED
  BY <1>6, <1>7, <1>8, <1>9, <1>10, <1>11, <1>12 DEF Next

\* atomic.rs, "Write `bytes` to `target`, replacing it in one step": whatever the number of writers,
\* whatever is refused and whenever a process dies or the power goes, what every reader and every
\* caller sees is a behaviour of OneFile, which promises that a success lasts only where a flushed
\* directory does.
THEOREM WriteIsOneStep == Spec => OneStep
<1>1. Init => NoDirectory
  BY DEF Init, NoDirectory
<1>2. IInv /\ NoDirectory /\ [Next]_vars => IInv' /\ NoDirectory'
  BY Inductive, NextNoDirectory DEF IInv
<1> QED
  BY <1>1, <1>2, InitIInv, InitPromise, StepPromise, PTL DEF Spec, OneStep, Promise!Spec
=============================================================================
