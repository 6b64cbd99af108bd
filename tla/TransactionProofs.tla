------------------------- MODULE TransactionProofs -------------------------
(***************************************************************************)
(* For any set of files, any plans, any number of calls and whatever goes  *)
(* wrong: every file is old or new at every moment, and apply and undo     *)
(* keep the contract of AllOrNothing; of a mode, as much as the umask lets *)
(* a write give back.                                                      *)
(***************************************************************************)
EXTENDS Transaction, FiniteSetTheorems, TLAPS

\* What went before: nothing has changed when the files are read, and undo finds the reading it needs.
Reading ==
    /\ phase = "read" => disk = start /\ done = 0
    /\ phase \in {"read", "apply", "ok"} => lost = {}
    /\ phase \in {"apply", "undo"} => before = [i \in 1..Len(plan) |-> start[plan[i].path]]

\* As long as nothing failed beyond repair the disk is what the first `done` actions make of it; once
\* files are put back, up to the umask.
Prefix ==
    lost = {} =>
        /\ phase = "apply" => disk = After(start, plan, done)
        /\ phase = "undo" => BareAll(disk) = BareAll(After(start, plan, done))
        /\ phase = "ok" => disk = Goal
        /\ phase = "rolled_back" => BareAll(disk) = BareAll(start)

IInv == TypeOK /\ Reading /\ Prefix /\ OldOrNew

FileOrNone == File \cup {Absent}
-----------------------------------------------------------------------------
(* The operators. *)

\* What a plan is: a finite list of steps, each of a path and a content, no path twice.
LEMMA PlanType ==
    ASSUME NEW pl \in Plans
    PROVE  /\ pl \in Seq(Step)
           /\ Len(pl) \in Nat
           /\ DOMAIN pl = 1..Len(pl)
           /\ \A i \in 1..Len(pl) : pl[i].path \in Paths /\ pl[i].to \in Contents \cup {Absent}
           /\ \A i, j \in 1..Len(pl) : pl[i].path = pl[j].path => i = j
<1>1. pl \in Seq(Step) /\ DistinctPaths(pl)
  BY TransactionAssumption
<1>2. Len(pl) \in Nat /\ DOMAIN pl = 1..Len(pl)
  BY <1>1
<1>3. \A i \in 1..Len(pl) : pl[i] \in Step
  BY <1>1
<1>4. QED
  BY <1>1, <1>2, <1>3 DEF DistinctPaths, Step

\* Written is a file: of the old mode, or the one asked for, less the umask.
LEMMA WrittenType ==
    ASSUME NEW old \in FileOrNone, NEW content \in Contents, NEW mode \in Modes
    PROVE  Written(old, content, mode) \in File
<1>1. (IF old = Absent THEN mode ELSE old.mode) \in Modes
  BY DEF File, FileOrNone
<1>2. ((IF old = Absent THEN mode ELSE old.mode) \ Umask) \in Modes
  BY <1>1, TransactionAssumption
<1> QED
  BY <1>2 DEF Written, File

\* An action leaves a file or no file (transaction.rs, apply).
LEMMA PutType ==
    ASSUME NEW old \in FileOrNone, NEW to \in Contents \cup {Absent}
    PROVE  Put(old, to) \in FileOrNone
BY TransactionAssumption, WrittenType DEF Put, FileOrNone

\* Putting an entry back leaves a file or no file (transaction.rs, undo).
LEMMA PutBackType ==
    ASSUME NEW now \in FileOrNone, NEW was \in FileOrNone
    PROVE  PutBack(now, was) \in FileOrNone
<1>1. was # Absent => was.content \in Contents /\ was.mode \in Modes
  BY DEF FileOrNone, File
<1> QED
  BY <1>1, WrittenType DEF PutBack, FileOrNone

\* What the umask withholds is taken off once: a file or no file is left, the same whenever it is taken.
LEMMA BareType ==
    ASSUME NEW f \in FileOrNone
    PROVE  Bare(f) \in FileOrNone /\ Bare(Bare(f)) = Bare(f)
<1>1. CASE f = Absent
  BY <1>1 DEF Bare
<1>2. CASE f # Absent
  <2>1. f \in File /\ f = [content |-> f.content, mode |-> f.mode]
    BY <1>2 DEF FileOrNone, File
  <2>2. Bare(f) = [content |-> f.content, mode |-> f.mode \ Umask]
    BY <1>2, <2>1 DEF Bare
  <2>3. f.content \in Contents /\ f.mode \in Modes /\ (f.mode \ Umask) \in Modes
    BY <2>1, TransactionAssumption DEF File
  <2>4. Bare(f) \in File
    BY <2>2, <2>3 DEF File
  <2>5. Bare(f) # Absent
    BY <2>4, TransactionAssumption
  <2>6. Bare(Bare(f)) = [content |-> f.content, mode |-> (f.mode \ Umask) \ Umask]
    BY <2>2, <2>5 DEF Bare
  <2>7. (f.mode \ Umask) \ Umask = f.mode \ Umask
    OBVIOUS
  <2> QED
    BY <2>2, <2>4, <2>6, <2>7 DEF FileOrNone
<1> QED
  BY <1>1, <1>2

\* Putting back over any file there, or over none, whose mode is the old one up to the umask.
LEMMA PutBackOver ==
    ASSUME NEW was \in FileOrNone, NEW now \in FileOrNone,
           was # Absent /\ now # Absent => now.mode \ Umask = was.mode \ Umask
    PROVE  PutBack(now, was) = Bare(was)
<1>1. CASE was = Absent
  BY <1>1 DEF PutBack, Bare
<1>2. CASE was # Absent
  <2>1. was = [content |-> was.content, mode |-> was.mode]
    BY <1>2 DEF FileOrNone, File
  <2>2. Bare(was) = [content |-> was.content, mode |-> was.mode \ Umask]
    BY <1>2, <2>1 DEF Bare
  <2>3. (IF now = Absent THEN was.mode ELSE now.mode) \ Umask = was.mode \ Umask
    BY <1>2
  <2> QED
    BY <1>2, <2>2, <2>3 DEF PutBack, Written
<1> QED
  BY <1>1, <1>2

\* Putting back undoes the action, content and mode, the mode up to the umask.
LEMMA PutBackPut ==
    ASSUME NEW was \in FileOrNone, NEW to \in Contents \cup {Absent}
    PROVE  PutBack(Put(was, to), was) = Bare(was)
<1>1. Put(was, to) \in FileOrNone
  BY PutType
<1>2. ASSUME was # Absent, Put(was, to) # Absent
      PROVE  Put(was, to).mode \ Umask = was.mode \ Umask
  <2>1. Put(was, to).mode = was.mode \ Umask
    BY <1>2 DEF Put, Written
  <2> QED
    BY <2>1
<1> QED
  BY <1>1, <1>2, PutBackOver

\* Putting back what is there already leaves it, content and mode, the mode up to the umask.
LEMMA PutBackSame ==
    ASSUME NEW was \in FileOrNone, NEW now \in {was, Bare(was)}
    PROVE  PutBack(now, was) = Bare(was)
<1>1. now \in FileOrNone
  BY BareType
<1>2. ASSUME was # Absent, now = Bare(was)
      PROVE  now.mode = was.mode \ Umask
  BY <1>2 DEF Bare, FileOrNone, File
<1>3. ASSUME was # Absent
      PROVE  now.mode \ Umask = was.mode \ Umask
  BY <1>2, <1>3
<1> QED
  BY <1>1, <1>3, PutBackOver

\* The disk after the first n actions holds a file or no file at every path.
LEMMA AfterType ==
    ASSUME NEW from \in [Paths -> FileOrNone], NEW pl \in Plans, NEW n \in 0..Len(pl)
    PROVE  After(from, pl, n) \in [Paths -> FileOrNone]
<1>1. ASSUME NEW p \in Paths, \E i \in 1..n : pl[i].path = p
      PROVE  Put(from[p], pl[CHOOSE i \in 1..n : pl[i].path = p].to) \in FileOrNone
  <2>1. PICK k \in 1..n : k = CHOOSE i \in 1..n : pl[i].path = p
    BY <1>1
  <2>2. pl[k].to \in Contents \cup {Absent}
    BY <2>1, PlanType
  <2>3. QED
    BY <2>1, <2>2, PutType
<1>2. QED
  BY <1>1 DEF After

\* No action applied: the disk is as it was.
LEMMA AfterNone ==
    ASSUME NEW from \in [Paths -> FileOrNone], NEW pl \in Plans
    PROVE  After(from, pl, 0) = from
BY DEF After

\* What the first n actions leave at a path one of them names, and at one none of them names.
LEMMA AfterAt ==
    ASSUME NEW from \in [Paths -> FileOrNone], NEW pl \in Plans, NEW n \in 0..Len(pl)
    PROVE  /\ \A k \in 1..n : After(from, pl, n)[pl[k].path] = Put(from[pl[k].path], pl[k].to)
           /\ \A p \in Paths : (\A k \in 1..n : pl[k].path # p) => After(from, pl, n)[p] = from[p]
<1>1. ASSUME NEW k \in 1..n
      PROVE  After(from, pl, n)[pl[k].path] = Put(from[pl[k].path], pl[k].to)
  <2>1. pl[k].path \in Paths
    BY PlanType
  <2>2. (CHOOSE i \in 1..n : pl[i].path = pl[k].path) = k
    BY PlanType
  <2>3. QED
    BY <2>1, <2>2 DEF After
<1>2. QED
  BY <1>1 DEF After

\* Part of a plan leaves every path as it was or as the whole plan leaves it.
LEMMA AfterOldOrNew ==
    ASSUME NEW from \in [Paths -> FileOrNone], NEW pl \in Plans, NEW n \in 0..Len(pl), NEW p \in Paths
    PROVE  After(from, pl, n)[p] \in {from[p], After(from, pl, Len(pl))[p]}
<1>1. Len(pl) \in 0..Len(pl) /\ \A k \in 1..n : k \in 1..Len(pl)
  BY PlanType
<1>2. CASE \E k \in 1..n : pl[k].path = p
  <2>1. PICK k \in 1..n : pl[k].path = p
    BY <1>2
  <2>2. After(from, pl, n)[p] = Put(from[p], pl[k].to)
    BY <2>1, AfterAt
  <2>3. After(from, pl, Len(pl))[p] = Put(from[p], pl[k].to)
    BY <1>1, <2>1, AfterAt
  <2>4. QED
    BY <2>2, <2>3
<1>3. CASE \A k \in 1..n : pl[k].path # p
  BY <1>3, AfterAt
<1>4. QED
  BY <1>2, <1>3

\* apply's next action takes the disk from n actions applied to n + 1.
LEMMA AfterOneMore ==
    ASSUME NEW from \in [Paths -> FileOrNone], NEW pl \in Plans, NEW n \in 0..Len(pl), n < Len(pl)
    PROVE  After(from, pl, n + 1)
             = [After(from, pl, n) EXCEPT ![pl[n + 1].path] = Put(@, pl[n + 1].to)]
<1> DEFINE q == pl[n + 1].path
           A == After(from, pl, n)
           B == After(from, pl, n + 1)
<1>1. n + 1 \in 0..Len(pl) /\ n + 1 \in 1..Len(pl) /\ 1..(n + 1) = (1..n) \cup {n + 1}
  BY PlanType
<1>2. q \in Paths /\ (\A k \in 1..n : pl[k].path # q)
  BY <1>1, PlanType
<1>3. B[q] = Put(A[q], pl[n + 1].to)
  BY <1>1, <1>2, AfterAt
<1>4. ASSUME NEW p \in Paths, p # q
      PROVE  B[p] = A[p]
  <2>1. CASE \E k \in 1..n : pl[k].path = p
    BY <1>1, <2>1, AfterAt
  <2>2. CASE \A k \in 1..n : pl[k].path # p
    BY <1>1, <1>4, <2>2, AfterAt
  <2>3. QED
    BY <2>1, <2>2
<1>5. A \in [Paths -> FileOrNone] /\ B \in [Paths -> FileOrNone]
  BY <1>1, AfterType
<1> HIDE DEF A, B
<1>6. B = [A EXCEPT ![q] = Put(@, pl[n + 1].to)]
  BY <1>2, <1>3, <1>4, <1>5
<1>7. QED
  BY <1>6 DEF A, B

\* undo's next entry, with the reading taken at the start, takes it from n back to n - 1.
LEMMA AfterOneLess ==
    ASSUME NEW from \in [Paths -> FileOrNone], NEW pl \in Plans, NEW n \in 1..Len(pl)
    PROVE  /\ PutBack(After(from, pl, n)[pl[n].path], from[pl[n].path]) = Bare(from[pl[n].path])
           /\ After(from, pl, n - 1)[pl[n].path] = from[pl[n].path]
           /\ \A p \in Paths : p # pl[n].path => After(from, pl, n - 1)[p] = After(from, pl, n)[p]
<1> DEFINE q == pl[n].path
           A == After(from, pl, n - 1)
           B == After(from, pl, n)
<1>1. n - 1 \in 0..Len(pl) /\ n - 1 < Len(pl) /\ (n - 1) + 1 = n /\ n \in 0..Len(pl)
  BY PlanType
<1>2. q \in Paths /\ pl[n].to \in Contents \cup {Absent}
  BY PlanType
<1>3. A \in [Paths -> FileOrNone] /\ B \in [Paths -> FileOrNone]
  BY <1>1, AfterType
<1>4. B = [A EXCEPT ![q] = Put(@, pl[n].to)]
  <2> DEFINE m == n - 1
  <2>1. m \in 0..Len(pl) /\ m < Len(pl) /\ m + 1 = n
    BY <1>1
  <2> HIDE DEF m
  <2>2. After(from, pl, m + 1) = [After(from, pl, m) EXCEPT ![pl[m + 1].path]
                                    = Put(@, pl[m + 1].to)]
    BY <2>1, AfterOneMore
  <2>3. After(from, pl, n) = [After(from, pl, m) EXCEPT ![pl[n].path] = Put(@, pl[n].to)]
    BY <2>1, <2>2
  <2>4. QED
    BY <2>3 DEF m
<1>5. A[q] = from[q]
  <2>1. \A k \in 1..(n - 1) : pl[k].path # q
    BY <1>1, PlanType
  <2>2. QED
    BY <1>1, <1>2, <2>1, AfterAt
<1> HIDE DEF A, B
<1>6. B[q] = Put(from[q], pl[n].to)
  BY <1>2, <1>3, <1>4, <1>5
<1>7. PutBack(B[q], from[q]) = Bare(from[q])
  BY <1>2, <1>6, PutBackPut
<1>8. \A p \in Paths : p # q => A[p] = B[p]
  BY <1>2, <1>3, <1>4
<1>9. QED
  BY <1>5, <1>7, <1>8 DEF A, B
-----------------------------------------------------------------------------
(* The inductive invariant. *)

\* The invariant holds before the first call reads anything.
LEMMA InitIInv == Init => IInv
<1> SUFFICES ASSUME Init
             PROVE  IInv
  OBVIOUS
<1>1. TypeOK
  BY PlanType DEF Init, TypeOK, Phases, Settled
<1>2. Reading /\ Prefix /\ OldOrNew
  BY DEF Init, Reading, Prefix, OldOrNew
<1>3. QED
  BY <1>1, <1>2 DEF IInv

\* Every step of every kind, the failures and the crash included, keeps the types.
LEMMA NextTypeOK == TypeOK /\ [Next]_vars => TypeOK'
<1> SUFFICES ASSUME TypeOK, [Next]_vars
             PROVE  TypeOK'
  OBVIOUS
<1> USE DEF TypeOK
<1>0. /\ Len(plan) \in Nat
      /\ \A i \in 1..Len(plan) : plan[i].path \in Paths /\ plan[i].to \in Contents \cup {Absent}
  BY PlanType
<1>1. CASE Begin
  <2>1. Len(plan') \in Nat
    BY <1>1, PlanType DEF Begin
  <2>2. QED
    BY <1>1, <2>1 DEF Begin, Phases
<1>2. CASE ReadBefore
  <2>1. \A i \in 1..Len(plan) : disk[plan[i].path] \in File \cup {Absent}
    BY <1>0
  <2>2. before' \in Seq(File \cup {Absent})
    BY <1>0, <1>2, <2>1 DEF ReadBefore
  <2>3. QED
    BY <1>2, <2>2 DEF ReadBefore, Phases
<1>3. CASE ReadRefused
  BY <1>3 DEF ReadRefused, Phases, Settled
<1>4. CASE Act
  <2>1. done + 1 \in 1..Len(plan)
    BY <1>0, <1>4 DEF Act
  <2>2. disk' \in [Paths -> File \cup {Absent}]
    BY <1>0, <1>4, <2>1, PutType DEF Act, FileOrNone
  <2>3. QED
    BY <1>4, <2>1, <2>2 DEF Act
<1>5. CASE Finish
  BY <1>5 DEF Finish, Phases, Settled
<1>6. CASE Refused
  <2>1. done + 1 \in 1..Len(plan)
    BY <1>0, <1>6 DEF Refused
  <2>2. disk' \in [Paths -> File \cup {Absent}]
    BY <1>0, <1>6, <2>1, PutType DEF Refused, FileOrNone
  <2>3. lost' \subseteq Paths
    BY <1>0, <1>6, <2>1 DEF Refused
  <2>4. UNCHANGED <<plan, before, done, restored, start>>
    BY <1>6 DEF Refused
  <2>5. failedAt' \in 0..Len(plan') /\ phase' \in Phases /\ phase' = "undo" /\ phase = "apply"
    BY <1>6, <2>1, <2>4 DEF Refused, Phases
  <2>6. QED
    BY <2>2, <2>3, <2>4, <2>5
<1>7. CASE Undo \/ UndoRefused
  <2>1. /\ done \in 1..Len(plan)
        /\ done - 1 \in 0..Len(plan)
        /\ before[done] \in FileOrNone
        /\ plan[done].path \in Paths
    BY <1>0, <1>7 DEF Undo, UndoRefused, FileOrNone
  <2>2. disk[plan[done].path] \in FileOrNone
    BY <2>1 DEF FileOrNone
  <2>3. PutBack(disk[plan[done].path], before[done]) \in FileOrNone
    BY <2>1, <2>2, PutBackType
  <2>4. disk' \in [Paths -> File \cup {Absent}]
    BY <1>7, <2>1, <2>3 DEF Undo, UndoRefused, FileOrNone
  <2>5. restored' \in Nat
    BY <1>7 DEF Undo, UndoRefused
  <2>6. lost' \subseteq Paths
    BY <1>7, <2>1 DEF Undo, UndoRefused
  <2>7. QED
    BY <1>7, <2>1, <2>4, <2>5, <2>6 DEF Undo, UndoRefused
<1>8. CASE Report
  BY <1>8 DEF Report, Phases, Settled
<1>9. CASE Crash
  BY <1>9 DEF Crash, Phases
<1>10. CASE UNCHANGED vars
  BY <1>10 DEF vars
<1>11. QED
  BY <1>1, <1>2, <1>3, <1>4, <1>5, <1>6, <1>7, <1>8, <1>9, <1>10 DEF Next

\* Every state is of its type, whatever may fail.
THEOREM TypeCorrect == Spec => []TypeOK
<1>1. Init => TypeOK
  BY InitIInv DEF IInv
<1>2. QED
  BY <1>1, NextTypeOK, PTL DEF Spec

\* The reading stays in step with the phase: one entry for every action, taken before any of them.
LEMMA NextReading == TypeOK /\ Reading /\ [Next]_vars => Reading'
<1> SUFFICES ASSUME TypeOK, Reading, [Next]_vars
             PROVE  Reading'
  OBVIOUS
<1> USE DEF Reading
<1>1. CASE Begin
  BY <1>1 DEF Begin
<1>2. CASE ReadBefore
  BY <1>2 DEF ReadBefore
<1>3. CASE ReadRefused
  BY <1>3 DEF ReadRefused
<1>4. CASE Act \/ Finish
  BY <1>4 DEF Act, Finish
<1>5. CASE Refused
  BY <1>5 DEF Refused
<1>6. CASE Undo \/ UndoRefused
  BY <1>6 DEF Undo, UndoRefused
<1>7. CASE Report \/ Crash
  BY <1>7 DEF Report, Crash
<1>8. CASE UNCHANGED vars
  BY <1>8 DEF vars
<1>9. QED
  BY <1>1, <1>2, <1>3, <1>4, <1>5, <1>6, <1>7, <1>8 DEF Next

\* The next action, done: the disk is what one more action makes of it (apply, and an action that
\* fails after its file changed).
LEMMA OneMore ==
    ASSUME IInv, phase = "apply", done < Len(plan),
           disk' = [disk EXCEPT ![plan[done + 1].path] = Put(@, plan[done + 1].to)]
    PROVE  disk' = After(start, plan, done + 1)
<1>1. /\ plan \in Plans
      /\ start \in [Paths -> FileOrNone]
      /\ done \in 0..Len(plan)
  BY DEF IInv, TypeOK, FileOrNone
<1>2. disk = After(start, plan, done)
  BY DEF IInv, Reading, Prefix
<1>3. QED
  BY <1>1, <1>2, AfterOneMore

\* The last action done, put back: its file is as it was at the start, whether or not it was changed,
\* less the umask.
LEMMA OneBack ==
    ASSUME IInv, phase = "undo", done > 0
    PROVE  /\ done \in 1..Len(plan) /\ plan[done].path \in Paths
           /\ PutBack(disk[plan[done].path], before[done]) = Bare(start[plan[done].path])
<1>1. /\ plan \in Plans
      /\ start \in [Paths -> FileOrNone]
      /\ done \in 0..Len(plan)
      /\ Len(plan) \in Nat
  BY PlanType DEF IInv, TypeOK, FileOrNone
<1>2. done \in 1..Len(plan) /\ Len(plan) \in 0..Len(plan)
  BY <1>1
<1> DEFINE q == plan[done].path
<1>3. q \in Paths /\ plan[done].to \in Contents \cup {Absent} /\ start[q] \in FileOrNone
  BY <1>1, <1>2, PlanType
<1>4. before[done] = start[q]
  BY <1>2 DEF IInv, Reading
<1>5. Goal[q] = Put(start[q], plan[done].to)
  BY <1>1, <1>2, AfterAt DEF Goal
<1>6. disk[q] \in {start[q], Bare(start[q]), Goal[q]}
  BY <1>3 DEF IInv, OldOrNew
<1>7. PutBack(disk[q], start[q]) = Bare(start[q])
  BY <1>3, <1>5, <1>6, PutBackPut, PutBackSame
<1>8. QED
  BY <1>2, <1>3, <1>4, <1>7

\* As long as nothing failed beyond repair, every step keeps the disk what the applied prefix of the
\* plan makes of it.
LEMMA NextPrefix == IInv /\ [Next]_vars => Prefix'
<1> SUFFICES ASSUME IInv, [Next]_vars
             PROVE  Prefix'
  OBVIOUS
<1>0. /\ plan \in Plans
      /\ Len(plan) \in Nat
      /\ start \in [Paths -> FileOrNone]
      /\ done \in 0..Len(plan)
      /\ TypeOK /\ Reading /\ Prefix
  BY PlanType DEF IInv, TypeOK, FileOrNone
<1>1. CASE Begin
  BY <1>1 DEF Begin, Prefix, Settled
<1>2. CASE ReadBefore
  <2>1. disk = start /\ done = 0
    BY <1>0, <1>2 DEF ReadBefore, Reading
  <2>2. disk' = After(start', plan', done')
    BY <1>0, <1>2, <2>1, AfterNone DEF ReadBefore
  <2>3. QED
    BY <1>2, <2>2 DEF ReadBefore, Prefix
<1>3. CASE ReadRefused
  BY <1>0, <1>3 DEF ReadRefused, Reading, Prefix, BareAll
<1>4. CASE Act
  <2>1. disk' = After(start', plan', done')
    BY <1>4, OneMore DEF Act
  <2>2. QED
    BY <1>4, <2>1 DEF Act, Prefix
<1>5. CASE Finish
  BY <1>0, <1>5 DEF Finish, Prefix, Goal
<1>6. CASE Refused
  BY <1>0, <1>6 DEF Refused, Prefix
<1>7. CASE Undo
  <2>1. /\ done \in 1..Len(plan)
        /\ disk' = [disk EXCEPT ![plan[done].path] = Bare(start[plan[done].path])]
    BY <1>7, OneBack DEF Undo
  <2>2. CASE lost = {}
    <3> DEFINE q == plan[done].path
               A == After(start, plan, done)
               B == After(start, plan, done - 1)
    <3>1. BareAll(disk) = BareAll(A)
      BY <1>0, <1>7, <2>2 DEF Undo, Prefix
    <3>0. done \in 1..Len(plan)
      BY <2>1
    <3>01. start \in [Paths -> FileOrNone] /\ plan \in Plans
      BY <1>0
    <3>2. B[q] = start[q] /\ \A p \in Paths : p # q => B[p] = A[p]
      BY <3>01, <3>0, AfterOneLess
    <3>3. A \in [Paths -> FileOrNone] /\ q \in Paths /\ disk \in [Paths -> FileOrNone]
      BY <1>0, <1>7, AfterType, OneBack DEF Undo, TypeOK, FileOrNone
    <3> HIDE DEF A, B, q
    <3>4. start[q] \in FileOrNone
      BY <1>0, <3>3
    <3>5. ASSUME NEW p \in Paths
          PROVE  Bare(disk'[p]) = Bare(B[p])
      <4>1. CASE p = q
        <5>1. disk'[p] = Bare(start[q]) /\ B[p] = start[q]
          BY <2>1, <3>2, <3>3, <4>1 DEF q
        <5> QED
          BY <3>4, <5>1, BareType
      <4>2. CASE p # q
        <5>1. disk'[p] = disk[p] /\ B[p] = A[p]
          BY <2>1, <3>2, <3>3, <4>2 DEF q
        <5>2. BareAll(disk)[p] = Bare(disk[p]) /\ BareAll(A)[p] = Bare(A[p])
          BY DEF BareAll
        <5> QED
          BY <3>1, <5>1, <5>2
      <4> QED
        BY <4>1, <4>2
    <3>6. BareAll(disk)' = BareAll(B)
      BY <3>5 DEF BareAll
    <3>7. B = After(start, plan, done)'
      BY <1>7 DEF Undo, B
    <3>8. BareAll(disk)' = BareAll(After(start, plan, done))'
      BY <3>6, <3>7 DEF BareAll
    <3> QED
      BY <1>7, <3>8 DEF Undo, Prefix
  <2>3. CASE lost # {}
    BY <1>7, <2>3 DEF Undo, Prefix
  <2>4. QED
    BY <2>2, <2>3
<1>8. CASE UndoRefused
  <2>1. lost' # {}
    BY <1>8 DEF UndoRefused
  <2>2. QED
    BY <2>1 DEF Prefix
<1>9. CASE Report
  <2>1. lost = {} => BareAll(disk) = BareAll(start)
    BY <1>0, <1>9, AfterNone DEF Report, Prefix
  <2>2. QED
    BY <1>9, <2>1 DEF Report, Prefix
<1>10. CASE Crash
  BY <1>10 DEF Crash, Prefix
<1>11. CASE UNCHANGED vars
  BY <1>0, <1>11 DEF vars, Prefix, Goal
<1>12. QED
  BY <1>1, <1>2, <1>3, <1>4, <1>5, <1>6, <1>7, <1>8, <1>9, <1>10, <1>11 DEF Next

\* No step leaves a file other than old or new, the failing ones included.
LEMMA NextOldOrNew == IInv /\ [Next]_vars => OldOrNew'
<1> SUFFICES ASSUME IInv, [Next]_vars
             PROVE  OldOrNew'
  OBVIOUS
<1>0. /\ plan \in Plans
      /\ Len(plan) \in Nat
      /\ start \in [Paths -> FileOrNone]
      /\ disk \in [Paths -> FileOrNone]
      /\ done \in 0..Len(plan)
      /\ OldOrNew
  BY PlanType DEF IInv, TypeOK, FileOrNone
<1>1. CASE UNCHANGED <<disk, plan, start>>
  BY <1>0, <1>1 DEF OldOrNew, Goal
<1>2. CASE Begin
  BY <1>2 DEF Begin, OldOrNew
<1>3. ASSUME phase = "apply", done < Len(plan), UNCHANGED <<plan, start>>,
             disk' = [disk EXCEPT ![plan[done + 1].path] = Put(@, plan[done + 1].to)]
      PROVE  OldOrNew'
  <2>1. disk' = After(start, plan, done + 1)
    BY <1>3, OneMore
  <2>2. done + 1 \in 0..Len(plan)
    BY <1>0, <1>3
  <2>3. \A p \in Paths : disk'[p] \in {start[p], Goal[p]}
    BY <1>0, <2>1, <2>2, AfterOldOrNew DEF Goal
  <2>4. QED
    BY <1>3, <2>3 DEF OldOrNew, Goal
<1>4. ASSUME phase = "undo", done > 0, UNCHANGED <<plan, start>>,
             disk' = [disk EXCEPT ![plan[done].path] = PutBack(@, before[done])]
      PROVE  OldOrNew'
  <2>1. disk' = [disk EXCEPT ![plan[done].path] = Bare(start[plan[done].path])]
    BY <1>4, OneBack
  <2>2. \A p \in Paths : disk'[p] \in {start[p], Bare(start[p]), Goal[p]}
    BY <1>0, <2>1 DEF OldOrNew
  <2>3. QED
    BY <1>4, <2>2 DEF OldOrNew, Goal
<1>5. CASE Act
  BY <1>3, <1>5 DEF Act
<1>6. CASE Refused
  BY <1>1, <1>3, <1>6 DEF Refused
<1>7. CASE Undo \/ UndoRefused
  BY <1>1, <1>4, <1>7 DEF Undo, UndoRefused
<1>8. CASE ReadBefore \/ ReadRefused \/ Finish \/ Report \/ Crash \/ UNCHANGED vars
  BY <1>1, <1>8 DEF ReadBefore, ReadRefused, Finish, Report, Crash, vars
<1>9. QED
  BY <1>2, <1>5, <1>6, <1>7, <1>8 DEF Next

\* Together: the invariant is inductive.
LEMMA Inductive == IInv /\ [Next]_vars => IInv'
BY NextTypeOK, NextReading, NextPrefix, NextOldOrNew DEF IInv

\* While apply or undo is under way the disk is exactly what the first `done` actions of the plan
\* make of what was there (transaction.rs: apply moves `done` up, undo moves it down), unless an
\* action failed after its file changed or a file could not be put back (modes up to the umask, once
\* files are put back).
THEOREM InvariantHolds == Spec => []IInv
BY InitIInv, Inductive, PTL DEF Spec
-----------------------------------------------------------------------------
(* What follows from it. *)

\* Whatever fails, while undoing too, and wherever the process dies (atomic.rs, "never a partial file",
\* over a whole switch): every file is as it was or as the plan has it (put
\* back, its mode is without what the umask withholds).
THEOREM EveryFileOldOrNew == Spec => []OldOrNew
<1>1. IInv => OldOrNew
  BY DEF IInv
<1>2. QED
  BY <1>1, InvariantHolds, PTL

\* The files, without what the umask withholds, are files.
LEMMA BareAllType ==
    ASSUME NEW files \in [Paths -> FileOrNone]
    PROVE  BareAll(files) \in [Paths -> FileOrNone]
BY BareType DEF BareAll

\* What a plan asks for is a state of the files the contract knows.
LEMMA GoalType == TypeOK => Goal \in [Paths -> FileOrNone]
BY PlanType, AfterType DEF TypeOK, FileOrNone, Goal

\* The files before the first call are an initial state of the contract.
LEMMA InitRefines == Init => Contract!Init
<1> SUFFICES ASSUME Init
             PROVE  Contract!Init
  OBVIOUS
<1>1. TypeOK
  BY InitIInv DEF IInv
<1>2. BareAll(Visible) \in [Paths -> FileOrNone] /\ BareAll(Goal) \in [Paths -> FileOrNone]
  <2>1. Visible \in [Paths -> FileOrNone]
    BY <1>1 DEF TypeOK, Visible, FileOrNone
  <2> QED
    BY <1>1, <2>1, GoalType, BareAllType
<1>3. QED
  BY <1>2 DEF Init, Contract!Init, Settled, FileOrNone

\* A step is a step of the contract, or one the caller of apply cannot tell.
LEMMA StepRefines ==
    IInv /\ IInv' /\ [Next]_vars => [Contract!Next]_(Contract!vars)
<1> SUFFICES ASSUME IInv, IInv', [Next]_vars
             PROVE  [Contract!Next]_(Contract!vars)
  OBVIOUS
<1> USE DEF Visible, Settled, IInv, Contract!vars, Contract!Next, BareAll
<1>1. CASE Begin
  <2>1. BareAll(Goal') \in [Paths -> File \cup {Absent}]
    <3>1. plan' \in Plans /\ start' \in [Paths -> FileOrNone]
      BY DEF TypeOK, FileOrNone
    <3>2. Len(plan') \in 0..Len(plan')
      BY <3>1, PlanType
    <3>3. Goal' \in [Paths -> FileOrNone]
      BY <3>1, <3>2, AfterType DEF Goal
    <3> HIDE DEF BareAll
    <3>4. QED
      BY <3>3, BareAllType DEF FileOrNone
  <2>2. Contract!Ask
    BY <1>1, <2>1 DEF Begin, Contract!Ask
  <2>3. QED
    BY <2>2
<1>2. CASE ReadBefore
  BY <1>2 DEF ReadBefore, Goal
<1>3. CASE ReadRefused
  BY <1>3 DEF ReadRefused, Reading, Contract!RollBack, Goal
<1>4. CASE Act
  BY <1>4 DEF Act, Goal
<1>5. CASE Finish
  BY <1>5 DEF Finish, Prefix, Reading, Contract!Commit, Goal
<1>6. CASE Refused
  BY <1>6 DEF Refused, Goal
<1>7. CASE Undo \/ UndoRefused
  BY <1>7 DEF Undo, UndoRefused, Goal
<1>8. CASE Report
  <2>1. CASE lost = {}
    <3>1. BareAll(disk) = BareAll(start)
      <4>1. phase' = "rolled_back" /\ lost' = {} /\ disk' = disk /\ start' = start
        BY <1>8, <2>1 DEF Report
      <4> QED
        BY <4>1 DEF Prefix
    <3>2. QED
      BY <1>8, <2>1, <3>1 DEF Report, Contract!RollBack, Goal
  <2>2. CASE lost # {}
    <3>1. /\ BareAll(disk) \in [Paths -> File \cup {Absent}]
          /\ \A p \in Paths : BareAll(disk)[p] \in {BareAll(start)[p], BareAll(Goal)[p]}
      <4>1. \A p \in Paths : disk[p] \in {start[p], Bare(start[p]), Goal[p]} /\ start[p] \in FileOrNone
        BY DEF TypeOK, OldOrNew, FileOrNone
      <4>2. \A p \in Paths : Bare(disk[p]) \in {Bare(start[p]), Bare(Goal[p])}
        BY <4>1, BareType
      <4>3. disk \in [Paths -> FileOrNone]
        BY DEF TypeOK, FileOrNone
      <4> HIDE DEF BareAll
      <4>4. BareAll(disk) \in [Paths -> FileOrNone]
        BY <4>3, BareAllType
      <4> QED
        BY <4>2, <4>4 DEF BareAll, FileOrNone
    <3>2. Contract!Tear
      BY <1>8, <2>2, <3>1 DEF Report, Contract!Tear, Goal
    <3>3. QED
      BY <3>2
  <2>3. QED
    BY <2>1, <2>2
<1>9. CASE Crash
  BY <1>9 DEF Crash, Goal
<1>10. CASE UNCHANGED vars
  BY <1>10 DEF vars, Goal
<1>11. QED
  BY <1>1, <1>2, <1>3, <1>4, <1>5, <1>6, <1>7, <1>8, <1>9, <1>10 DEF Next

\* apply implements the contract: every answer is "everything" or "nothing", for any plan, any number
\* of files and calls, wherever a refusal or the crash falls; and where a failure came too late to be
\* put back, each file is one or the other.
THEOREM ApplyIsAllOrNothing == Spec => ImplementsContract
BY InvariantHolds, InitRefines, StepRefines, PTL DEF Spec, ImplementsContract, Contract!Spec
-----------------------------------------------------------------------------
(* The count of files put back. *)

\* The files undo is past, above position `done` and below the failed one, that are as they were.
AsTheyWere ==
    {i \in 1..Len(plan) : /\ done < i /\ i < failedAt
                          /\ Bare(disk[plan[i].path]) = Bare(start[plan[i].path])}

\* What the count rests on: it is nothing until undo begins, and from then on no larger than the files
\* undo is past and that are as they were.  No later step can spoil one of those: undo goes on with
\* smaller positions, and a plan names no file twice.
Counted ==
    /\ phase \in {"read", "apply"} => restored = 0
    /\ phase = "undo" => done < failedAt /\ restored <= Cardinality(AsTheyWere)
    /\ phase = "rolled_back" => done = 0 /\ restored <= Cardinality(AsTheyWere)

\* How a set of positions in a plan grows: it counts no less, and with one more at least one more.
LEMMA Grows ==
    ASSUME NEW m \in Nat, NEW T \in SUBSET (1..m), NEW S \in SUBSET T
    PROVE  /\ Cardinality(S) \in Nat /\ Cardinality(T) \in Nat
           /\ Cardinality(S) <= Cardinality(T)
           /\ T # S => Cardinality(S) + 1 <= Cardinality(T)
<1>1. IsFiniteSet(1..m)
  BY FS_Interval
<1>2. IsFiniteSet(T) /\ IsFiniteSet(S)
  BY <1>1, FS_Subset
<1>3. Cardinality(S) \in Nat /\ Cardinality(T) \in Nat
  BY <1>2, FS_CardinalityType
<1>4. Cardinality(S) <= Cardinality(T) /\ (Cardinality(S) = Cardinality(T) => S = T)
  BY <1>2, FS_Subset
<1>5. QED
  BY <1>3, <1>4

\* Going past a position leaves what is above it as it was, and adds it where it was put back.
LEMMA UndoneGrows ==
    ASSUME IInv, Counted, Undo \/ UndoRefused
    PROVE  /\ AsTheyWere' \subseteq 1..Len(plan)
           /\ AsTheyWere \subseteq AsTheyWere'
           /\ Undo => done \in AsTheyWere' /\ done \notin AsTheyWere
<1>1. /\ Len(plan) \in Nat
      /\ \A i \in 1..Len(plan) : plan[i].path \in Paths
      /\ \A i, j \in 1..Len(plan) : plan[i].path = plan[j].path => i = j
      /\ disk \in [Paths -> FileOrNone]
  BY PlanType DEF IInv, TypeOK, FileOrNone
<1>2. /\ done \in 1..Len(plan) /\ done < failedAt /\ failedAt \in 0..Len(plan)
      /\ UNCHANGED <<plan, failedAt, start>> /\ done' = done - 1
  BY OneBack DEF Undo, UndoRefused, Counted, IInv, TypeOK
<1>3. disk' = disk \/ disk' = [disk EXCEPT ![plan[done].path] = Bare(start[plan[done].path])]
  BY OneBack DEF Undo, UndoRefused
<1>4. AsTheyWere' \subseteq 1..Len(plan)
  BY <1>2 DEF AsTheyWere
<1>5. ASSUME NEW i \in AsTheyWere
      PROVE  i \in AsTheyWere'
  <2>1. /\ i \in 1..Len(plan) /\ done < i /\ i < failedAt
        /\ Bare(disk[plan[i].path]) = Bare(start[plan[i].path])
    BY DEF AsTheyWere
  <2>2. plan[i].path # plan[done].path
    BY <1>1, <1>2, <2>1
  <2>3. disk'[plan[i].path] = disk[plan[i].path]
    BY <1>1, <1>2, <1>3, <2>1, <2>2
  <2>4. QED
    BY <1>2, <2>1, <2>3 DEF AsTheyWere
<1>6. ASSUME Undo
      PROVE  done \in AsTheyWere'
  <2>1. disk' = [disk EXCEPT ![plan[done].path] = Bare(start[plan[done].path])]
    BY <1>6, OneBack DEF Undo
  <2>2. Bare(disk'[plan[done].path]) = Bare(start[plan[done].path])
    <3>1. start[plan[done].path] \in FileOrNone
      BY <1>1, <1>2 DEF IInv, TypeOK, FileOrNone
    <3>2. disk'[plan[done].path] = Bare(start[plan[done].path])
      BY <1>1, <1>2, <2>1
    <3> QED
      BY <3>1, <3>2, BareType
  <2>3. QED
    BY <1>2, <2>2 DEF AsTheyWere
<1>7. done \notin AsTheyWere
  BY <1>2 DEF AsTheyWere
<1>8. QED
  BY <1>4, <1>5, <1>6, <1>7

\* Every step keeps the count honest: one put back counts one, one that could not be does not count,
\* and a refused read has put nothing back.
LEMMA NextCounted == IInv /\ Counted /\ [Next]_vars => Counted'
<1> SUFFICES ASSUME IInv, Counted, [Next]_vars
             PROVE  Counted'
  OBVIOUS
<1>0. /\ Len(plan) \in Nat /\ done \in 0..Len(plan)
      /\ restored \in Nat /\ failedAt \in 0..Len(plan)
  BY PlanType DEF IInv, TypeOK
<1>01. AsTheyWere \subseteq 1..Len(plan) /\ AsTheyWere' \subseteq 1..Len(plan')
  BY DEF AsTheyWere
<1>1. CASE Begin \/ Finish
  BY <1>1 DEF Begin, Finish, Counted, Settled
<1>2. CASE ReadBefore \/ Act \/ Crash
  BY <1>2 DEF ReadBefore, Act, Crash, Counted
<1>3. CASE ReadRefused
  <2>1. Len(plan') \in Nat /\ restored' = 0 /\ phase' = "rolled_back" /\ done' = 0
    BY <1>0, <1>3 DEF ReadRefused, Counted, IInv, Reading
  <2>2. Cardinality(AsTheyWere') \in Nat
    BY <1>01, <2>1, Grows
  <2>3. restored' <= Cardinality(AsTheyWere')
    BY <2>1, <2>2
  <2>4. QED
    BY <2>1, <2>3 DEF Counted
<1>4. CASE Refused
  <2>1. /\ phase' = "undo" /\ restored' = 0 /\ failedAt' = done' + 1 /\ done' \in Nat
        /\ plan' = plan /\ done' < failedAt'
    BY <1>0, <1>4 DEF Refused, Counted
  <2>2. AsTheyWere' = {}
    BY <1>0, <2>1 DEF AsTheyWere
  <2>3. restored' <= Cardinality(AsTheyWere')
    BY <2>1, <2>2, FS_EmptySet
  <2>4. QED
    BY <2>1, <2>3 DEF Counted
<1>5. CASE Undo \/ UndoRefused
  <2>1. /\ AsTheyWere' \subseteq 1..Len(plan)
        /\ AsTheyWere \subseteq AsTheyWere'
        /\ Undo => AsTheyWere' # AsTheyWere
    BY <1>5, UndoneGrows
  <2>2. /\ Cardinality(AsTheyWere) \in Nat /\ Cardinality(AsTheyWere') \in Nat
        /\ Cardinality(AsTheyWere) <= Cardinality(AsTheyWere')
        /\ Undo => Cardinality(AsTheyWere) + 1 <= Cardinality(AsTheyWere')
    BY <1>0, <2>1, Grows
  <2>3. /\ phase' = "undo" /\ done < failedAt /\ done' = done - 1 /\ failedAt' = failedAt
        /\ restored <= Cardinality(AsTheyWere)
        /\ restored' = restored \/ (Undo /\ restored' = restored + 1)
    BY <1>5 DEF Undo, UndoRefused, Counted
  <2>4. restored' <= Cardinality(AsTheyWere')
    BY <1>0, <2>2, <2>3
  <2>5. QED
    BY <1>0, <2>3, <2>4 DEF Counted
<1>6. CASE Report
  <2>1. /\ UNCHANGED <<disk, plan, done, failedAt, restored, start>>
        /\ phase' = "rolled_back" /\ done = 0 /\ restored <= Cardinality(AsTheyWere)
    BY <1>6 DEF Report, Counted
  <2>2. AsTheyWere' = AsTheyWere
    BY <2>1 DEF AsTheyWere
  <2>3. QED
    BY <2>1, <2>2 DEF Counted
<1>7. CASE UNCHANGED vars
  <2>1. AsTheyWere' = AsTheyWere
    BY <1>7 DEF vars, AsTheyWere
  <2>2. QED
    BY <1>7, <2>1 DEF vars, Counted
<1>8. QED
  BY <1>1, <1>2, <1>3, <1>4, <1>5, <1>6, <1>7 DEF Next

\* The number of restored files a failure reports (transaction.rs, undo; lib.rs, "N file(s) restored")
\* is never more than the number of files that are as they were, for any plan, whatever is refused.
THEOREM CountIsHonest == Spec => []RestoredIsHonest
<1>1. Init => Counted
  BY DEF Init, Counted
<1>2. Spec => []Counted
  BY <1>1, InvariantHolds, NextCounted, PTL DEF Spec
<1>3. TypeOK /\ Counted => RestoredIsHonest
  <2> SUFFICES ASSUME TypeOK, Counted, phase = "rolled_back"
               PROVE  restored <= Cardinality({i \in 1..Len(plan) :
                           i < failedAt /\ Bare(disk[plan[i].path]) = Bare(start[plan[i].path])})
    BY DEF RestoredIsHonest
  <2>1. AsTheyWere = {i \in 1..Len(plan) :
                        i < failedAt /\ Bare(disk[plan[i].path]) = Bare(start[plan[i].path])}
    <3>1. Len(plan) \in Nat
      BY PlanType DEF TypeOK
    <3>2. QED
      BY <3>1 DEF AsTheyWere, Counted
  <2>2. QED
    BY <2>1 DEF Counted
<1>4. QED
  BY <1>2, <1>3, TypeCorrect, PTL
=============================================================================
