--------------------------- MODULE BackupsProofs ---------------------------
(***************************************************************************)
(* What holds of the backup store whatever the requests, the copies, the   *)
(* clock and the listings, which take no lock and run beside the changes.  *)
(***************************************************************************)
EXTENDS Backups, InstantsProofs, FiniteSetTheorems

Torn == [copies : SUBSET Copies, by : Requests \cup {None}]

\* The type of the store's state and of those who use it.
TypeOK ==
    /\ clock \in DOMAIN Clock
    /\ DOMAIN dirs \subseteq Names
    /\ dirs \in [DOMAIN dirs -> Torn]
    /\ lock \in Requests \cup {None}
    /\ pc \in [Requests -> Busy \cup {"idle", "done", "refused", "dead"}]
    /\ at \in [Requests -> DOMAIN Clock \cup {None}]
    /\ mine \in [Requests -> Names \cup {None}]
    /\ left \in [Requests -> SUBSET Copies]
    /\ named = [r \in Requests |-> named[r]]
    /\ lister \in [Listers -> {"idle", "looking", "removing", "done"}]
    /\ listed \in [Listers -> SUBSET Names]
    /\ target \in [Listers -> Names \cup {None}]
    /\ over \in [Listers -> SUBSET Requests]
    /\ met \in SUBSET Requests

\* A request that has arrived has its instant, and one that has a directory has its name.
Named == {"dir", "copy", "manifest", "newest", "apply", "done"}
Arrived ==
    \A r \in Requests :
        /\ pc[r] = "idle" <=> at[r] = None
        /\ pc[r] \in Named => mine[r] \in Names /\ \E n \in Nat : mine[r] = <<Stamps[at[r]], n>>

\* Who is changing files has the lock.
Locked == \A r \in Requests : pc[r] \in Holding => lock = r

\* How far a request has brought its directory, when no listing has met it.
Untouched == \A r \in Requests : pc[r] \in {"idle", "waiting", "name", "dir"} => left[r] = Copies
Free == \A r \in Requests : pc[r] = "dir" => mine[r] \notin DOMAIN dirs
Filling ==
    \A r \in Requests : pc[r] \in Writing =>
        /\ mine[r] \in DOMAIN dirs => dirs[mine[r]].by = None
        /\ pc[r] = "manifest" => left[r] = {}
        /\ r \notin met => mine[r] \in DOMAIN dirs /\ dirs[mine[r]].copies \cup left[r] = Copies
Recorded ==
    \A r \in Requests \ met : pc[r] \in {"newest", "apply", "done"} =>
        /\ mine[r] \in DOMAIN dirs
        /\ dirs[mine[r]] = [copies |-> Copies, by |-> r]

\* Every manifest is over a complete directory, and is its request's.
Complete ==
    \A d \in DOMAIN dirs :
        dirs[d].by # None /\ dirs[d].by \notin met => dirs[d].copies = Copies
Unnamed == {"idle", "waiting", "name"}
Signed ==
    \A d \in DOMAIN dirs : \A r \in Requests :
        dirs[d].by = r => pc[r] \notin Unnamed /\ mine[r] = d

\* A request whose directory is being removed while it writes there has been met, so what is being
\* removed has no manifest, or one of a request that was met.
Marked ==
    \A l \in Listers : lister[l] = "removing" =>
        \A r \in Requests : pc[r] \in Writing /\ mine[r] = target[l] => r \in met
Removable ==
    \A l \in Listers : lister[l] = "removing" /\ target[l] \in DOMAIN dirs =>
        dirs[target[l]].by = None \/ dirs[target[l]].by \in met

\* What has no manifest is still to be looked at, or is of a request that may be writing it, or may
\* have lost it to a listing.
Ended == \A l \in Listers : \A r \in over[l] : pc[r] \in {"dead", "refused"}
Excused(l, d) ==
    \E r \in Requests : pc[r] \notin Unnamed /\ mine[r] = d /\ (r \notin over[l] \/ r \in met)
Sweeping ==
    \A l \in Listers : lister[l] \in {"looking", "removing"} =>
        \A d \in DOMAIN dirs :
            \/ dirs[d].by # None \/ d \in listed[l]
            \/ lister[l] = "removing" /\ d = target[l]
            \/ Excused(l, d)

\* Every directory is one a request made.
Owned ==
    \A d \in DOMAIN dirs : \E r \in Requests :
        pc[r] \notin Unnamed /\ mine[r] = d /\ \E n \in Nat : d = <<Stamps[at[r]], n>>

IInv ==
    /\ TypeOK /\ Arrived /\ Locked
    /\ Untouched /\ Free /\ Filling /\ Recorded
    /\ Complete /\ Signed /\ Marked /\ Removable
    /\ Ended /\ Sweeping /\ Owned
-----------------------------------------------------------------------------
(* What a write in a directory leaves. *)

\* A file is written: the directory is there with it, and the others are as they were.
LEMMA WithFacts ==
    ASSUME NEW d, NEW r, dirs' = With(d, r)
    PROVE  /\ DOMAIN dirs' = DOMAIN dirs \cup {d}
           /\ dirs'[d] = r
           /\ \A x \in DOMAIN dirs \ {d} : dirs'[x] = dirs[x]
           /\ dirs' = [x \in DOMAIN dirs' |-> dirs'[x]]
  BY DEF With

\* What each write does to the directory it is in.
Leaves(r, d) ==
    /\ UNCHANGED <<clock, lock, at, mine, named, listVars>>
    /\ DOMAIN dirs' = DOMAIN dirs \cup {mine[r]}
    /\ dirs'[mine[r]] = d
    /\ \A x \in DOMAIN dirs \ {mine[r]} : dirs'[x] = dirs[x]
    /\ dirs' = [x \in DOMAIN dirs' |-> dirs'[x]]

DirMade(r) ==
    /\ pc[r] = "dir" /\ mine[r] \notin DOMAIN dirs
    /\ pc' = [pc EXCEPT ![r] = IF Copies = {} THEN "manifest" ELSE "copy"]
    /\ left' = left
    /\ met' = met \cup {q \in {r} : \E l \in Listers : target[l] = mine[r]}
    /\ Leaves(r, [copies |-> {}, by |-> None])

CopyMade(r, c) ==
    /\ pc[r] = "copy" /\ c \in left[r]
    /\ left' = [left EXCEPT ![r] = left[r] \ {c}]
    /\ pc' = IF left[r] \ {c} = {} THEN [pc EXCEPT ![r] = "manifest"] ELSE pc
    /\ met' = met
    /\ Dir(mine[r]).by = None
    /\ Leaves(r, [copies |-> Dir(mine[r]).copies \cup {c}, by |-> None])

ManifestMade(r) ==
    /\ pc[r] = "manifest" /\ left[r] = {}
    /\ Dir(mine[r]).by = None
    /\ pc' = [pc EXCEPT ![r] = "newest"]
    /\ left' = left
    /\ met' = met
    /\ Leaves(r, [copies |-> Dir(mine[r]).copies, by |-> r])

\* Who is writing finds its directory without a manifest, there or not.
LEMMA Unsigned ==
    ASSUME IInv, NEW r \in Requests, pc[r] \in Writing
    PROVE  Dir(mine[r]) \in Torn /\ Dir(mine[r]).by = None
<1>1. CASE mine[r] \in DOMAIN dirs
  BY <1>1 DEF Dir, IInv, TypeOK, Filling
<1>2. CASE mine[r] \notin DOMAIN dirs
  BY <1>2 DEF Dir, Torn
<1> QED
  BY <1>1, <1>2

\* The directory that is made is empty.
LEMMA MadeEmpty ==
    ASSUME IInv, NEW r \in Requests, MakeDir(r)
    PROVE  DirMade(r)
<1>1. pc[r] = "dir"
  BY DEF MakeDir, Step
<1>2. mine[r] \notin DOMAIN dirs
  BY <1>1 DEF IInv, Free
<1>3. Dir(mine[r]) = [copies |-> {}, by |-> None]
  BY <1>2 DEF Dir
<1>4. dirs' = With(mine[r], [copies |-> {}, by |-> None])
  BY <1>3 DEF MakeDir
<1>5. /\ DOMAIN dirs' = DOMAIN dirs \cup {mine[r]}
      /\ dirs'[mine[r]] = [copies |-> {}, by |-> None]
      /\ \A x \in DOMAIN dirs \ {mine[r]} : dirs'[x] = dirs[x]
      /\ dirs' = [x \in DOMAIN dirs' |-> dirs'[x]]
  BY <1>4, WithFacts, Zenon
<1>6. /\ pc' = [pc EXCEPT ![r] = IF Copies = {} THEN "manifest" ELSE "copy"]
      /\ left' = left
      /\ met' = met \cup {q \in {r} : \E l \in Listers : target[l] = mine[r]}
      /\ UNCHANGED <<clock, lock, at, mine, named, listVars>>
  BY DEF MakeDir, Step
<1> QED
  BY <1>1, <1>2, <1>5, <1>6 DEF Leaves, DirMade

\* One more copy is in it.
LEMMA CopyAdded ==
    ASSUME IInv, NEW r \in Requests, CopyFile(r)
    PROVE  \E c \in left[r] : CopyMade(r, c)
<1>1. pc[r] = "copy"
  BY DEF CopyFile
<1>2. PICK d \in Torn : d = Dir(mine[r]) /\ d.by = None
  BY <1>1, Unsigned DEF Writing
<1>3. PICK c \in left[r] :
          /\ left' = [left EXCEPT ![r] = @ \ {c}]
          /\ dirs' = With(mine[r], [Dir(mine[r]) EXCEPT !.copies = @ \cup {c}])
  BY DEF CopyFile
<1>4. [d EXCEPT !.copies = @ \cup {c}] = [copies |-> d.copies \cup {c}, by |-> None]
  BY <1>2 DEF Torn
<1>5. dirs' = With(mine[r], [copies |-> d.copies \cup {c}, by |-> None])
  BY <1>2, <1>3, <1>4, Zenon
<1>6. /\ DOMAIN dirs' = DOMAIN dirs \cup {mine[r]}
      /\ dirs'[mine[r]] = [copies |-> d.copies \cup {c}, by |-> None]
      /\ \A x \in DOMAIN dirs \ {mine[r]} : dirs'[x] = dirs[x]
      /\ dirs' = [x \in DOMAIN dirs' |-> dirs'[x]]
  BY <1>5, WithFacts, Zenon
<1>7. /\ pc' = IF left'[r] = {} THEN [pc EXCEPT ![r] = "manifest"] ELSE pc
      /\ UNCHANGED <<clock, lock, at, mine, named, listVars, met>>
  BY Zenon DEF CopyFile
<1>8. pc' = IF left[r] \ {c} = {} THEN [pc EXCEPT ![r] = "manifest"] ELSE pc
  <2>1. left'[r] = left[r] \ {c}
    BY <1>3 DEF IInv, TypeOK
  <2> QED
    BY <1>7, <2>1
<1> QED
  BY <1>1, <1>2, <1>3, <1>6, <1>7, <1>8, Zenon DEF Leaves, CopyMade

\* The manifest is in it, over the copies there are.
LEMMA ManifestAdded ==
    ASSUME IInv, NEW r \in Requests, WriteManifest(r)
    PROVE  ManifestMade(r)
<1>1. pc[r] = "manifest" /\ left[r] = {}
  BY DEF WriteManifest, Step, IInv, Filling, Writing
<1>2. PICK d \in Torn : d = Dir(mine[r]) /\ d.by = None
  BY <1>1, Unsigned DEF Writing
<1>3. [d EXCEPT !.by = r] = [copies |-> d.copies, by |-> r]
  BY <1>2 DEF Torn
<1>4. dirs' = With(mine[r], [copies |-> d.copies, by |-> r])
  BY <1>2, <1>3, Zenon DEF WriteManifest
<1>5. /\ DOMAIN dirs' = DOMAIN dirs \cup {mine[r]}
      /\ dirs'[mine[r]] = [copies |-> d.copies, by |-> r]
      /\ \A x \in DOMAIN dirs \ {mine[r]} : dirs'[x] = dirs[x]
      /\ dirs' = [x \in DOMAIN dirs' |-> dirs'[x]]
  BY <1>4, WithFacts, Zenon
<1>6. /\ pc' = [pc EXCEPT ![r] = "newest"] /\ left' = left
      /\ UNCHANGED <<clock, lock, at, mine, named, listVars, met>>
  BY Zenon DEF WriteManifest, Step
<1> QED
  BY <1>1, <1>2, <1>5, <1>6, Zenon DEF Leaves, ManifestMade
-----------------------------------------------------------------------------
(* One lemma for each part of the invariant, one step for each action. *)

\* What a listing takes from a directory: a copy, or a manifest of a request that was met.
LEMMA OneRemoved ==
    ASSUME IInv, NEW l \in Listers, RemoveOne(l)
    PROVE  /\ UNCHANGED <<clock, reqVars, listVars, met>>
           /\ lister[l] = "removing" /\ target[l] \in DOMAIN dirs
           /\ dirs[target[l]].by = None \/ dirs[target[l]].by \in met
           /\ DOMAIN dirs' = DOMAIN dirs
           /\ \A x \in DOMAIN dirs \ {target[l]} : dirs'[x] = dirs[x]
           /\ dirs'[target[l]].by \in {dirs[target[l]].by, None}
<1>1. /\ UNCHANGED <<clock, reqVars, listVars, met>>
      /\ lister[l] = "removing" /\ target[l] \in DOMAIN dirs
      /\ dirs[target[l]].by = None \/ dirs[target[l]].by \in met
  BY DEF RemoveOne, IInv, Removable
<1>2. PICK d : d = target[l]
  OBVIOUS
<1>3. /\ DOMAIN dirs' = DOMAIN dirs
      /\ \A x \in DOMAIN dirs \ {d} : dirs'[x] = dirs[x]
      /\ dirs'[d].by \in {dirs[d].by, None}
  <2>1. dirs \in [DOMAIN dirs -> Torn] /\ d \in DOMAIN dirs /\ dirs[d] \in Torn
    BY <1>1, <1>2 DEF IInv, TypeOK
  <2>2. CASE dirs' = [dirs EXCEPT ![d].by = None]
    BY <2>1, <2>2 DEF Torn
  <2>3. ASSUME NEW c \in dirs[d].copies, dirs' = [dirs EXCEPT ![d].copies = @ \ {c}]
        PROVE  /\ DOMAIN dirs' = DOMAIN dirs
               /\ \A x \in DOMAIN dirs \ {d} : dirs'[x] = dirs[x]
               /\ dirs'[d].by \in {dirs[d].by, None}
    BY <2>1, <2>3 DEF Torn
  <2> QED
    BY <1>2, <2>2, <2>3 DEF RemoveOne
<1> QED
  BY <1>1, <1>2, <1>3

\* A directory that is written has the type of one.
LEMMA LeavesTyped ==
    ASSUME IInv, NEW r \in Requests, NEW d \in Torn, Leaves(r, d), mine[r] \in Names,
           pc' \in [Requests -> Busy \cup {"idle", "done", "refused", "dead"}],
           left' \in [Requests -> SUBSET Copies], met' \in SUBSET Requests
    PROVE  TypeOK'
<1>1. DOMAIN dirs' \subseteq Names
  BY DEF Leaves, IInv, TypeOK
<1>2. \A x \in DOMAIN dirs' : dirs'[x] \in Torn
  <2>1. \A x \in DOMAIN dirs : dirs[x] \in Torn
    BY DEF IInv, TypeOK
  <2> QED
    BY <2>1 DEF Leaves
<1>3. dirs' \in [DOMAIN dirs' -> Torn]
  <2>1. dirs' = [x \in DOMAIN dirs' |-> dirs'[x]]
    BY DEF Leaves
  <2> QED
    BY <1>2, <2>1
<1> QED
  BY <1>1, <1>3 DEF Leaves, IInv, TypeOK, listVars

\* The types are kept.
LEMMA StepTypeOK ==
    ASSUME IInv, [Next]_vars
    PROVE  TypeOK'
<1> USE BackupsAssumption
<1>1. CASE UNCHANGED vars
  BY <1>1 DEF vars, reqVars, listVars, Committed, IInv, TypeOK, Arrived, Named, Busy, Holding, Torn
<1>2. CASE Tick
  BY <1>2 DEF Tick, reqVars, listVars, Committed, IInv, TypeOK, Arrived, Named, Busy, Holding, Torn
<1>3. ASSUME NEW r \in Requests, Arrive(r) PROVE TypeOK'
  BY <1>3 DEF Arrive, Step, reqVars, listVars, Committed, IInv, TypeOK, Arrived, Named, Busy,
     Holding, Torn
<1>4. ASSUME NEW r \in Requests, Acquire(r) PROVE TypeOK'
  BY <1>4 DEF Acquire, Step, reqVars, listVars, Committed, IInv, TypeOK, Arrived, Named, Busy,
     Holding, Torn
<1>5. ASSUME NEW r \in Requests, FreeName(r) PROVE TypeOK'
  <2>1. PICK n \in 1..Cardinality(Requests) : mine' = [mine EXCEPT ![r] = <<Stamps[at[r]], n>>]
    BY <1>5 DEF FreeName
  <2>2. at[r] \in DOMAIN Clock
    BY <1>5 DEF FreeName, Step, IInv, TypeOK, Arrived
  <2>3. <<Stamps[at[r]], n>> \in Names
    BY <2>2 DEF Names
  <2>4. mine' \in [Requests -> Names \cup {None}]
    BY <2>1, <2>3 DEF IInv, TypeOK
  <2> QED
    BY <1>5, <2>4 DEF FreeName, Step, IInv, TypeOK, listVars, Busy
<1>6. ASSUME NEW r \in Requests, MakeDir(r) PROVE TypeOK'
  <2>1. DirMade(r)
    BY <1>6, MadeEmpty
  <2>2. mine[r] \in Names /\ [copies |-> {}, by |-> None] \in Torn
    BY <2>1 DEF DirMade, IInv, Arrived, Named, Torn
  <2>3. /\ pc' \in [Requests -> Busy \cup {"idle", "done", "refused", "dead"}]
        /\ left' \in [Requests -> SUBSET Copies]
        /\ met' \in SUBSET Requests
    BY <2>1 DEF DirMade, IInv, TypeOK, Busy
  <2> QED
    BY <2>1, <2>2, <2>3, LeavesTyped DEF DirMade
<1>7. ASSUME NEW r \in Requests, CopyFile(r) PROVE TypeOK'
  <2>1. PICK c \in left[r] : CopyMade(r, c)
    BY <1>7, CopyAdded
  <2>2. mine[r] \in Names /\ Dir(mine[r]) \in Torn /\ c \in Copies
    BY <2>1, Unsigned DEF CopyMade, IInv, TypeOK, Arrived, Named, Writing
  <2>3. [copies |-> Dir(mine[r]).copies \cup {c}, by |-> None] \in Torn
    BY <2>2 DEF Torn
  <2>4. /\ pc' \in [Requests -> Busy \cup {"idle", "done", "refused", "dead"}]
        /\ left' \in [Requests -> SUBSET Copies]
        /\ met' \in SUBSET Requests
    BY <2>1 DEF CopyMade, IInv, TypeOK, Busy
  <2> QED
    BY <2>1, <2>2, <2>3, <2>4, LeavesTyped DEF CopyMade
<1>8. ASSUME NEW r \in Requests, WriteManifest(r) PROVE TypeOK'
  <2>1. ManifestMade(r)
    BY <1>8, ManifestAdded
  <2>2. mine[r] \in Names /\ Dir(mine[r]) \in Torn
    BY <2>1, Unsigned DEF ManifestMade, IInv, Arrived, Named, Writing
  <2>3. [copies |-> Dir(mine[r]).copies, by |-> r] \in Torn
    BY <2>2 DEF Torn
  <2>4. /\ pc' \in [Requests -> Busy \cup {"idle", "done", "refused", "dead"}]
        /\ left' \in [Requests -> SUBSET Copies]
        /\ met' \in SUBSET Requests
    BY <2>1 DEF ManifestMade, IInv, TypeOK, Busy
  <2> QED
    BY <2>1, <2>2, <2>3, <2>4, LeavesTyped DEF ManifestMade
<1>9. ASSUME NEW r \in Requests, NameNewest(r) PROVE TypeOK'
  BY <1>9 DEF NameNewest, Step, reqVars, listVars, Committed, IInv, TypeOK, Arrived, Named, Busy,
     Holding, Torn
<1>10. ASSUME NEW r \in Requests, Finish(r) PROVE TypeOK'
  BY <1>10 DEF Finish, Step, reqVars, listVars, Committed, IInv, TypeOK, Arrived, Named, Busy,
     Holding, Torn
<1>11. ASSUME NEW r \in Requests, Refuse(r) PROVE TypeOK'
  BY <1>11 DEF Refuse, reqVars, listVars, Committed, IInv, TypeOK, Arrived, Named, Busy, Holding,
     Torn
<1>12. ASSUME NEW r \in Requests, Crash(r) PROVE TypeOK'
  BY <1>12 DEF Crash, reqVars, listVars, Committed, IInv, TypeOK, Arrived, Named, Busy, Holding,
     Torn
<1>13. ASSUME NEW l \in Listers, ReadDir(l) PROVE TypeOK'
  BY <1>13 DEF ReadDir, reqVars, listVars, Committed, IInv, TypeOK, Arrived, Named, Busy, Holding,
     Torn
<1>14. ASSUME NEW l \in Listers, Look(l) PROVE TypeOK'
  <2>1. PICK d \in listed[l] :
            /\ listed' = [listed EXCEPT ![l] = @ \ {d}]
            /\ \/ UNCHANGED <<lister, target>>
               \/ /\ lister' = [lister EXCEPT ![l] = "removing"]
                  /\ target' = [target EXCEPT ![l] = d]
    BY <1>14 DEF Look
  <2>2. listed' \in [Listers -> SUBSET Names] /\ d \in Names
    BY <2>1 DEF IInv, TypeOK
  <2>3. /\ lister' \in [Listers -> {"idle", "looking", "removing", "done"}]
        /\ target' \in [Listers -> Names \cup {None}]
    BY <2>1, <2>2 DEF IInv, TypeOK
  <2> QED
    BY <1>14, <2>2, <2>3 DEF Look, IInv, TypeOK, reqVars
<1>15. ASSUME NEW l \in Listers, RemoveOne(l) PROVE TypeOK'
  <2>1. PICK d : d = target[l]
    OBVIOUS
  <2>2. /\ d \in DOMAIN dirs
        /\ \/ \E c \in dirs[d].copies : dirs' = [dirs EXCEPT ![d].copies = @ \ {c}]
           \/ dirs' = [dirs EXCEPT ![d].by = None]
    BY <1>15, <2>1 DEF RemoveOne
  <2>3. DOMAIN dirs' = DOMAIN dirs /\ dirs' \in [DOMAIN dirs -> Torn]
    <3>1. CASE dirs' = [dirs EXCEPT ![d].by = None]
      BY <2>2, <3>1 DEF IInv, TypeOK, Torn
    <3>2. ASSUME NEW c \in dirs[d].copies, dirs' = [dirs EXCEPT ![d].copies = @ \ {c}]
          PROVE  DOMAIN dirs' = DOMAIN dirs /\ dirs' \in [DOMAIN dirs -> Torn]
      <4>1. dirs[d] \in Torn
        BY <2>2 DEF IInv, TypeOK
      <4>2. [dirs[d] EXCEPT !.copies = @ \ {c}] \in Torn
        BY <4>1 DEF Torn
      <4>3. dirs' = [dirs EXCEPT ![d] = [dirs[d] EXCEPT !.copies = @ \ {c}]]
        BY <2>2, <3>2 DEF IInv, TypeOK
      <4> QED
        BY <2>2, <4>2, <4>3 DEF IInv, TypeOK
    <3> QED
      BY <2>2, <3>1, <3>2
  <2> QED
    BY <1>15, <2>3 DEF RemoveOne, IInv, TypeOK, reqVars, listVars
<1>16. ASSUME NEW l \in Listers, RemoveDir(l) PROVE TypeOK'
  BY <1>16 DEF RemoveDir, reqVars, listVars, Committed, IInv, TypeOK, Arrived, Named, Busy,
     Holding, Torn
<1>17. ASSUME NEW l \in Listers, RemoveFails(l) PROVE TypeOK'
  BY <1>17 DEF RemoveFails, reqVars, listVars, Committed, IInv, TypeOK, Arrived, Named, Busy,
     Holding, Torn
<1>18. ASSUME NEW l \in Listers, ListDone(l) PROVE TypeOK'
  BY <1>18 DEF ListDone, reqVars, listVars, Committed, IInv, TypeOK, Arrived, Named, Busy, Holding,
     Torn
<1> QED
  BY <1>1, <1>2, <1>3, <1>4, <1>5, <1>6, <1>7, <1>8, <1>9, <1>10, <1>11, <1>12, <1>13, <1>14, <1>15,
     <1>16, <1>17, <1>18 DEF Next, Change, List

\* A name is of the request's own instant.
LEMMA StepArrived ==
    ASSUME IInv, [Next]_vars
    PROVE  Arrived'
<1> USE BackupsAssumption
<1>1. CASE UNCHANGED vars
  BY <1>1 DEF vars, reqVars, listVars, Committed, IInv, TypeOK, Arrived, Named, Busy, Holding
<1>2. CASE Tick
  BY <1>2 DEF Tick, reqVars, listVars, Committed, IInv, TypeOK, Arrived, Named, Busy, Holding
<1>3. ASSUME NEW r \in Requests, Arrive(r) PROVE Arrived'
  BY <1>3 DEF Arrive, Step, reqVars, listVars, Committed, IInv, TypeOK, Arrived, Named, Busy,
     Holding
<1>4. ASSUME NEW r \in Requests, Acquire(r) PROVE Arrived'
  BY <1>4 DEF Acquire, Step, reqVars, listVars, Committed, IInv, TypeOK, Arrived, Named, Busy,
     Holding
<1>5. ASSUME NEW r \in Requests, FreeName(r) PROVE Arrived'
  <2>1. PICK n \in 1..Cardinality(Requests) : mine' = [mine EXCEPT ![r] = <<Stamps[at[r]], n>>]
    BY <1>5 DEF FreeName
  <2>2. at[r] \in DOMAIN Clock
    BY <1>5 DEF FreeName, Step, IInv, TypeOK, Arrived
  <2>3. <<Stamps[at[r]], n>> \in Names
    BY <2>2 DEF Names
  <2>4. mine'[r] = <<Stamps[at[r]], n>> /\ n \in Nat
    BY <2>1 DEF IInv, TypeOK
  <2>5. \A q \in Requests \ {r} : mine'[q] = mine[q] /\ pc'[q] = pc[q]
    BY <1>5, <2>1 DEF FreeName, Step, IInv, TypeOK
  <2>6. pc[r] = "name" /\ pc'[r] = "dir" /\ at' = at
    BY <1>5 DEF FreeName, Step, IInv, TypeOK
  <2> QED
    BY <2>3, <2>4, <2>5, <2>6 DEF IInv, Arrived, Named
<1>6. ASSUME NEW r \in Requests, MakeDir(r) PROVE Arrived'
  <2>1. DirMade(r)
    BY <1>6, MadeEmpty
  <2> QED
    BY <2>1 DEF DirMade, Leaves, Step, reqVars, listVars, Committed, IInv, TypeOK, Arrived, Named,
       Busy, Holding
<1>7. ASSUME NEW r \in Requests, CopyFile(r) PROVE Arrived'
  <2>1. PICK c \in left[r] : CopyMade(r, c)
    BY <1>7, CopyAdded
  <2> QED
    BY <2>1 DEF CopyMade, Leaves, reqVars, listVars, Committed, IInv, TypeOK, Arrived, Named, Busy,
       Holding
<1>8. ASSUME NEW r \in Requests, WriteManifest(r) PROVE Arrived'
  <2>1. ManifestMade(r)
    BY <1>8, ManifestAdded
  <2> QED
    BY <2>1 DEF ManifestMade, Leaves, Step, reqVars, listVars, Committed, IInv, TypeOK, Arrived,
       Named, Busy, Holding
<1>9. ASSUME NEW r \in Requests, NameNewest(r) PROVE Arrived'
  BY <1>9 DEF NameNewest, Step, reqVars, listVars, Committed, IInv, TypeOK, Arrived, Named, Busy,
     Holding
<1>10. ASSUME NEW r \in Requests, Finish(r) PROVE Arrived'
  BY <1>10 DEF Finish, Step, reqVars, listVars, Committed, IInv, TypeOK, Arrived, Named, Busy,
     Holding
<1>11. ASSUME NEW r \in Requests, Refuse(r) PROVE Arrived'
  BY <1>11 DEF Refuse, reqVars, listVars, Committed, IInv, TypeOK, Arrived, Named, Busy, Holding
<1>12. ASSUME NEW r \in Requests, Crash(r) PROVE Arrived'
  BY <1>12 DEF Crash, reqVars, listVars, Committed, IInv, TypeOK, Arrived, Named, Busy, Holding
<1>13. ASSUME NEW l \in Listers, ReadDir(l) PROVE Arrived'
  BY <1>13 DEF ReadDir, reqVars, listVars, Committed, IInv, TypeOK, Arrived, Named, Busy, Holding
<1>14. ASSUME NEW l \in Listers, Look(l) PROVE Arrived'
  BY <1>14 DEF Look, reqVars, listVars, Committed, IInv, TypeOK, Arrived, Named, Busy, Holding
<1>15. ASSUME NEW l \in Listers, RemoveOne(l) PROVE Arrived'
  BY <1>15 DEF RemoveOne, reqVars, listVars, Committed, IInv, TypeOK, Arrived, Named, Busy, Holding
<1>16. ASSUME NEW l \in Listers, RemoveDir(l) PROVE Arrived'
  BY <1>16 DEF RemoveDir, reqVars, listVars, Committed, IInv, TypeOK, Arrived, Named, Busy, Holding
<1>17. ASSUME NEW l \in Listers, RemoveFails(l) PROVE Arrived'
  BY <1>17 DEF RemoveFails, reqVars, listVars, Committed, IInv, TypeOK, Arrived, Named, Busy,
     Holding
<1>18. ASSUME NEW l \in Listers, ListDone(l) PROVE Arrived'
  BY <1>18 DEF ListDone, reqVars, listVars, Committed, IInv, TypeOK, Arrived, Named, Busy, Holding
<1> QED
  BY <1>1, <1>2, <1>3, <1>4, <1>5, <1>6, <1>7, <1>8, <1>9, <1>10, <1>11, <1>12, <1>13, <1>14, <1>15,
     <1>16, <1>17, <1>18 DEF Next, Change, List

\* The lock is passed from one request to the next.
LEMMA StepLocked ==
    ASSUME IInv, [Next]_vars
    PROVE  Locked'
<1> USE BackupsAssumption
<1>1. CASE UNCHANGED vars
  BY <1>1 DEF vars, reqVars, listVars, Committed, IInv, TypeOK, Locked, Busy, Holding
<1>2. CASE Tick
  BY <1>2 DEF Tick, reqVars, listVars, Committed, IInv, TypeOK, Locked, Busy, Holding
<1>3. ASSUME NEW r \in Requests, Arrive(r) PROVE Locked'
  BY <1>3 DEF Arrive, Step, reqVars, listVars, Committed, IInv, TypeOK, Locked, Busy, Holding
<1>4. ASSUME NEW r \in Requests, Acquire(r) PROVE Locked'
  BY <1>4 DEF Acquire, Step, reqVars, listVars, Committed, IInv, TypeOK, Locked, Busy, Holding
<1>5. ASSUME NEW r \in Requests, FreeName(r) PROVE Locked'
  BY <1>5 DEF FreeName, Step, reqVars, listVars, Committed, IInv, TypeOK, Locked, Busy, Holding
<1>6. ASSUME NEW r \in Requests, MakeDir(r) PROVE Locked'
  <2>1. DirMade(r)
    BY <1>6, MadeEmpty
  <2> QED
    BY <2>1 DEF DirMade, Leaves, Step, reqVars, listVars, Committed, IInv, TypeOK, Locked, Busy,
       Holding
<1>7. ASSUME NEW r \in Requests, CopyFile(r) PROVE Locked'
  <2>1. PICK c \in left[r] : CopyMade(r, c)
    BY <1>7, CopyAdded
  <2> QED
    BY <2>1 DEF CopyMade, Leaves, reqVars, listVars, Committed, IInv, TypeOK, Locked, Busy, Holding
<1>8. ASSUME NEW r \in Requests, WriteManifest(r) PROVE Locked'
  <2>1. ManifestMade(r)
    BY <1>8, ManifestAdded
  <2> QED
    BY <2>1 DEF ManifestMade, Leaves, Step, reqVars, listVars, Committed, IInv, TypeOK, Locked,
       Busy, Holding
<1>9. ASSUME NEW r \in Requests, NameNewest(r) PROVE Locked'
  BY <1>9 DEF NameNewest, Step, reqVars, listVars, Committed, IInv, TypeOK, Locked, Busy, Holding
<1>10. ASSUME NEW r \in Requests, Finish(r) PROVE Locked'
  BY <1>10 DEF Finish, Step, reqVars, listVars, Committed, IInv, TypeOK, Locked, Busy, Holding
<1>11. ASSUME NEW r \in Requests, Refuse(r) PROVE Locked'
  BY <1>11 DEF Refuse, reqVars, listVars, Committed, IInv, TypeOK, Locked, Busy, Holding
<1>12. ASSUME NEW r \in Requests, Crash(r) PROVE Locked'
  BY <1>12 DEF Crash, reqVars, listVars, Committed, IInv, TypeOK, Locked, Busy, Holding
<1>13. ASSUME NEW l \in Listers, ReadDir(l) PROVE Locked'
  BY <1>13 DEF ReadDir, reqVars, listVars, Committed, IInv, TypeOK, Locked, Busy, Holding
<1>14. ASSUME NEW l \in Listers, Look(l) PROVE Locked'
  BY <1>14 DEF Look, reqVars, listVars, Committed, IInv, TypeOK, Locked, Busy, Holding
<1>15. ASSUME NEW l \in Listers, RemoveOne(l) PROVE Locked'
  BY <1>15 DEF RemoveOne, reqVars, listVars, Committed, IInv, TypeOK, Locked, Busy, Holding
<1>16. ASSUME NEW l \in Listers, RemoveDir(l) PROVE Locked'
  BY <1>16 DEF RemoveDir, reqVars, listVars, Committed, IInv, TypeOK, Locked, Busy, Holding
<1>17. ASSUME NEW l \in Listers, RemoveFails(l) PROVE Locked'
  BY <1>17 DEF RemoveFails, reqVars, listVars, Committed, IInv, TypeOK, Locked, Busy, Holding
<1>18. ASSUME NEW l \in Listers, ListDone(l) PROVE Locked'
  BY <1>18 DEF ListDone, reqVars, listVars, Committed, IInv, TypeOK, Locked, Busy, Holding
<1> QED
  BY <1>1, <1>2, <1>3, <1>4, <1>5, <1>6, <1>7, <1>8, <1>9, <1>10, <1>11, <1>12, <1>13, <1>14, <1>15,
     <1>16, <1>17, <1>18 DEF Next, Change, List

\* No copy is written before there is a directory.
LEMMA StepUntouched ==
    ASSUME IInv, [Next]_vars
    PROVE  Untouched'
<1> USE BackupsAssumption
<1>1. CASE UNCHANGED vars
  BY <1>1 DEF vars, reqVars, listVars, Committed, IInv, TypeOK, Untouched
<1>2. CASE Tick
  BY <1>2 DEF Tick, reqVars, listVars, Committed, IInv, TypeOK, Untouched
<1>3. ASSUME NEW r \in Requests, Arrive(r) PROVE Untouched'
  BY <1>3 DEF Arrive, Step, reqVars, listVars, Committed, IInv, TypeOK, Untouched
<1>4. ASSUME NEW r \in Requests, Acquire(r) PROVE Untouched'
  BY <1>4 DEF Acquire, Step, reqVars, listVars, Committed, IInv, TypeOK, Untouched
<1>5. ASSUME NEW r \in Requests, FreeName(r) PROVE Untouched'
  BY <1>5 DEF FreeName, Step, reqVars, listVars, Committed, IInv, TypeOK, Untouched
<1>6. ASSUME NEW r \in Requests, MakeDir(r) PROVE Untouched'
  <2>1. DirMade(r)
    BY <1>6, MadeEmpty
  <2> QED
    BY <2>1 DEF DirMade, Leaves, Step, reqVars, listVars, Committed, IInv, TypeOK, Untouched
<1>7. ASSUME NEW r \in Requests, CopyFile(r) PROVE Untouched'
  <2>1. PICK c \in left[r] : CopyMade(r, c)
    BY <1>7, CopyAdded
  <2> QED
    BY <2>1 DEF CopyMade, Leaves, reqVars, listVars, Committed, IInv, TypeOK, Untouched
<1>8. ASSUME NEW r \in Requests, WriteManifest(r) PROVE Untouched'
  <2>1. ManifestMade(r)
    BY <1>8, ManifestAdded
  <2> QED
    BY <2>1 DEF ManifestMade, Leaves, Step, reqVars, listVars, Committed, IInv, TypeOK, Untouched
<1>9. ASSUME NEW r \in Requests, NameNewest(r) PROVE Untouched'
  BY <1>9 DEF NameNewest, Step, reqVars, listVars, Committed, IInv, TypeOK, Untouched
<1>10. ASSUME NEW r \in Requests, Finish(r) PROVE Untouched'
  BY <1>10 DEF Finish, Step, reqVars, listVars, Committed, IInv, TypeOK, Untouched
<1>11. ASSUME NEW r \in Requests, Refuse(r) PROVE Untouched'
  BY <1>11 DEF Refuse, reqVars, listVars, Committed, IInv, TypeOK, Untouched
<1>12. ASSUME NEW r \in Requests, Crash(r) PROVE Untouched'
  BY <1>12 DEF Crash, reqVars, listVars, Committed, IInv, TypeOK, Untouched
<1>13. ASSUME NEW l \in Listers, ReadDir(l) PROVE Untouched'
  BY <1>13 DEF ReadDir, reqVars, listVars, Committed, IInv, TypeOK, Untouched
<1>14. ASSUME NEW l \in Listers, Look(l) PROVE Untouched'
  BY <1>14 DEF Look, reqVars, listVars, Committed, IInv, TypeOK, Untouched
<1>15. ASSUME NEW l \in Listers, RemoveOne(l) PROVE Untouched'
  BY <1>15 DEF RemoveOne, reqVars, listVars, Committed, IInv, TypeOK, Untouched
<1>16. ASSUME NEW l \in Listers, RemoveDir(l) PROVE Untouched'
  BY <1>16 DEF RemoveDir, reqVars, listVars, Committed, IInv, TypeOK, Untouched
<1>17. ASSUME NEW l \in Listers, RemoveFails(l) PROVE Untouched'
  BY <1>17 DEF RemoveFails, reqVars, listVars, Committed, IInv, TypeOK, Untouched
<1>18. ASSUME NEW l \in Listers, ListDone(l) PROVE Untouched'
  BY <1>18 DEF ListDone, reqVars, listVars, Committed, IInv, TypeOK, Untouched
<1> QED
  BY <1>1, <1>2, <1>3, <1>4, <1>5, <1>6, <1>7, <1>8, <1>9, <1>10, <1>11, <1>12, <1>13, <1>14, <1>15,
     <1>16, <1>17, <1>18 DEF Next, Change, List

\* The name that was free stays free: only the lock's holder makes a directory.
LEMMA StepFree ==
    ASSUME IInv, [Next]_vars
    PROVE  Free'
<1> USE BackupsAssumption
<1>1. CASE UNCHANGED vars
  BY <1>1 DEF vars, reqVars, listVars, Committed, IInv, TypeOK, Free, Locked, Busy, Holding, Dir
<1>2. CASE Tick
  BY <1>2 DEF Tick, reqVars, listVars, Committed, IInv, TypeOK, Free, Locked, Busy, Holding, Dir
<1>3. ASSUME NEW r \in Requests, Arrive(r) PROVE Free'
  BY <1>3 DEF Arrive, Step, reqVars, listVars, Committed, IInv, TypeOK, Free, Locked, Busy,
     Holding, Dir
<1>4. ASSUME NEW r \in Requests, Acquire(r) PROVE Free'
  BY <1>4 DEF Acquire, Step, reqVars, listVars, Committed, IInv, TypeOK, Free, Locked, Busy,
     Holding, Dir
<1>5. ASSUME NEW r \in Requests, FreeName(r) PROVE Free'
  BY <1>5 DEF FreeName, Step, reqVars, listVars, Committed, IInv, TypeOK, Free, Locked, Busy,
     Holding, Dir
<1>6. ASSUME NEW r \in Requests, MakeDir(r) PROVE Free'
  <2>1. DirMade(r)
    BY <1>6, MadeEmpty
  <2> QED
    BY <2>1 DEF DirMade, Leaves, Step, reqVars, listVars, Committed, IInv, TypeOK, Free, Locked,
       Busy, Holding
<1>7. ASSUME NEW r \in Requests, CopyFile(r) PROVE Free'
  <2>1. PICK c \in left[r] : CopyMade(r, c)
    BY <1>7, CopyAdded
  <2> QED
    BY <2>1 DEF CopyMade, Leaves, reqVars, listVars, Committed, IInv, TypeOK, Free, Locked, Busy,
       Holding
<1>8. ASSUME NEW r \in Requests, WriteManifest(r) PROVE Free'
  <2>1. ManifestMade(r)
    BY <1>8, ManifestAdded
  <2> QED
    BY <2>1 DEF ManifestMade, Leaves, Step, reqVars, listVars, Committed, IInv, TypeOK, Free,
       Locked, Busy, Holding
<1>9. ASSUME NEW r \in Requests, NameNewest(r) PROVE Free'
  BY <1>9 DEF NameNewest, Step, reqVars, listVars, Committed, IInv, TypeOK, Free, Locked, Busy,
     Holding, Dir
<1>10. ASSUME NEW r \in Requests, Finish(r) PROVE Free'
  BY <1>10 DEF Finish, Step, reqVars, listVars, Committed, IInv, TypeOK, Free, Locked, Busy,
     Holding, Dir
<1>11. ASSUME NEW r \in Requests, Refuse(r) PROVE Free'
  BY <1>11 DEF Refuse, reqVars, listVars, Committed, IInv, TypeOK, Free, Locked, Busy, Holding, Dir
<1>12. ASSUME NEW r \in Requests, Crash(r) PROVE Free'
  BY <1>12 DEF Crash, reqVars, listVars, Committed, IInv, TypeOK, Free, Locked, Busy, Holding, Dir
<1>13. ASSUME NEW l \in Listers, ReadDir(l) PROVE Free'
  BY <1>13 DEF ReadDir, reqVars, listVars, Committed, IInv, TypeOK, Free, Locked, Busy, Holding, Dir
<1>14. ASSUME NEW l \in Listers, Look(l) PROVE Free'
  BY <1>14 DEF Look, reqVars, listVars, Committed, IInv, TypeOK, Free, Locked, Busy, Holding, Dir
<1>15. ASSUME NEW l \in Listers, RemoveOne(l) PROVE Free'
  BY <1>15 DEF RemoveOne, reqVars, listVars, Committed, IInv, TypeOK, Free, Locked, Busy, Holding,
     Dir
<1>16. ASSUME NEW l \in Listers, RemoveDir(l) PROVE Free'
  BY <1>16 DEF RemoveDir, reqVars, listVars, Committed, IInv, TypeOK, Free, Locked, Busy, Holding,
     Dir
<1>17. ASSUME NEW l \in Listers, RemoveFails(l) PROVE Free'
  BY <1>17 DEF RemoveFails, reqVars, listVars, Committed, IInv, TypeOK, Free, Locked, Busy,
     Holding, Dir
<1>18. ASSUME NEW l \in Listers, ListDone(l) PROVE Free'
  BY <1>18 DEF ListDone, reqVars, listVars, Committed, IInv, TypeOK, Free, Locked, Busy, Holding,
     Dir
<1> QED
  BY <1>1, <1>2, <1>3, <1>4, <1>5, <1>6, <1>7, <1>8, <1>9, <1>10, <1>11, <1>12, <1>13, <1>14, <1>15,
     <1>16, <1>17, <1>18 DEF Next, Change, List

\* What is written and what is left are all the copies.
LEMMA StepFilling ==
    ASSUME IInv, [Next]_vars
    PROVE  Filling'
<1> USE BackupsAssumption
<1>1. CASE UNCHANGED vars
  BY <1>1 DEF vars, reqVars, listVars, Committed, IInv, TypeOK, Filling, Free, Untouched, Locked,
     Marked, Writing, Busy, Holding, Dir, Torn
<1>2. CASE Tick
  BY <1>2 DEF Tick, reqVars, listVars, Committed, IInv, TypeOK, Filling, Free, Untouched, Locked,
     Marked, Writing, Busy, Holding, Dir, Torn
<1>3. ASSUME NEW r \in Requests, Arrive(r) PROVE Filling'
  BY <1>3 DEF Arrive, Step, reqVars, listVars, Committed, IInv, TypeOK, Filling, Free, Untouched,
     Locked, Marked, Writing, Busy, Holding, Dir, Torn
<1>4. ASSUME NEW r \in Requests, Acquire(r) PROVE Filling'
  BY <1>4 DEF Acquire, Step, reqVars, listVars, Committed, IInv, TypeOK, Filling, Free, Untouched,
     Locked, Marked, Writing, Busy, Holding, Dir, Torn
<1>5. ASSUME NEW r \in Requests, FreeName(r) PROVE Filling'
  BY <1>5 DEF FreeName, Step, reqVars, listVars, Committed, IInv, TypeOK, Filling, Free, Untouched,
     Locked, Marked, Writing, Busy, Holding, Dir, Torn
<1>6. ASSUME NEW r \in Requests, MakeDir(r) PROVE Filling'
  <2>1. DirMade(r)
    BY <1>6, MadeEmpty
  <2> QED
    BY <2>1 DEF DirMade, Leaves, Step, reqVars, listVars, Committed, IInv, TypeOK, Filling, Free,
       Untouched, Locked, Marked, Writing, Busy, Holding, Torn
<1>7. ASSUME NEW r \in Requests, CopyFile(r) PROVE Filling'
  <2>1. PICK c \in left[r] : CopyMade(r, c)
    BY <1>7, CopyAdded
  <2>2. \A q \in Requests \ {r} : pc[q] \notin Writing /\ pc'[q] = pc[q]
    BY <2>1 DEF CopyMade, IInv, TypeOK, Locked, Writing, Holding, Busy
  <2>3. pc'[r] \in Writing /\ (pc'[r] = "manifest" => left[r] \ {c} = {}) /\ left'[r] = left[r] \ {c}
    BY <2>1 DEF CopyMade, IInv, TypeOK, Writing
  <2>4. /\ mine'[r] \in DOMAIN dirs'
        /\ dirs'[mine'[r]] = [copies |-> Dir(mine[r]).copies \cup {c}, by |-> None]
    BY <2>1 DEF CopyMade, Leaves
  <2>5. r \notin met' => Dir(mine[r]).copies \cup left[r] = Copies
    BY <2>1 DEF CopyMade, IInv, Filling, Writing, Dir
  <2>6. dirs'[mine'[r]].copies \cup left'[r] = Dir(mine[r]).copies \cup left[r]
    BY <2>1, <2>3, <2>4 DEF CopyMade
  <2> QED
    BY <2>2, <2>3, <2>4, <2>5, <2>6 DEF Filling
<1>8. ASSUME NEW r \in Requests, WriteManifest(r) PROVE Filling'
  <2>1. ManifestMade(r)
    BY <1>8, ManifestAdded
  <2> QED
    BY <2>1 DEF ManifestMade, Leaves, Step, reqVars, listVars, Committed, IInv, TypeOK, Filling,
       Free, Untouched, Locked, Marked, Writing, Busy, Holding, Torn
<1>9. ASSUME NEW r \in Requests, NameNewest(r) PROVE Filling'
  BY <1>9 DEF NameNewest, Step, reqVars, listVars, Committed, IInv, TypeOK, Filling, Free,
     Untouched, Locked, Marked, Writing, Busy, Holding, Dir, Torn
<1>10. ASSUME NEW r \in Requests, Finish(r) PROVE Filling'
  BY <1>10 DEF Finish, Step, reqVars, listVars, Committed, IInv, TypeOK, Filling, Free, Untouched,
     Locked, Marked, Writing, Busy, Holding, Dir, Torn
<1>11. ASSUME NEW r \in Requests, Refuse(r) PROVE Filling'
  BY <1>11 DEF Refuse, reqVars, listVars, Committed, IInv, TypeOK, Filling, Free, Untouched,
     Locked, Marked, Writing, Busy, Holding, Dir, Torn
<1>12. ASSUME NEW r \in Requests, Crash(r) PROVE Filling'
  BY <1>12 DEF Crash, reqVars, listVars, Committed, IInv, TypeOK, Filling, Free, Untouched, Locked,
     Marked, Writing, Busy, Holding, Dir, Torn
<1>13. ASSUME NEW l \in Listers, ReadDir(l) PROVE Filling'
  BY <1>13 DEF ReadDir, reqVars, listVars, Committed, IInv, TypeOK, Filling, Free, Untouched,
     Locked, Marked, Writing, Busy, Holding, Dir, Torn
<1>14. ASSUME NEW l \in Listers, Look(l) PROVE Filling'
  BY <1>14 DEF Look, reqVars, listVars, Committed, IInv, TypeOK, Filling, Free, Untouched, Locked,
     Marked, Writing, Busy, Holding, Dir, Torn
<1>15. ASSUME NEW l \in Listers, RemoveOne(l) PROVE Filling'
  BY <1>15 DEF RemoveOne, reqVars, listVars, Committed, IInv, TypeOK, Filling, Free, Untouched,
     Locked, Marked, Writing, Busy, Holding, Dir, Torn
<1>16. ASSUME NEW l \in Listers, RemoveDir(l) PROVE Filling'
  BY <1>16 DEF RemoveDir, reqVars, listVars, Committed, IInv, TypeOK, Filling, Free, Untouched,
     Locked, Marked, Writing, Busy, Holding, Dir, Torn
<1>17. ASSUME NEW l \in Listers, RemoveFails(l) PROVE Filling'
  BY <1>17 DEF RemoveFails, reqVars, listVars, Committed, IInv, TypeOK, Filling, Free, Untouched,
     Locked, Marked, Writing, Busy, Holding, Dir, Torn
<1>18. ASSUME NEW l \in Listers, ListDone(l) PROVE Filling'
  BY <1>18 DEF ListDone, reqVars, listVars, Committed, IInv, TypeOK, Filling, Free, Untouched,
     Locked, Marked, Writing, Busy, Holding, Dir, Torn
<1> QED
  BY <1>1, <1>2, <1>3, <1>4, <1>5, <1>6, <1>7, <1>8, <1>9, <1>10, <1>11, <1>12, <1>13, <1>14, <1>15,
     <1>16, <1>17, <1>18 DEF Next, Change, List

\* A recorded backup stays as it is.
LEMMA StepRecorded ==
    ASSUME IInv, [Next]_vars
    PROVE  Recorded'
<1> USE BackupsAssumption
<1>1. CASE UNCHANGED vars
  BY <1>1 DEF vars, reqVars, listVars, Committed, IInv, TypeOK, Recorded, Filling, Free, Removable,
     Writing, Busy, Holding, Dir, Torn
<1>2. CASE Tick
  BY <1>2 DEF Tick, reqVars, listVars, Committed, IInv, TypeOK, Recorded, Filling, Free, Removable,
     Writing, Busy, Holding, Dir, Torn
<1>3. ASSUME NEW r \in Requests, Arrive(r) PROVE Recorded'
  BY <1>3 DEF Arrive, Step, reqVars, listVars, Committed, IInv, TypeOK, Recorded, Filling, Free,
     Removable, Writing, Busy, Holding, Dir, Torn
<1>4. ASSUME NEW r \in Requests, Acquire(r) PROVE Recorded'
  BY <1>4 DEF Acquire, Step, reqVars, listVars, Committed, IInv, TypeOK, Recorded, Filling, Free,
     Removable, Writing, Busy, Holding, Dir, Torn
<1>5. ASSUME NEW r \in Requests, FreeName(r) PROVE Recorded'
  BY <1>5 DEF FreeName, Step, reqVars, listVars, Committed, IInv, TypeOK, Recorded, Filling, Free,
     Removable, Writing, Busy, Holding, Dir, Torn
<1>6. ASSUME NEW r \in Requests, MakeDir(r) PROVE Recorded'
  <2>1. DirMade(r)
    BY <1>6, MadeEmpty
  <2> QED
    BY <2>1 DEF DirMade, Leaves, Step, reqVars, listVars, Committed, IInv, TypeOK, Recorded,
       Filling, Free, Removable, Writing, Busy, Holding, Torn
<1>7. ASSUME NEW r \in Requests, CopyFile(r) PROVE Recorded'
  <2>1. PICK c \in left[r] : CopyMade(r, c)
    BY <1>7, CopyAdded
  <2> QED
    BY <2>1 DEF CopyMade, Leaves, reqVars, listVars, Committed, IInv, TypeOK, Recorded, Filling,
       Free, Removable, Writing, Busy, Holding, Torn
<1>8. ASSUME NEW r \in Requests, WriteManifest(r) PROVE Recorded'
  <2>1. ManifestMade(r)
    BY <1>8, ManifestAdded
  <2>2. \A q \in Requests \ {r} : pc'[q] = pc[q]
    BY <2>1 DEF ManifestMade, IInv, TypeOK
  <2>3. /\ mine' = mine /\ met' = met /\ mine[r] \in DOMAIN dirs'
        /\ dirs'[mine[r]] = [copies |-> Dir(mine[r]).copies, by |-> r]
        /\ DOMAIN dirs \subseteq DOMAIN dirs'
        /\ \A x \in DOMAIN dirs \ {mine[r]} : dirs'[x] = dirs[x]
    BY <2>1 DEF ManifestMade, Leaves
  <2>4. r \notin met => Dir(mine[r]).copies = Copies
    BY <2>1 DEF ManifestMade, IInv, Filling, Writing, Dir
  <2>5. ASSUME NEW q \in Requests \ met, q # r, pc[q] \in {"newest", "apply", "done"}
        PROVE  mine[q] # mine[r]
    <3>1. mine[q] \in DOMAIN dirs /\ dirs[mine[q]] = [copies |-> Copies, by |-> q] /\ q # None
      BY <2>5 DEF IInv, Recorded
    <3>2. mine[r] \in DOMAIN dirs => dirs[mine[r]].by = None
      BY <2>1 DEF ManifestMade, Dir
    <3> QED
      BY <3>1, <3>2
  <2> QED
    BY <2>2, <2>3, <2>4, <2>5 DEF IInv, Recorded
<1>9. ASSUME NEW r \in Requests, NameNewest(r) PROVE Recorded'
  BY <1>9 DEF NameNewest, Step, reqVars, listVars, Committed, IInv, TypeOK, Recorded, Filling,
     Free, Removable, Writing, Busy, Holding, Dir, Torn
<1>10. ASSUME NEW r \in Requests, Finish(r) PROVE Recorded'
  BY <1>10 DEF Finish, Step, reqVars, listVars, Committed, IInv, TypeOK, Recorded, Filling, Free,
     Removable, Writing, Busy, Holding, Dir, Torn
<1>11. ASSUME NEW r \in Requests, Refuse(r) PROVE Recorded'
  BY <1>11 DEF Refuse, reqVars, listVars, Committed, IInv, TypeOK, Recorded, Filling, Free,
     Removable, Writing, Busy, Holding, Dir, Torn
<1>12. ASSUME NEW r \in Requests, Crash(r) PROVE Recorded'
  BY <1>12 DEF Crash, reqVars, listVars, Committed, IInv, TypeOK, Recorded, Filling, Free,
     Removable, Writing, Busy, Holding, Dir, Torn
<1>13. ASSUME NEW l \in Listers, ReadDir(l) PROVE Recorded'
  BY <1>13 DEF ReadDir, reqVars, listVars, Committed, IInv, TypeOK, Recorded, Filling, Free,
     Removable, Writing, Busy, Holding, Dir, Torn
<1>14. ASSUME NEW l \in Listers, Look(l) PROVE Recorded'
  BY <1>14 DEF Look, reqVars, listVars, Committed, IInv, TypeOK, Recorded, Filling, Free,
     Removable, Writing, Busy, Holding, Dir, Torn
<1>15. ASSUME NEW l \in Listers, RemoveOne(l) PROVE Recorded'
  BY <1>15 DEF RemoveOne, reqVars, listVars, Committed, IInv, TypeOK, Recorded, Filling, Free,
     Removable, Writing, Busy, Holding, Dir, Torn
<1>16. ASSUME NEW l \in Listers, RemoveDir(l) PROVE Recorded'
  BY <1>16 DEF RemoveDir, reqVars, listVars, Committed, IInv, TypeOK, Recorded, Filling, Free,
     Removable, Writing, Busy, Holding, Dir, Torn
<1>17. ASSUME NEW l \in Listers, RemoveFails(l) PROVE Recorded'
  BY <1>17 DEF RemoveFails, reqVars, listVars, Committed, IInv, TypeOK, Recorded, Filling, Free,
     Removable, Writing, Busy, Holding, Dir, Torn
<1>18. ASSUME NEW l \in Listers, ListDone(l) PROVE Recorded'
  BY <1>18 DEF ListDone, reqVars, listVars, Committed, IInv, TypeOK, Recorded, Filling, Free,
     Removable, Writing, Busy, Holding, Dir, Torn
<1> QED
  BY <1>1, <1>2, <1>3, <1>4, <1>5, <1>6, <1>7, <1>8, <1>9, <1>10, <1>11, <1>12, <1>13, <1>14, <1>15,
     <1>16, <1>17, <1>18 DEF Next, Change, List

\* A manifest comes when nothing is left.
LEMMA StepComplete ==
    ASSUME IInv, [Next]_vars
    PROVE  Complete'
<1> USE BackupsAssumption
<1>1. CASE UNCHANGED vars
  BY <1>1 DEF vars, reqVars, listVars, Committed, IInv, TypeOK, Complete, Writing, Filling, Free,
     Removable, Dir, Torn
<1>2. CASE Tick
  BY <1>2 DEF Tick, reqVars, listVars, Committed, IInv, TypeOK, Complete, Writing, Filling, Free,
     Removable, Dir, Torn
<1>3. ASSUME NEW r \in Requests, Arrive(r) PROVE Complete'
  BY <1>3 DEF Arrive, Step, reqVars, listVars, Committed, IInv, TypeOK, Complete, Writing, Filling,
     Free, Removable, Dir, Torn
<1>4. ASSUME NEW r \in Requests, Acquire(r) PROVE Complete'
  BY <1>4 DEF Acquire, Step, reqVars, listVars, Committed, IInv, TypeOK, Complete, Writing,
     Filling, Free, Removable, Dir, Torn
<1>5. ASSUME NEW r \in Requests, FreeName(r) PROVE Complete'
  BY <1>5 DEF FreeName, Step, reqVars, listVars, Committed, IInv, TypeOK, Complete, Writing,
     Filling, Free, Removable, Dir, Torn
<1>6. ASSUME NEW r \in Requests, MakeDir(r) PROVE Complete'
  <2>1. DirMade(r)
    BY <1>6, MadeEmpty
  <2> QED
    BY <2>1 DEF DirMade, Leaves, IInv, Complete
<1>7. ASSUME NEW r \in Requests, CopyFile(r) PROVE Complete'
  <2>1. PICK c \in left[r] : CopyMade(r, c)
    BY <1>7, CopyAdded
  <2> QED
    BY <2>1 DEF CopyMade, Leaves, reqVars, listVars, Committed, IInv, TypeOK, Complete, Writing,
       Filling, Free, Removable, Torn
<1>8. ASSUME NEW r \in Requests, WriteManifest(r) PROVE Complete'
  <2>1. ManifestMade(r)
    BY <1>8, ManifestAdded
  <2>2. /\ met' = met
        /\ DOMAIN dirs' = DOMAIN dirs \cup {mine[r]}
        /\ dirs'[mine[r]] = [copies |-> Dir(mine[r]).copies, by |-> r]
        /\ \A x \in DOMAIN dirs \ {mine[r]} : dirs'[x] = dirs[x]
    BY <2>1 DEF ManifestMade, Leaves
  <2>3. r \notin met => Dir(mine[r]).copies = Copies
    BY <2>1 DEF ManifestMade, IInv, Filling, Writing, Dir
  <2> QED
    BY <2>2, <2>3 DEF IInv, Complete
<1>9. ASSUME NEW r \in Requests, NameNewest(r) PROVE Complete'
  BY <1>9 DEF NameNewest, Step, reqVars, listVars, Committed, IInv, TypeOK, Complete, Writing,
     Filling, Free, Removable, Dir, Torn
<1>10. ASSUME NEW r \in Requests, Finish(r) PROVE Complete'
  BY <1>10 DEF Finish, Step, reqVars, listVars, Committed, IInv, TypeOK, Complete, Writing,
     Filling, Free, Removable, Dir, Torn
<1>11. ASSUME NEW r \in Requests, Refuse(r) PROVE Complete'
  BY <1>11 DEF Refuse, reqVars, listVars, Committed, IInv, TypeOK, Complete, Writing, Filling,
     Free, Removable, Dir, Torn
<1>12. ASSUME NEW r \in Requests, Crash(r) PROVE Complete'
  BY <1>12 DEF Crash, reqVars, listVars, Committed, IInv, TypeOK, Complete, Writing, Filling, Free,
     Removable, Dir, Torn
<1>13. ASSUME NEW l \in Listers, ReadDir(l) PROVE Complete'
  BY <1>13 DEF ReadDir, reqVars, listVars, Committed, IInv, TypeOK, Complete, Writing, Filling,
     Free, Removable, Dir, Torn
<1>14. ASSUME NEW l \in Listers, Look(l) PROVE Complete'
  BY <1>14 DEF Look, reqVars, listVars, Committed, IInv, TypeOK, Complete, Writing, Filling, Free,
     Removable, Dir, Torn
<1>15. ASSUME NEW l \in Listers, RemoveOne(l) PROVE Complete'
  <2>1. /\ met' = met /\ target[l] \in DOMAIN dirs
        /\ dirs[target[l]].by = None \/ dirs[target[l]].by \in met
        /\ DOMAIN dirs' = DOMAIN dirs
        /\ \A x \in DOMAIN dirs \ {target[l]} : dirs'[x] = dirs[x]
        /\ dirs'[target[l]].by \in {dirs[target[l]].by, None}
    BY <1>15, OneRemoved
  <2> QED
    BY <2>1 DEF IInv, Complete
<1>16. ASSUME NEW l \in Listers, RemoveDir(l) PROVE Complete'
  BY <1>16 DEF RemoveDir, reqVars, listVars, Committed, IInv, TypeOK, Complete, Writing, Filling,
     Free, Removable, Dir, Torn
<1>17. ASSUME NEW l \in Listers, RemoveFails(l) PROVE Complete'
  BY <1>17 DEF RemoveFails, reqVars, listVars, Committed, IInv, TypeOK, Complete, Writing, Filling,
     Free, Removable, Dir, Torn
<1>18. ASSUME NEW l \in Listers, ListDone(l) PROVE Complete'
  BY <1>18 DEF ListDone, reqVars, listVars, Committed, IInv, TypeOK, Complete, Writing, Filling,
     Free, Removable, Dir, Torn
<1> QED
  BY <1>1, <1>2, <1>3, <1>4, <1>5, <1>6, <1>7, <1>8, <1>9, <1>10, <1>11, <1>12, <1>13, <1>14, <1>15,
     <1>16, <1>17, <1>18 DEF Next, Change, List

\* A manifest stays its request's.
LEMMA StepSigned ==
    ASSUME IInv, [Next]_vars
    PROVE  Signed'
<1> USE BackupsAssumption
<1>1. CASE UNCHANGED vars
  BY <1>1 DEF vars, reqVars, listVars, Committed, IInv, TypeOK, Signed, Unnamed
<1>2. CASE Tick
  BY <1>2 DEF Tick, reqVars, listVars, Committed, IInv, TypeOK, Signed, Unnamed
<1>3. ASSUME NEW r \in Requests, Arrive(r) PROVE Signed'
  BY <1>3 DEF Arrive, Step, reqVars, listVars, Committed, IInv, TypeOK, Signed, Unnamed
<1>4. ASSUME NEW r \in Requests, Acquire(r) PROVE Signed'
  BY <1>4 DEF Acquire, Step, reqVars, listVars, Committed, IInv, TypeOK, Signed, Unnamed
<1>5. ASSUME NEW r \in Requests, FreeName(r) PROVE Signed'
  BY <1>5 DEF FreeName, Step, reqVars, listVars, Committed, IInv, TypeOK, Signed, Unnamed
<1>6. ASSUME NEW r \in Requests, MakeDir(r) PROVE Signed'
  <2>1. DirMade(r)
    BY <1>6, MadeEmpty
  <2>2. \A q \in Requests : pc[q] \notin Unnamed => pc'[q] \notin Unnamed /\ mine'[q] = mine[q]
    BY <2>1 DEF DirMade, Leaves, IInv, TypeOK, Unnamed
  <2>3. /\ DOMAIN dirs' = DOMAIN dirs \cup {mine[r]} /\ dirs'[mine[r]].by = None
        /\ \A x \in DOMAIN dirs \ {mine[r]} : dirs'[x] = dirs[x]
    BY <2>1 DEF DirMade, Leaves
  <2> QED
    BY <2>2, <2>3 DEF IInv, Signed
<1>7. ASSUME NEW r \in Requests, CopyFile(r) PROVE Signed'
  <2>1. PICK c \in left[r] : CopyMade(r, c)
    BY <1>7, CopyAdded
  <2>2. \A q \in Requests : pc[q] \notin Unnamed => pc'[q] \notin Unnamed /\ mine'[q] = mine[q]
    BY <2>1 DEF CopyMade, Leaves, IInv, TypeOK, Unnamed
  <2>3. /\ DOMAIN dirs' = DOMAIN dirs \cup {mine[r]} /\ dirs'[mine[r]].by = None
        /\ \A x \in DOMAIN dirs \ {mine[r]} : dirs'[x] = dirs[x]
    BY <2>1 DEF CopyMade, Leaves
  <2> QED
    BY <2>2, <2>3 DEF IInv, Signed
<1>8. ASSUME NEW r \in Requests, WriteManifest(r) PROVE Signed'
  <2>1. ManifestMade(r)
    BY <1>8, ManifestAdded
  <2>2. \A q \in Requests : pc[q] \notin Unnamed => pc'[q] \notin Unnamed /\ mine'[q] = mine[q]
    BY <2>1 DEF ManifestMade, Leaves, IInv, TypeOK, Unnamed
  <2>3. /\ DOMAIN dirs' = DOMAIN dirs \cup {mine[r]} /\ dirs'[mine[r]].by = r
        /\ \A x \in DOMAIN dirs \ {mine[r]} : dirs'[x] = dirs[x]
        /\ pc[r] \notin Unnamed
    BY <2>1 DEF ManifestMade, Leaves, Unnamed
  <2> QED
    BY <2>2, <2>3 DEF IInv, Signed
<1>9. ASSUME NEW r \in Requests, NameNewest(r) PROVE Signed'
  BY <1>9 DEF NameNewest, Step, reqVars, listVars, Committed, IInv, TypeOK, Signed, Unnamed
<1>10. ASSUME NEW r \in Requests, Finish(r) PROVE Signed'
  BY <1>10 DEF Finish, Step, reqVars, listVars, Committed, IInv, TypeOK, Signed, Unnamed
<1>11. ASSUME NEW r \in Requests, Refuse(r) PROVE Signed'
  BY <1>11 DEF Refuse, reqVars, listVars, Committed, IInv, TypeOK, Signed, Unnamed
<1>12. ASSUME NEW r \in Requests, Crash(r) PROVE Signed'
  BY <1>12 DEF Crash, reqVars, listVars, Committed, IInv, TypeOK, Signed, Unnamed
<1>13. ASSUME NEW l \in Listers, ReadDir(l) PROVE Signed'
  BY <1>13 DEF ReadDir, reqVars, listVars, Committed, IInv, TypeOK, Signed, Unnamed
<1>14. ASSUME NEW l \in Listers, Look(l) PROVE Signed'
  BY <1>14 DEF Look, reqVars, listVars, Committed, IInv, TypeOK, Signed, Unnamed
<1>15. ASSUME NEW l \in Listers, RemoveOne(l) PROVE Signed'
  <2>1. /\ met' = met /\ target[l] \in DOMAIN dirs
        /\ dirs[target[l]].by = None \/ dirs[target[l]].by \in met
        /\ DOMAIN dirs' = DOMAIN dirs
        /\ \A x \in DOMAIN dirs \ {target[l]} : dirs'[x] = dirs[x]
        /\ dirs'[target[l]].by \in {dirs[target[l]].by, None}
    BY <1>15, OneRemoved
  <2>2. pc' = pc /\ mine' = mine
    BY <1>15, OneRemoved DEF reqVars
  <2> QED
    BY <2>1, <2>2 DEF IInv, Signed
<1>16. ASSUME NEW l \in Listers, RemoveDir(l) PROVE Signed'
  BY <1>16 DEF RemoveDir, reqVars, listVars, Committed, IInv, TypeOK, Signed, Unnamed
<1>17. ASSUME NEW l \in Listers, RemoveFails(l) PROVE Signed'
  BY <1>17 DEF RemoveFails, reqVars, listVars, Committed, IInv, TypeOK, Signed, Unnamed
<1>18. ASSUME NEW l \in Listers, ListDone(l) PROVE Signed'
  BY <1>18 DEF ListDone, reqVars, listVars, Committed, IInv, TypeOK, Signed, Unnamed
<1> QED
  BY <1>1, <1>2, <1>3, <1>4, <1>5, <1>6, <1>7, <1>8, <1>9, <1>10, <1>11, <1>12, <1>13, <1>14, <1>15,
     <1>16, <1>17, <1>18 DEF Next, Change, List

\* Who writes where a listing removes is met.
LEMMA StepMarked ==
    ASSUME IInv, [Next]_vars
    PROVE  Marked'
<1> USE BackupsAssumption
<1>1. CASE UNCHANGED vars
  BY <1>1 DEF vars, reqVars, listVars, Committed, IInv, TypeOK, Marked, Writing
<1>2. CASE Tick
  BY <1>2 DEF Tick, reqVars, listVars, Committed, IInv, TypeOK, Marked, Writing
<1>3. ASSUME NEW r \in Requests, Arrive(r) PROVE Marked'
  BY <1>3 DEF Arrive, Step, reqVars, listVars, Committed, IInv, TypeOK, Marked, Writing
<1>4. ASSUME NEW r \in Requests, Acquire(r) PROVE Marked'
  BY <1>4 DEF Acquire, Step, reqVars, listVars, Committed, IInv, TypeOK, Marked, Writing
<1>5. ASSUME NEW r \in Requests, FreeName(r) PROVE Marked'
  BY <1>5 DEF FreeName, Step, reqVars, listVars, Committed, IInv, TypeOK, Marked, Writing
<1>6. ASSUME NEW r \in Requests, MakeDir(r) PROVE Marked'
  <2>1. DirMade(r)
    BY <1>6, MadeEmpty
  <2> QED
    BY <2>1 DEF DirMade, Leaves, Step, reqVars, listVars, Committed, IInv, TypeOK, Marked, Writing
<1>7. ASSUME NEW r \in Requests, CopyFile(r) PROVE Marked'
  <2>1. PICK c \in left[r] : CopyMade(r, c)
    BY <1>7, CopyAdded
  <2> QED
    BY <2>1 DEF CopyMade, Leaves, reqVars, listVars, Committed, IInv, TypeOK, Marked, Writing
<1>8. ASSUME NEW r \in Requests, WriteManifest(r) PROVE Marked'
  <2>1. ManifestMade(r)
    BY <1>8, ManifestAdded
  <2> QED
    BY <2>1 DEF ManifestMade, Leaves, Step, reqVars, listVars, Committed, IInv, TypeOK, Marked,
       Writing
<1>9. ASSUME NEW r \in Requests, NameNewest(r) PROVE Marked'
  BY <1>9 DEF NameNewest, Step, reqVars, listVars, Committed, IInv, TypeOK, Marked, Writing
<1>10. ASSUME NEW r \in Requests, Finish(r) PROVE Marked'
  BY <1>10 DEF Finish, Step, reqVars, listVars, Committed, IInv, TypeOK, Marked, Writing
<1>11. ASSUME NEW r \in Requests, Refuse(r) PROVE Marked'
  BY <1>11 DEF Refuse, reqVars, listVars, Committed, IInv, TypeOK, Marked, Writing
<1>12. ASSUME NEW r \in Requests, Crash(r) PROVE Marked'
  BY <1>12 DEF Crash, reqVars, listVars, Committed, IInv, TypeOK, Marked, Writing
<1>13. ASSUME NEW l \in Listers, ReadDir(l) PROVE Marked'
  BY <1>13 DEF ReadDir, reqVars, listVars, Committed, IInv, TypeOK, Marked, Writing
<1>14. ASSUME NEW l \in Listers, Look(l) PROVE Marked'
  BY <1>14 DEF Look, reqVars, listVars, Committed, IInv, TypeOK, Marked, Writing
<1>15. ASSUME NEW l \in Listers, RemoveOne(l) PROVE Marked'
  BY <1>15 DEF RemoveOne, reqVars, listVars, Committed, IInv, TypeOK, Marked, Writing
<1>16. ASSUME NEW l \in Listers, RemoveDir(l) PROVE Marked'
  BY <1>16 DEF RemoveDir, reqVars, listVars, Committed, IInv, TypeOK, Marked, Writing
<1>17. ASSUME NEW l \in Listers, RemoveFails(l) PROVE Marked'
  BY <1>17 DEF RemoveFails, reqVars, listVars, Committed, IInv, TypeOK, Marked, Writing
<1>18. ASSUME NEW l \in Listers, ListDone(l) PROVE Marked'
  BY <1>18 DEF ListDone, reqVars, listVars, Committed, IInv, TypeOK, Marked, Writing
<1> QED
  BY <1>1, <1>2, <1>3, <1>4, <1>5, <1>6, <1>7, <1>8, <1>9, <1>10, <1>11, <1>12, <1>13, <1>14, <1>15,
     <1>16, <1>17, <1>18 DEF Next, Change, List

\* Who has ended has ended for good.
LEMMA StepEnded ==
    ASSUME IInv, [Next]_vars
    PROVE  Ended'
<1> USE BackupsAssumption
<1>1. CASE UNCHANGED vars
  BY <1>1 DEF vars, reqVars, listVars, Committed, IInv, TypeOK, Ended
<1>2. CASE Tick
  BY <1>2 DEF Tick, reqVars, listVars, Committed, IInv, TypeOK, Ended
<1>3. ASSUME NEW r \in Requests, Arrive(r) PROVE Ended'
  BY <1>3 DEF Arrive, Step, reqVars, listVars, Committed, IInv, TypeOK, Ended
<1>4. ASSUME NEW r \in Requests, Acquire(r) PROVE Ended'
  BY <1>4 DEF Acquire, Step, reqVars, listVars, Committed, IInv, TypeOK, Ended
<1>5. ASSUME NEW r \in Requests, FreeName(r) PROVE Ended'
  BY <1>5 DEF FreeName, Step, reqVars, listVars, Committed, IInv, TypeOK, Ended
<1>6. ASSUME NEW r \in Requests, MakeDir(r) PROVE Ended'
  <2>1. DirMade(r)
    BY <1>6, MadeEmpty
  <2> QED
    BY <2>1 DEF DirMade, Leaves, Step, reqVars, listVars, Committed, IInv, TypeOK, Ended
<1>7. ASSUME NEW r \in Requests, CopyFile(r) PROVE Ended'
  <2>1. PICK c \in left[r] : CopyMade(r, c)
    BY <1>7, CopyAdded
  <2> QED
    BY <2>1 DEF CopyMade, Leaves, reqVars, listVars, Committed, IInv, TypeOK, Ended
<1>8. ASSUME NEW r \in Requests, WriteManifest(r) PROVE Ended'
  <2>1. ManifestMade(r)
    BY <1>8, ManifestAdded
  <2> QED
    BY <2>1 DEF ManifestMade, Leaves, Step, reqVars, listVars, Committed, IInv, TypeOK, Ended
<1>9. ASSUME NEW r \in Requests, NameNewest(r) PROVE Ended'
  BY <1>9 DEF NameNewest, Step, reqVars, listVars, Committed, IInv, TypeOK, Ended
<1>10. ASSUME NEW r \in Requests, Finish(r) PROVE Ended'
  BY <1>10 DEF Finish, Step, reqVars, listVars, Committed, IInv, TypeOK, Ended
<1>11. ASSUME NEW r \in Requests, Refuse(r) PROVE Ended'
  BY <1>11 DEF Refuse, reqVars, listVars, Committed, IInv, TypeOK, Ended
<1>12. ASSUME NEW r \in Requests, Crash(r) PROVE Ended'
  BY <1>12 DEF Crash, reqVars, listVars, Committed, IInv, TypeOK, Ended
<1>13. ASSUME NEW l \in Listers, ReadDir(l) PROVE Ended'
  BY <1>13 DEF ReadDir, reqVars, listVars, Committed, IInv, TypeOK, Ended
<1>14. ASSUME NEW l \in Listers, Look(l) PROVE Ended'
  BY <1>14 DEF Look, reqVars, listVars, Committed, IInv, TypeOK, Ended
<1>15. ASSUME NEW l \in Listers, RemoveOne(l) PROVE Ended'
  BY <1>15 DEF RemoveOne, reqVars, listVars, Committed, IInv, TypeOK, Ended
<1>16. ASSUME NEW l \in Listers, RemoveDir(l) PROVE Ended'
  BY <1>16 DEF RemoveDir, reqVars, listVars, Committed, IInv, TypeOK, Ended
<1>17. ASSUME NEW l \in Listers, RemoveFails(l) PROVE Ended'
  BY <1>17 DEF RemoveFails, reqVars, listVars, Committed, IInv, TypeOK, Ended
<1>18. ASSUME NEW l \in Listers, ListDone(l) PROVE Ended'
  BY <1>18 DEF ListDone, reqVars, listVars, Committed, IInv, TypeOK, Ended
<1> QED
  BY <1>1, <1>2, <1>3, <1>4, <1>5, <1>6, <1>7, <1>8, <1>9, <1>10, <1>11, <1>12, <1>13, <1>14, <1>15,
     <1>16, <1>17, <1>18 DEF Next, Change, List

\* What is being removed is given no manifest but of a request that was met.
LEMMA StepRemovable ==
    ASSUME IInv, [Next]_vars
    PROVE  Removable'
<1> USE BackupsAssumption
<1>1. CASE UNCHANGED vars
  BY <1>1 DEF vars, reqVars, listVars, Committed, IInv, TypeOK, Removable, Marked, Writing, Busy,
     Dir, Torn
<1>2. CASE Tick
  BY <1>2 DEF Tick, reqVars, listVars, Committed, IInv, TypeOK, Removable, Marked, Writing, Busy,
     Dir, Torn
<1>3. ASSUME NEW r \in Requests, Arrive(r) PROVE Removable'
  BY <1>3 DEF Arrive, Step, reqVars, listVars, Committed, IInv, TypeOK, Removable, Marked, Writing,
     Busy, Dir, Torn
<1>4. ASSUME NEW r \in Requests, Acquire(r) PROVE Removable'
  BY <1>4 DEF Acquire, Step, reqVars, listVars, Committed, IInv, TypeOK, Removable, Marked,
     Writing, Busy, Dir, Torn
<1>5. ASSUME NEW r \in Requests, FreeName(r) PROVE Removable'
  BY <1>5 DEF FreeName, Step, reqVars, listVars, Committed, IInv, TypeOK, Removable, Marked,
     Writing, Busy, Dir, Torn
<1>6. ASSUME NEW r \in Requests, MakeDir(r) PROVE Removable'
  <2>1. DirMade(r)
    BY <1>6, MadeEmpty
  <2> QED
    BY <2>1 DEF DirMade, Leaves, Step, reqVars, listVars, Committed, IInv, TypeOK, Removable,
       Marked, Writing, Busy, Torn
<1>7. ASSUME NEW r \in Requests, CopyFile(r) PROVE Removable'
  <2>1. PICK c \in left[r] : CopyMade(r, c)
    BY <1>7, CopyAdded
  <2> QED
    BY <2>1 DEF CopyMade, Leaves, reqVars, listVars, Committed, IInv, TypeOK, Removable, Marked,
       Writing, Busy, Torn
<1>8. ASSUME NEW r \in Requests, WriteManifest(r) PROVE Removable'
  <2>1. ManifestMade(r)
    BY <1>8, ManifestAdded
  <2> QED
    BY <2>1 DEF ManifestMade, Leaves, Step, reqVars, listVars, Committed, IInv, TypeOK, Removable,
       Marked, Writing, Busy, Torn
<1>9. ASSUME NEW r \in Requests, NameNewest(r) PROVE Removable'
  BY <1>9 DEF NameNewest, Step, reqVars, listVars, Committed, IInv, TypeOK, Removable, Marked,
     Writing, Busy, Dir, Torn
<1>10. ASSUME NEW r \in Requests, Finish(r) PROVE Removable'
  BY <1>10 DEF Finish, Step, reqVars, listVars, Committed, IInv, TypeOK, Removable, Marked,
     Writing, Busy, Dir, Torn
<1>11. ASSUME NEW r \in Requests, Refuse(r) PROVE Removable'
  BY <1>11 DEF Refuse, reqVars, listVars, Committed, IInv, TypeOK, Removable, Marked, Writing,
     Busy, Dir, Torn
<1>12. ASSUME NEW r \in Requests, Crash(r) PROVE Removable'
  BY <1>12 DEF Crash, reqVars, listVars, Committed, IInv, TypeOK, Removable, Marked, Writing, Busy,
     Dir, Torn
<1>13. ASSUME NEW l \in Listers, ReadDir(l) PROVE Removable'
  BY <1>13 DEF ReadDir, reqVars, listVars, Committed, IInv, TypeOK, Removable, Marked, Writing,
     Busy, Dir, Torn
<1>14. ASSUME NEW l \in Listers, Look(l) PROVE Removable'
  BY <1>14 DEF Look, reqVars, listVars, Committed, IInv, TypeOK, Removable, Marked, Writing, Busy,
     Dir, Torn
<1>15. ASSUME NEW l \in Listers, RemoveOne(l) PROVE Removable'
  <2>1. /\ met' = met /\ target[l] \in DOMAIN dirs
        /\ dirs[target[l]].by = None \/ dirs[target[l]].by \in met
        /\ DOMAIN dirs' = DOMAIN dirs
        /\ \A x \in DOMAIN dirs \ {target[l]} : dirs'[x] = dirs[x]
        /\ dirs'[target[l]].by \in {dirs[target[l]].by, None}
    BY <1>15, OneRemoved
  <2>2. lister' = lister /\ target' = target
    BY <1>15, OneRemoved DEF listVars
  <2> QED
    BY <2>1, <2>2 DEF IInv, Removable
<1>16. ASSUME NEW l \in Listers, RemoveDir(l) PROVE Removable'
  BY <1>16 DEF RemoveDir, reqVars, listVars, Committed, IInv, TypeOK, Removable, Marked, Writing,
     Busy, Dir, Torn
<1>17. ASSUME NEW l \in Listers, RemoveFails(l) PROVE Removable'
  BY <1>17 DEF RemoveFails, reqVars, listVars, Committed, IInv, TypeOK, Removable, Marked, Writing,
     Busy, Dir, Torn
<1>18. ASSUME NEW l \in Listers, ListDone(l) PROVE Removable'
  BY <1>18 DEF ListDone, reqVars, listVars, Committed, IInv, TypeOK, Removable, Marked, Writing,
     Busy, Dir, Torn
<1> QED
  BY <1>1, <1>2, <1>3, <1>4, <1>5, <1>6, <1>7, <1>8, <1>9, <1>10, <1>11, <1>12, <1>13, <1>14, <1>15,
     <1>16, <1>17, <1>18 DEF Next, Change, List

\* No directory without a manifest escapes a listing, but of those who may be writing.
LEMMA StepSweeping ==
    ASSUME IInv, [Next]_vars
    PROVE  Sweeping'
<1> USE BackupsAssumption
<1>1. CASE UNCHANGED vars
  BY <1>1 DEF vars, reqVars, listVars, Committed, IInv, TypeOK, Sweeping, Removable, Signed, Ended,
     Excused, Unnamed, Dir, Torn
<1>2. CASE Tick
  BY <1>2 DEF Tick, reqVars, listVars, Committed, IInv, TypeOK, Sweeping, Removable, Signed, Ended,
     Excused, Unnamed, Dir, Torn
<1>3. ASSUME NEW r \in Requests, Arrive(r) PROVE Sweeping'
  BY <1>3 DEF Arrive, Step, reqVars, listVars, Committed, IInv, TypeOK, Sweeping, Removable,
     Signed, Ended, Excused, Unnamed, Dir, Torn
<1>4. ASSUME NEW r \in Requests, Acquire(r) PROVE Sweeping'
  BY <1>4 DEF Acquire, Step, reqVars, listVars, Committed, IInv, TypeOK, Sweeping, Removable,
     Signed, Ended, Excused, Unnamed, Dir, Torn
<1>5. ASSUME NEW r \in Requests, FreeName(r) PROVE Sweeping'
  BY <1>5 DEF FreeName, Step, reqVars, listVars, Committed, IInv, TypeOK, Sweeping, Removable,
     Signed, Ended, Excused, Unnamed, Dir, Torn
<1>6. ASSUME NEW r \in Requests, MakeDir(r) PROVE Sweeping'
  <2>1. DirMade(r)
    BY <1>6, MadeEmpty
  <2> QED
    BY <2>1 DEF DirMade, Leaves, Step, reqVars, listVars, Committed, IInv, TypeOK, Sweeping,
       Removable, Signed, Ended, Excused, Unnamed, Torn
<1>7. ASSUME NEW r \in Requests, CopyFile(r) PROVE Sweeping'
  <2>1. PICK c \in left[r] : CopyMade(r, c)
    BY <1>7, CopyAdded
  <2>2. \A q \in Requests : pc[q] \notin Unnamed => pc'[q] \notin Unnamed /\ mine'[q] = mine[q]
    BY <2>1 DEF CopyMade, Leaves, IInv, TypeOK, Unnamed
  <2>3. /\ UNCHANGED <<listVars, met>>
        /\ DOMAIN dirs' = DOMAIN dirs \cup {mine[r]}
        /\ \A x \in DOMAIN dirs \ {mine[r]} : dirs'[x] = dirs[x]
    BY <2>1 DEF CopyMade, Leaves
  <2>4. \A l \in Listers : r \notin over[l] /\ pc[r] \notin Unnamed
    BY <2>1 DEF CopyMade, IInv, Ended, Unnamed
  <2>5. \A l \in Listers, d \in DOMAIN dirs : Excused(l, d) => Excused(l, d)'
    BY <2>2, <2>3 DEF Excused, listVars
  <2>6. \A l \in Listers, d \in {mine[r]} : Excused(l, d)'
    BY <2>2, <2>3, <2>4 DEF Excused, listVars
  <2>7. ASSUME NEW l \in Listers, lister'[l] \in {"looking", "removing"}, NEW d \in DOMAIN dirs'
        PROVE  \/ dirs'[d].by # None \/ d \in listed'[l]
               \/ lister'[l] = "removing" /\ d = target'[l]
               \/ Excused(l, d)'
    <3>1. CASE d = mine[r]
      BY <2>6, <3>1
    <3>2. CASE d \in DOMAIN dirs /\ d # mine[r]
      <4>1. lister[l] \in {"looking", "removing"} /\ dirs'[d] = dirs[d]
        BY <2>3, <2>7, <3>2 DEF listVars
      <4>2. \/ dirs[d].by # None \/ d \in listed[l]
            \/ lister[l] = "removing" /\ d = target[l]
            \/ Excused(l, d)
        BY <3>2, <4>1 DEF IInv, Sweeping
      <4> QED
        BY <2>3, <2>5, <3>2, <4>1, <4>2 DEF listVars
    <3> QED
      BY <2>3, <2>7, <3>1, <3>2
  <2> QED
    BY <2>7 DEF Sweeping
<1>8. ASSUME NEW r \in Requests, WriteManifest(r) PROVE Sweeping'
  <2>1. ManifestMade(r)
    BY <1>8, ManifestAdded
  <2> QED
    BY <2>1 DEF ManifestMade, Leaves, Step, reqVars, listVars, Committed, IInv, TypeOK, Sweeping,
       Removable, Signed, Ended, Excused, Unnamed, Torn
<1>9. ASSUME NEW r \in Requests, NameNewest(r) PROVE Sweeping'
  BY <1>9 DEF NameNewest, Step, reqVars, listVars, Committed, IInv, TypeOK, Sweeping, Removable,
     Signed, Ended, Excused, Unnamed, Dir, Torn
<1>10. ASSUME NEW r \in Requests, Finish(r) PROVE Sweeping'
  BY <1>10 DEF Finish, Step, reqVars, listVars, Committed, IInv, TypeOK, Sweeping, Removable,
     Signed, Ended, Excused, Unnamed, Dir, Torn
<1>11. ASSUME NEW r \in Requests, Refuse(r) PROVE Sweeping'
  BY <1>11 DEF Refuse, reqVars, listVars, Committed, IInv, TypeOK, Sweeping, Removable, Signed,
     Ended, Excused, Unnamed, Dir, Torn
<1>12. ASSUME NEW r \in Requests, Crash(r) PROVE Sweeping'
  BY <1>12 DEF Crash, reqVars, listVars, Committed, IInv, TypeOK, Sweeping, Removable, Signed,
     Ended, Excused, Unnamed, Dir, Torn
<1>13. ASSUME NEW l \in Listers, ReadDir(l) PROVE Sweeping'
  BY <1>13 DEF ReadDir, reqVars, listVars, Committed, IInv, TypeOK, Sweeping, Removable, Signed,
     Ended, Excused, Unnamed, Dir, Torn
<1>14. ASSUME NEW l \in Listers, Look(l) PROVE Sweeping'
  BY <1>14 DEF Look, reqVars, listVars, Committed, IInv, TypeOK, Sweeping, Removable, Signed,
     Ended, Excused, Unnamed, Dir, Torn
<1>15. ASSUME NEW l \in Listers, RemoveOne(l) PROVE Sweeping'
  BY <1>15 DEF RemoveOne, reqVars, listVars, Committed, IInv, TypeOK, Sweeping, Removable, Signed,
     Ended, Excused, Unnamed, Dir, Torn
<1>16. ASSUME NEW l \in Listers, RemoveDir(l) PROVE Sweeping'
  BY <1>16 DEF RemoveDir, reqVars, listVars, Committed, IInv, TypeOK, Sweeping, Removable, Signed,
     Ended, Excused, Unnamed, Dir, Torn
<1>17. ASSUME NEW l \in Listers, RemoveFails(l) PROVE Sweeping'
  BY <1>17 DEF RemoveFails, reqVars, listVars, Committed, IInv, TypeOK, Sweeping, Removable,
     Signed, Ended, Excused, Unnamed, Dir, Torn
<1>18. ASSUME NEW l \in Listers, ListDone(l) PROVE Sweeping'
  BY <1>18 DEF ListDone, reqVars, listVars, Committed, IInv, TypeOK, Sweeping, Removable, Signed,
     Ended, Excused, Unnamed, Dir, Torn
<1> QED
  BY <1>1, <1>2, <1>3, <1>4, <1>5, <1>6, <1>7, <1>8, <1>9, <1>10, <1>11, <1>12, <1>13, <1>14, <1>15,
     <1>16, <1>17, <1>18 DEF Next, Change, List

\* A directory has the name of a request's instant.
LEMMA StepOwned ==
    ASSUME IInv, [Next]_vars
    PROVE  Owned'
<1> USE BackupsAssumption
<1>1. CASE UNCHANGED vars
  BY <1>1 DEF vars, reqVars, listVars, Committed, IInv, TypeOK, Owned, Unnamed, Arrived, Named, Dir
<1>2. CASE Tick
  BY <1>2 DEF Tick, reqVars, listVars, Committed, IInv, TypeOK, Owned, Unnamed, Arrived, Named, Dir
<1>3. ASSUME NEW r \in Requests, Arrive(r) PROVE Owned'
  <2>1. \A q \in Requests : pc[q] \notin Unnamed =>
            pc'[q] \notin Unnamed /\ at'[q] = at[q] /\ mine'[q] = mine[q]
    BY <1>3 DEF Arrive, Step, IInv, TypeOK, Unnamed
  <2>2. dirs' = dirs
    BY <1>3 DEF Arrive
  <2> QED
    BY <2>1, <2>2 DEF IInv, Owned
<1>4. ASSUME NEW r \in Requests, Acquire(r) PROVE Owned'
  BY <1>4 DEF Acquire, Step, reqVars, listVars, Committed, IInv, TypeOK, Owned, Unnamed, Arrived,
     Named, Dir
<1>5. ASSUME NEW r \in Requests, FreeName(r) PROVE Owned'
  BY <1>5 DEF FreeName, Step, reqVars, listVars, Committed, IInv, TypeOK, Owned, Unnamed, Arrived,
     Named, Dir
<1>6. ASSUME NEW r \in Requests, MakeDir(r) PROVE Owned'
  <2>1. DirMade(r)
    BY <1>6, MadeEmpty
  <2>2. \A q \in Requests : pc[q] \notin Unnamed =>
            pc'[q] \notin Unnamed /\ at'[q] = at[q] /\ mine'[q] = mine[q]
    BY <2>1 DEF DirMade, Leaves, IInv, TypeOK, Unnamed
  <2>3. pc[r] \notin Unnamed /\ \E n \in Nat : mine[r] = <<Stamps[at[r]], n>>
    BY <2>1 DEF DirMade, IInv, Arrived, Named, Unnamed
  <2>4. DOMAIN dirs' = DOMAIN dirs \cup {mine[r]}
    BY <2>1 DEF DirMade, Leaves
  <2>5. ASSUME NEW d \in DOMAIN dirs'
        PROVE  \E q \in Requests : /\ pc'[q] \notin Unnamed /\ mine'[q] = d
                                   /\ \E n \in Nat : d = <<Stamps[at'[q]], n>>
    <3>1. CASE d = mine[r]
      <4>1. pc'[r] \notin Unnamed /\ mine'[r] = d /\ at'[r] = at[r]
        BY <2>2, <2>3, <3>1
      <4> QED
        BY <2>3, <3>1, <4>1
    <3>2. CASE d \in DOMAIN dirs
      BY <2>2, <3>2 DEF IInv, Owned
    <3> QED
      BY <2>4, <3>1, <3>2
  <2> QED
    BY <2>5 DEF Owned, Unnamed, Stamps
<1>7. ASSUME NEW r \in Requests, CopyFile(r) PROVE Owned'
  <2>1. PICK c \in left[r] : CopyMade(r, c)
    BY <1>7, CopyAdded
  <2>2. \A q \in Requests : pc[q] \notin Unnamed =>
            pc'[q] \notin Unnamed /\ at'[q] = at[q] /\ mine'[q] = mine[q]
    BY <2>1 DEF CopyMade, Leaves, IInv, TypeOK, Unnamed
  <2>3. pc[r] \notin Unnamed /\ \E n \in Nat : mine[r] = <<Stamps[at[r]], n>>
    BY <2>1 DEF CopyMade, IInv, Arrived, Named, Unnamed
  <2>4. DOMAIN dirs' = DOMAIN dirs \cup {mine[r]}
    BY <2>1 DEF CopyMade, Leaves
  <2> QED
    BY <2>2, <2>3, <2>4 DEF IInv, Owned
<1>8. ASSUME NEW r \in Requests, WriteManifest(r) PROVE Owned'
  <2>1. ManifestMade(r)
    BY <1>8, ManifestAdded
  <2>2. \A q \in Requests : pc[q] \notin Unnamed =>
            pc'[q] \notin Unnamed /\ at'[q] = at[q] /\ mine'[q] = mine[q]
    BY <2>1 DEF ManifestMade, Leaves, IInv, TypeOK, Unnamed
  <2>3. pc[r] \notin Unnamed /\ \E n \in Nat : mine[r] = <<Stamps[at[r]], n>>
    BY <2>1 DEF ManifestMade, IInv, Arrived, Named, Unnamed
  <2>4. DOMAIN dirs' = DOMAIN dirs \cup {mine[r]}
    BY <2>1 DEF ManifestMade, Leaves
  <2>5. ASSUME NEW d \in DOMAIN dirs'
        PROVE  \E q \in Requests : /\ pc'[q] \notin Unnamed /\ mine'[q] = d
                                   /\ \E n \in Nat : d = <<Stamps[at'[q]], n>>
    <3>1. CASE d = mine[r]
      <4>1. pc'[r] \notin Unnamed /\ mine'[r] = d /\ at'[r] = at[r]
        BY <2>2, <2>3, <3>1
      <4> QED
        BY <2>3, <3>1, <4>1
    <3>2. CASE d \in DOMAIN dirs
      BY <2>2, <3>2 DEF IInv, Owned
    <3> QED
      BY <2>4, <3>1, <3>2
  <2> QED
    BY <2>5 DEF Owned, Unnamed, Stamps
<1>9. ASSUME NEW r \in Requests, NameNewest(r) PROVE Owned'
  <2>1. \A q \in Requests : pc[q] \notin Unnamed =>
            pc'[q] \notin Unnamed /\ at'[q] = at[q] /\ mine'[q] = mine[q]
    BY <1>9 DEF NameNewest, Step, IInv, TypeOK, Unnamed
  <2>2. dirs' = dirs
    BY <1>9 DEF NameNewest
  <2> QED
    BY <2>1, <2>2 DEF IInv, Owned
<1>10. ASSUME NEW r \in Requests, Finish(r) PROVE Owned'
  BY <1>10 DEF Finish, Step, reqVars, listVars, Committed, IInv, TypeOK, Owned, Unnamed, Arrived,
     Named, Dir
<1>11. ASSUME NEW r \in Requests, Refuse(r) PROVE Owned'
  BY <1>11 DEF Refuse, reqVars, listVars, Committed, IInv, TypeOK, Owned, Unnamed, Arrived, Named,
     Dir
<1>12. ASSUME NEW r \in Requests, Crash(r) PROVE Owned'
  BY <1>12 DEF Crash, reqVars, listVars, Committed, IInv, TypeOK, Owned, Unnamed, Arrived, Named,
     Dir
<1>13. ASSUME NEW l \in Listers, ReadDir(l) PROVE Owned'
  BY <1>13 DEF ReadDir, reqVars, listVars, Committed, IInv, TypeOK, Owned, Unnamed, Arrived, Named,
     Dir
<1>14. ASSUME NEW l \in Listers, Look(l) PROVE Owned'
  BY <1>14 DEF Look, reqVars, listVars, Committed, IInv, TypeOK, Owned, Unnamed, Arrived, Named, Dir
<1>15. ASSUME NEW l \in Listers, RemoveOne(l) PROVE Owned'
  BY <1>15 DEF RemoveOne, reqVars, listVars, Committed, IInv, TypeOK, Owned, Unnamed, Arrived,
     Named, Dir
<1>16. ASSUME NEW l \in Listers, RemoveDir(l) PROVE Owned'
  BY <1>16 DEF RemoveDir, reqVars, listVars, Committed, IInv, TypeOK, Owned, Unnamed, Arrived,
     Named, Dir
<1>17. ASSUME NEW l \in Listers, RemoveFails(l) PROVE Owned'
  BY <1>17 DEF RemoveFails, reqVars, listVars, Committed, IInv, TypeOK, Owned, Unnamed, Arrived,
     Named, Dir
<1>18. ASSUME NEW l \in Listers, ListDone(l) PROVE Owned'
  BY <1>18 DEF ListDone, reqVars, listVars, Committed, IInv, TypeOK, Owned, Unnamed, Arrived,
     Named, Dir
<1> QED
  BY <1>1, <1>2, <1>3, <1>4, <1>5, <1>6, <1>7, <1>8, <1>9, <1>10, <1>11, <1>12, <1>13, <1>14, <1>15,
     <1>16, <1>17, <1>18 DEF Next, Change, List

-----------------------------------------------------------------------------
(* The theorems, and what they need beside the invariant. *)

\* Before anything has happened there is no directory.
LEMMA InitInv == Init => IInv
<1> SUFFICES ASSUME Init PROVE IInv
  OBVIOUS
<1>1. 1 \in DOMAIN Clock
  BY BackupsAssumption
<1>2. DOMAIN dirs = {} /\ dirs \in [DOMAIN dirs -> Torn]
  BY DEF Init
<1>3. TypeOK
  BY <1>1, <1>2 DEF Init, TypeOK, Busy
<1>4. Arrived /\ Locked /\ Untouched
  BY BackupsAssumption DEF Init, Arrived, Named, Locked, Untouched, Holding, Busy
<1>5. Free /\ Filling /\ Recorded /\ Complete /\ Signed /\ Owned
  BY <1>2 DEF Init, Free, Filling, Writing, Recorded, Complete, Signed, Owned, Unnamed
<1>6. Marked /\ Removable /\ Ended /\ Sweeping
  BY <1>2 DEF Init, Marked, Removable, Ended, Sweeping
<1> QED
  BY <1>3, <1>4, <1>5, <1>6 DEF IInv

\* The invariant holds.
LEMMA InvariantHolds == Spec => []IInv
<1>1. IInv /\ [Next]_vars => IInv'
  <2> SUFFICES ASSUME IInv, [Next]_vars PROVE IInv'
    OBVIOUS
  <2>1. TypeOK' /\ Arrived' /\ Locked'
    BY StepTypeOK, StepArrived, StepLocked
  <2>2. Untouched' /\ Free' /\ Filling' /\ Recorded'
    BY StepUntouched, StepFree, StepFilling, StepRecorded
  <2>3. Complete' /\ Signed' /\ Marked' /\ Removable'
    BY StepComplete, StepSigned, StepMarked, StepRemovable
  <2>4. Ended' /\ Sweeping' /\ Owned'
    BY StepEnded, StepSweeping, StepOwned
  <2> QED
    BY <2>1, <2>2, <2>3, <2>4 DEF IInv
<1> QED
  BY InitInv, <1>1, PTL DEF Spec

\* store.rs: a backup with a manifest has every copy the manifest names, unless a listing met its
\* directory before the manifest was there.
THEOREM ManifestIsLast == Spec => []CommittedIsComplete
<1>1. IInv => CommittedIsComplete
  BY DEF IInv, Complete, CommittedIsComplete, Committed, Restorable
<1> QED
  BY <1>1, InvariantHolds, PTL

\* lib.rs: whoever has come to change files has, for good, a complete backup of its own, unless a
\* listing met its directory while it was being written.
THEOREM EveryChangeIsUndoable == Spec => []AppliedIsUndoable
<1>1. ASSUME IInv PROVE AppliedIsUndoable
  <2>1. SUFFICES ASSUME NEW r \in Requests \ met, pc[r] \in {"apply", "done"}
                 PROVE  Restorable(mine[r]) /\ dirs[mine[r]].by = r
    BY DEF AppliedIsUndoable
  <2>2. mine[r] \in DOMAIN dirs /\ dirs[mine[r]] = [copies |-> Copies, by |-> r]
    BY <1>1, <2>1 DEF IInv, Recorded
  <2>3. r # None
    BY BackupsAssumption
  <2> QED
    BY <2>2, <2>3 DEF Restorable, Committed
<1> QED
  BY <1>1, InvariantHolds, PTL

\* store.rs: no step, of a change or of a listing beside it, takes anything from a backup with a
\* manifest, but from one whose directory a listing met before the manifest was there.
THEOREM BackupsAreKept == Spec => CommittedIsKept
<1> DEFINE Kept ==
             \A d \in DOMAIN dirs :
                Committed(d) /\ dirs[d].by \notin met => d \in DOMAIN dirs' /\ dirs'[d] = dirs[d]
<1>1. ASSUME IInv, [Next]_vars PROVE [Kept]_dirs
  <2>1. ASSUME NEW r \in Requests, MakeDir(r) PROVE Kept
    <3>1. DirMade(r)
      BY <1>1, <2>1, MadeEmpty
    <3> QED
      BY <3>1 DEF DirMade, Leaves
  <2>2. ASSUME NEW r \in Requests, CopyFile(r) PROVE Kept
    <3>1. PICK c \in left[r] : CopyMade(r, c)
      BY <1>1, <2>2, CopyAdded
    <3>2. mine[r] \in DOMAIN dirs => dirs[mine[r]].by = None
      BY <1>1, <3>1 DEF CopyMade, Dir
    <3> QED
      BY <3>1, <3>2 DEF CopyMade, Leaves, Committed
  <2>3. ASSUME NEW r \in Requests, WriteManifest(r) PROVE Kept
    <3>1. ManifestMade(r)
      BY <1>1, <2>3, ManifestAdded
    <3>2. mine[r] \in DOMAIN dirs => dirs[mine[r]].by = None
      BY <1>1, <3>1 DEF ManifestMade, Dir
    <3> QED
      BY <3>1, <3>2 DEF ManifestMade, Leaves, Committed
  <2>4. ASSUME NEW l \in Listers, RemoveOne(l) PROVE Kept
    <3>1. target[l] \in DOMAIN dirs /\ (dirs[target[l]].by = None \/ dirs[target[l]].by \in met)
      BY <1>1, <2>4 DEF RemoveOne, IInv, Removable
    <3>2. DOMAIN dirs' = DOMAIN dirs /\ \A x \in DOMAIN dirs \ {target[l]} : dirs'[x] = dirs[x]
      BY <1>1, <2>4 DEF RemoveOne, IInv, TypeOK
    <3> QED
      BY <3>1, <3>2 DEF Committed
  <2>5. ASSUME NEW l \in Listers, RemoveDir(l) PROVE Kept
    BY <2>5 DEF RemoveDir, Committed
  <2>6. ASSUME NEW r \in Requests, Change(r), ~MakeDir(r), ~CopyFile(r), ~WriteManifest(r)
        PROVE  dirs' = dirs
    BY <2>6 DEF Change, Arrive, Acquire, FreeName, NameNewest, Finish, Refuse, Crash
  <2>7. ASSUME NEW l \in Listers, List(l), ~RemoveOne(l), ~RemoveDir(l) PROVE dirs' = dirs
    BY <2>7 DEF List, ReadDir, Look, RemoveFails, ListDone
  <2>8. Tick \/ UNCHANGED vars => dirs' = dirs
    BY DEF Tick, vars
  <2>9. CASE \E r \in Requests : Change(r)
    BY <2>1, <2>2, <2>3, <2>6, <2>9
  <2>10. CASE \E l \in Listers : List(l)
    BY <2>4, <2>5, <2>7, <2>10
  <2> QED
    BY <1>1, <2>8, <2>9, <2>10 DEF Next
<1> QED
  BY <1>1, InvariantHolds, PTL DEF Spec, CommittedIsKept

\* store.rs: a listing that comes to its end leaves no directory without a manifest, but of a request
\* that was still under way when it began or that a listing met while it was writing.
THEOREM ListingsSweep == Spec => ListingSweepsTorn
<1> DEFINE Swept ==
             \A l \in Listers : lister[l] = "looking" /\ lister'[l] = "done" =>
                \A d \in DOMAIN dirs :
                   Committed(d) \/ \E r \in Requests : mine[r] = d /\ (r \notin over[l] \/ r \in met)
<1>1. ASSUME IInv, [Next]_vars PROVE [Swept]_lister
  <2>1. ASSUME NEW l \in Listers, ListDone(l) PROVE Swept
    <3>1. \A k \in Listers \ {l} : lister'[k] = lister[k]
      BY <1>1, <2>1 DEF ListDone, IInv, TypeOK
    <3>2. lister[l] = "looking" => \A d \in DOMAIN dirs : Committed(d) \/ Excused(l, d)
      BY <1>1, <2>1 DEF ListDone, IInv, Sweeping, Committed
    <3> QED
      BY <3>1, <3>2 DEF Excused
  <2>2. ASSUME NEW l \in Listers, RemoveFails(l) PROVE Swept
    BY <1>1, <2>2 DEF RemoveFails, IInv, TypeOK
  <2>3. ASSUME NEW l \in Listers, ReadDir(l) PROVE Swept
    BY <1>1, <2>3 DEF ReadDir, IInv, TypeOK
  <2>4. ASSUME NEW l \in Listers, Look(l) PROVE Swept
    BY <1>1, <2>4 DEF Look, IInv, TypeOK
  <2>5. ASSUME NEW l \in Listers, RemoveDir(l) PROVE Swept
    BY <1>1, <2>5 DEF RemoveDir, IInv, TypeOK
  <2>6. ASSUME NEW l \in Listers, RemoveOne(l) PROVE lister' = lister
    BY <2>6 DEF RemoveOne, listVars
  <2>7. ASSUME NEW r \in Requests, Change(r) PROVE lister' = lister
    BY <2>7 DEF Change, Arrive, Acquire, FreeName, MakeDir, CopyFile, WriteManifest, NameNewest,
                Finish, Refuse, Crash, listVars
  <2>8. Tick \/ UNCHANGED vars => lister' = lister
    BY DEF Tick, vars, listVars
  <2>9. CASE \E l \in Listers : List(l)
    BY <2>1, <2>2, <2>3, <2>4, <2>5, <2>6, <2>9 DEF List
  <2> QED
    BY <1>1, <2>7, <2>8, <2>9 DEF Next
<1> QED
  BY <1>1, InvariantHolds, PTL DEF Spec, ListingSweepsTorn
-----------------------------------------------------------------------------
(* The name a change is answered with. *)

\* No other change took its instant as late.
Latest(r) == \A q \in Requests \ {r} : at[q] # None => at[q] < at[r]

\* An earlier moment has an earlier name.
LEMMA StampsSort ==
    ASSUME NEW i \in DOMAIN Clock, NEW j \in DOMAIN Clock, i < j
    PROVE  /\ SortsBefore(Stamps[i], Stamps[j])
           /\ ~SortsBefore(Stamps[j], Stamps[i])
           /\ Stamps[i] # Stamps[j]
<1>1. Clock[i] \in Moments /\ Clock[j] \in Moments
  BY BackupsAssumption
<1>2. Clock[i][1] < Clock[j][1] \/ (Clock[i][1] = Clock[j][1] /\ Clock[i][2] < Clock[j][2])
  BY BackupsAssumption
<1>3. Stamps[i] = FormatUtc(Clock[i]) /\ Stamps[j] = FormatUtc(Clock[j])
  BY DEF Stamps
<1> QED
  BY <1>1, <1>2, <1>3, NamesSort

\* While a change that took its instant last reads the store, its own directory is the last there is:
\* the lock keeps the directory of its instant the only one.
LEMMA MineIsNewest ==
    ASSUME IInv, NEW r \in Requests \ met, pc[r] = "newest", Latest(r)
    PROVE  DOMAIN dirs # {} /\ Newest(DOMAIN dirs) = mine[r]
<1>1. pc[r] \notin Unnamed /\ mine[r] \in DOMAIN dirs
  BY DEF IInv, Recorded, Unnamed
<1>2. at[r] \in DOMAIN Clock
  BY DEF IInv, TypeOK, Arrived
<1>3. PICK n \in Nat : mine[r] = <<Stamps[at[r]], n>>
  BY DEF IInv, Arrived, Named
<1>4. ASSUME NEW d \in DOMAIN dirs \ {mine[r]}
      PROVE  Before(d, mine[r]) /\ ~Before(mine[r], d)
  <2>1. PICK q \in Requests, m \in Nat :
            pc[q] \notin Unnamed /\ mine[q] = d /\ d = <<Stamps[at[q]], m>>
    BY DEF IInv, Owned
  <2>2. q # r
    BY <1>4, <2>1
  <2>3. at[q] \in DOMAIN Clock
    BY <2>1 DEF IInv, TypeOK, Arrived, Unnamed
  <2>4. at[q] < at[r]
    BY <2>2, <2>3, BackupsAssumption DEF Latest
  <2>5. /\ SortsBefore(Stamps[at[q]], Stamps[at[r]])
        /\ ~SortsBefore(Stamps[at[r]], Stamps[at[q]])
        /\ Stamps[at[q]] # Stamps[at[r]]
    BY <1>2, <2>3, <2>4, StampsSort
  <2>6. d[1] = Stamps[at[q]] /\ mine[r][1] = Stamps[at[r]]
    BY <1>3, <2>1
  <2> QED
    BY <2>5, <2>6 DEF Before
<1>5. ASSUME NEW a \in DOMAIN dirs, \A b \in DOMAIN dirs \ {a} : Before(b, a)
      PROVE  a = mine[r]
  BY <1>1, <1>4, <1>5
<1> QED
  BY <1>1, <1>4, <1>5 DEF Newest

\* store.rs, newest_backup: every step keeps the name of whoever took its instant last.
LEMMA StepUndoNamesMine ==
    ASSUME IInv, UndoNamesMine, [Next]_vars
    PROVE  UndoNamesMine'
<1>1. SUFFICES ASSUME NEW r \in Requests \ met', pc'[r] \in {"apply", "done"},
                      \A q \in Requests \ {r} : at'[q] # None => at'[q] < at'[r]
               PROVE  named'[r] = mine'[r]
  BY DEF UndoNamesMine
<1> DEFINE Settled == /\ pc[r] # "idle" /\ pc[r] \in {"apply", "done"}
                      /\ named'[r] = named[r] /\ mine'[r] = mine[r]
           Instants == met \subseteq met' /\ \A q \in Requests : pc[q] # "idle" => at'[q] = at[q]
<1>2. (Settled \/ NameNewest(r)) /\ Instants
  <2>1. CASE UNCHANGED vars \/ Tick
    BY <1>1, <2>1 DEF vars, reqVars, Tick
  <2>2. ASSUME NEW q \in Requests, Arrive(q) \/ Acquire(q) \/ FreeName(q)
        PROVE  Settled /\ Instants
    BY <1>1, <2>2 DEF Arrive, Acquire, FreeName, Step, IInv, TypeOK
  <2>3. ASSUME NEW q \in Requests, MakeDir(q) PROVE Settled /\ Instants
    BY <1>1, <2>3 DEF MakeDir, Step, IInv, TypeOK
  <2>4. ASSUME NEW q \in Requests, CopyFile(q) PROVE Settled /\ Instants
    <3>1. PICK c \in left[q] : CopyMade(q, c)
      BY <2>4, CopyAdded
    <3> QED
      BY <1>1, <3>1 DEF CopyMade, Leaves, IInv, TypeOK
  <2>5. ASSUME NEW q \in Requests, WriteManifest(q) PROVE Settled /\ Instants
    <3>1. ManifestMade(q)
      BY <2>5, ManifestAdded
    <3> QED
      BY <1>1, <3>1 DEF ManifestMade, Leaves, IInv, TypeOK
  <2>6. ASSUME NEW q \in Requests, NameNewest(q) PROVE (Settled \/ q = r) /\ Instants
    BY <1>1, <2>6 DEF NameNewest, Step, IInv, TypeOK
  <2>7. ASSUME NEW q \in Requests, Finish(q) \/ Refuse(q) \/ Crash(q) PROVE Settled /\ Instants
    BY <1>1, <2>7 DEF Finish, Refuse, Crash, Step, IInv, TypeOK
  <2>8. ASSUME NEW l \in Listers, List(l) PROVE Settled /\ Instants
    BY <1>1, <2>8 DEF List, ReadDir, Look, RemoveOne, RemoveDir, RemoveFails, ListDone, reqVars
  <2> HIDE DEF Settled, Instants
  <2> QED
    BY <2>1, <2>2, <2>3, <2>4, <2>5, <2>6, <2>7, <2>8 DEF Next, Change, List
<1>3. CASE Settled
  <2>1. at'[r] = at[r] /\ at[r] \in DOMAIN Clock
    BY <1>2, <1>3 DEF IInv, TypeOK, Arrived
  <2>2. \A q \in Requests \ {r} : at[q] # None => at[q] < at[r]
    BY <1>1, <1>2, <2>1 DEF IInv, Arrived
  <2>3. r \in Requests \ met
    BY <1>2, <1>3
  <2> QED
    BY <1>3, <2>2, <2>3 DEF UndoNamesMine
<1>4. CASE NameNewest(r)
  <2>1. pc[r] = "newest" /\ Latest(r) /\ r \in Requests \ met
    BY <1>1, <1>4 DEF NameNewest, Step, Latest
  <2>2. DOMAIN dirs # {} /\ Newest(DOMAIN dirs) = mine[r]
    BY <2>1, MineIsNewest
  <2> QED
    BY <1>4, <2>2 DEF NameNewest, IInv, TypeOK
<1> QED
  BY <1>2, <1>3, <1>4

\* lib.rs, switch: "The newest entry is the one just written", for whoever took its instant last and
\* whose directory no listing met while it was being written.
THEOREM UndoIsMine == Spec => []UndoNamesMine
<1>1. Init => UndoNamesMine
  BY DEF Init, UndoNamesMine
<1>2. IInv /\ UndoNamesMine /\ [Next]_vars => UndoNamesMine'
  BY StepUndoNamesMine
<1> QED
  BY <1>1, <1>2, InvariantHolds, PTL DEF Spec
=============================================================================
