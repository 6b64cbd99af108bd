---------------------------- MODULE TapkeyProofs ----------------------------
(***************************************************************************)
(* For any number of processes, tools, providers and calls.                *)
(***************************************************************************)
EXTENDS Tapkey, SequenceTheorems, WellFoundedInduction, TLAPS

Ops == {"switch", "snapshot", "backup", "remove", "accept", "cycle"}
Assignment == [Tools -> Providers \cup {None}]

Req == [pc : Busy \cup Ended \cup {"idle"}, ask : Ask \cup {None}, doc : SUBSET Providers,
        plan : Partial, todo : SUBSET Tools, tries : Nat, captured : Partial, backup : Nat,
        before : Partial, done : SUBSET Tools, lost : SUBSET Tools]

\* Where a call is says what it was asked, and which files it has still to do.
Course(q) ==
    /\ q.pc \in Busy => q.ask \in Ask
    /\ q.pc = "cycle" <=> q.pc \in Busy /\ q.ask.op = "cycle"
    /\ q.pc = "check" => q.ask.op = "switch"
    /\ q.pc \in {"check", "plan"} => q.ask.op \in {"switch", "remove"} /\ q.todo # {}
    /\ q.pc \in {"check", "plan"} /\ q.ask.op = "switch" => \A t \in q.todo : q.ask.profile[t] # None
    /\ q.pc = "read" => q.ask.op \in {"snapshot", "backup"}
    /\ q.pc = "accept" => q.ask.op = "accept"
    /\ q.pc \in {"capture", "snapshot", "backup", "before", "apply", "undo", "record"} =>
          q.ask.op \in {"switch", "remove", "snapshot", "backup"}
    /\ q.pc \in {"snapshot", "record"} => q.ask.op # "remove"
    /\ q.pc \in {"forget", "records"} => q.ask.op = "remove"
    /\ q.pc = "readback" => q.ask.op # "remove"
    /\ q.pc \in Busy /\ q.ask.op = "accept" => q.plan = NoFiles
    /\ q.pc \in {"cycle", "check", "plan", "lock", "read", "capture", "snapshot", "backup", "before",
                "accept"} => q.done = {} /\ q.lost = {}
    /\ q.pc = "apply" => q.lost = {}
    /\ q.pc \in {"apply", "undo"} =>
          /\ q.todo \cup q.done \cup q.lost \subseteq Named(q.plan)
          /\ \A t \in Named(q.plan) : q.before[t] \in File

\* Every call is on its course, and a backup it is asked to put back is there.
Placed ==
    \A r \in Requests :
        /\ Course(req[r])
        /\ req[r].pc \in Busy /\ req[r].ask.op = "backup" => req[r].ask.id \in DOMAIN backups

TypeOK ==
    /\ disk \in [Tools -> File]
    /\ snapshot \in [Tools -> File] \cup {None}
    /\ backups \in Seq(Partial)
    /\ state \in Assignment
    /\ records \in SUBSET Providers
    /\ keys \in SUBSET Providers
    /\ lock \in Requests \cup {None}
    /\ req \in [Requests -> Req]
    /\ Placed
    /\ edits \in Nat
    /\ edited \in SUBSET Tools
    /\ changed \in BOOLEAN
-----------------------------------------------------------------------------
(* The operators. *)

\* Some numbers have a least one.
LEMMA Least ==
    ASSUME NEW S \in SUBSET Nat, S # {}
    PROVE  \E x \in S : \A y \in S : x <= y
<1>1. PICK x \in S : \A y \in S : <<y, x>> \notin OpToRel(<, Nat)
  BY NatLessThanWellFounded, WFMin
<1>2. \A y \in S : ~(y < x)
  <2>1. ASSUME NEW y \in S, y < x
        PROVE  <<y, x>> \in OpToRel(<, Nat)
    BY <2>1 DEF OpToRel
  <2>2. QED
    BY <1>1, <2>1
<1>3. QED
  BY <1>2

\* What may be asked of the core (wire.rs), one field after another.
LEMMA AskType ==
    ASSUME NEW a \in Ask
    PROVE  /\ a.op \in Ops
           /\ a.op = "switch" => a.profile \in Assignment
           /\ a.op = "backup" => a.id \in Nat
           /\ a.op = "remove" => a.provider \in Providers
           /\ a.op = "accept" => a.tool \in Tools
           /\ a.op = "cycle" => a.step \in {"next", "previous"}
BY DEF Ask, Ops, Assignment

\* The first and the last of some tools are some of them.
LEMMA FirstAndLast ==
    ASSUME NEW S \in SUBSET Tools, S # {}
    PROVE  First(S) \in S /\ Last(S) \in S
<1> DEFINE at == {i \in DOMAIN Order : Order[i] \in S}
           n == Len(Order)
<1>1. n \in Nat /\ DOMAIN Order = 1..n
  BY TapkeyAssumption
<1>2. at # {} /\ at \subseteq 1..n /\ at \subseteq Nat
  BY <1>1, TapkeyAssumption
<1>3. \E i \in at : \A j \in at : i <= j
  <2> HIDE DEF at
  <2>1. QED
    BY <1>2, Least
<1>4. \E i \in at : \A j \in at : i >= j
  <2> DEFINE back == {n - i : i \in at}
  <2>1. back # {} /\ back \subseteq Nat
    BY <1>1, <1>2
  <2>2. PICK m \in back : \A k \in back : m <= k
    BY <2>1, Least
  <2>3. PICK i \in at : m = n - i
    BY <2>2
  <2>4. \A j \in at : n - i <= n - j
    BY <2>2, <2>3
  <2>5. \A j \in at : i >= j
    BY <1>1, <1>2, <2>3, <2>4
  <2>6. QED
    BY <2>5
<1>5. QED
  BY <1>3, <1>4 DEF First, Last

\* The files a reading covers, and what planning starts from.
LEMMA FileTypes ==
    ASSUME disk \in [Tools -> File]
    PROVE  /\ \A t \in Tools : Live(t) \in Config
           /\ \A plan \in Partial : Only(plan, disk) \in Partial
           /\ \A t \in Tools, p \in Providers : SelectedIn(t, p) \in Config
<1>1. \A t \in Tools : Live(t) \in Config
  BY TapkeyAssumption DEF Live, File, Config
<1>2. \A plan \in Partial : Only(plan, disk) \in Partial
  BY DEF Only, Partial
<1>3. ASSUME NEW t \in Tools, NEW p \in Providers
      PROVE  SelectedIn(t, p) \in Config
  BY <1>1, <1>3 DEF SelectedIn, Config
<1>4. QED
  BY <1>1, <1>2, <1>3

\* What `Covered` names of a profile are tools it assigns something, and of everything else all.
LEMMA CalledType ==
    ASSUME TypeOK, NEW a \in Ask
    PROVE  Called(a) \in Req /\ Course(Called(a))
<1>1. a.op \in Ops /\ (a.op = "switch" => a.profile \in Assignment)
  BY AskType
<1>2. Idle \in Req
  BY DEF Idle, Req, NoFiles, Partial, Ended
<1>3. /\ Covered(a) \subseteq Tools
      /\ a.op = "switch" => \A t \in Covered(a) : a.profile[t] # None
      /\ Known(a) /\ a.op \in {"switch", "remove"} => Covered(a) # {}
  BY TapkeyAssumption DEF Covered, Known
<1>4. Called(a) \in Req
  BY <1>1, <1>2, <1>3 DEF Called, Req, Idle, TypeOK, Busy, Planning, Ended
<1>5. Course(Called(a))
  BY <1>1, <1>2, <1>3 DEF Called, Idle, Course, Busy, Planning, Locked
<1>6. QED
  BY <1>4, <1>5

\* The profile `cycle` asks for is an assignment.
LEMMA CycleAsks ==
    ASSUME TypeOK, NEW r \in Requests, Len(Rows) >= 2, NEW at \in {0, RowInEffect}, req[r].ask \in Ask,
           req[r].ask.op = "cycle"
    PROVE  [op |-> "switch", profile |-> Rows[StepIndex(at, req[r].ask.step)]] \in Ask
<1>1. RowInEffect \in 0..Len(Rows)
  <2> DEFINE named == {i \in DOMAIN Rows : <<i, Live(First(Using)).sel>> \in Readable}
  <2>1. Len(Rows) \in Nat /\ DOMAIN Rows = 1..Len(Rows)
    BY TapkeyAssumption
  <2>2. CASE Using = {} \/ named = {}
    BY <2>1, <2>2 DEF RowInEffect
  <2>3. CASE Using # {} /\ named # {}
    <3>1. named \subseteq Nat
      BY <2>1
    <3>2. \E i \in named : \A j \in named : i <= j
      <4> HIDE DEF named
      <4>1. QED
        BY <2>3, <3>1, Least
    <3>3. RowInEffect \in named
      BY <2>3, <3>2 DEF RowInEffect
    <3>4. QED
      BY <2>1, <3>3
  <2>4. QED
    BY <2>2, <2>3
<1>2. at \in 0..Len(Rows) /\ Len(Rows) \in Nat
  BY <1>1, TapkeyAssumption
<1>3. StepIndex(at, req[r].ask.step) \in 1..Len(Rows)
  BY <1>2 DEF StepIndex
<1>4. Rows[StepIndex(at, req[r].ask.step)] \in Assignment
  BY <1>3, TapkeyAssumption DEF Assignment
<1>5. QED
  BY <1>4 DEF Ask, Assignment
-----------------------------------------------------------------------------
(* Types. *)

\* The state before tapkey first runs.
LEMMA InitTypeOK == Init => TypeOK
<1> SUFFICES ASSUME Init
             PROVE  TypeOK
  OBVIOUS
<1>1. Idle \in Req /\ Course(Idle) /\ Idle.pc \notin Busy
  BY DEF Idle, Req, NoFiles, Partial, Ended, Course, Busy, Planning, Locked
<1>2. req \in [Requests -> Req] /\ Placed
  BY <1>1 DEF Init, Placed
<1>3. disk \in [Tools -> File] /\ state \in Assignment
  BY TapkeyAssumption DEF Init, Assignment
<1>4. backups \in Seq(Partial)
  BY EmptySeq DEF Init
<1>5. QED
  BY <1>2, <1>3, <1>4 DEF Init, TypeOK

\* A step of one call that leaves what it remembers of its type, and the course as it should be.
LEMMA OneCall ==
    ASSUME TypeOK, NEW r \in Requests, NEW q \in Req, Course(q), req' = [req EXCEPT ![r] = q],
           q.pc \in Busy /\ q.ask.op = "backup" => q.ask.id \in DOMAIN backups,
           DOMAIN backups \subseteq DOMAIN backups'
    PROVE  req' \in [Requests -> Req] /\ Placed'
BY DEF TypeOK, Placed

\* The same for a step that goes on with what was asked.
LEMMA SameCall ==
    ASSUME TypeOK, NEW r \in Requests, NEW q \in Req, Course(q), req' = [req EXCEPT ![r] = q],
           q.ask = req[r].ask, req[r].pc \in Busy, DOMAIN backups \subseteq DOMAIN backups'
    PROVE  req' \in [Requests -> Req] /\ Placed'
<1>1. q.pc \in Busy /\ q.ask.op = "backup" => q.ask.id \in DOMAIN backups
  BY DEF TypeOK, Placed
<1>2. QED
  BY <1>1, OneCall

\* The same for a step that only goes elsewhere.
LEMMA Moves ==
    ASSUME TypeOK, NEW r \in Requests, NEW to \in Busy \cup Ended, req[r].pc \in Busy,
           req' = [req EXCEPT ![r].pc = to], Course([req[r] EXCEPT !.pc = to]),
           DOMAIN backups \subseteq DOMAIN backups'
    PROVE  req' \in [Requests -> Req] /\ Placed'
<1>1. req[r] \in Req
  BY DEF TypeOK
<1>2. [req[r] EXCEPT !.pc = to] \in Req
  BY <1>1 DEF Req
<1>3. req' = [req EXCEPT ![r] = [req[r] EXCEPT !.pc = to]] /\ [req[r] EXCEPT !.pc = to].ask = req[r].ask
  BY <1>1 DEF TypeOK, Req
<1>4. QED
  BY <1>2, <1>3, SameCall

\* An answer ends the course, whatever it is, and drops the lock.
LEMMA Answers ==
    ASSUME TypeOK, NEW r \in Requests, NEW v \in Ended, req[r].pc \in Busy, Answer(r, v),
           DOMAIN backups \subseteq DOMAIN backups'
    PROVE  req' \in [Requests -> Req] /\ Placed' /\ lock' \in Requests \cup {None}
<1>1. Course([req[r] EXCEPT !.pc = v])
  BY DEF TypeOK, Req, Course, Busy, Planning, Locked, Ended
<1>2. req' = [req EXCEPT ![r].pc = v] /\ v \in Busy \cup Ended
  BY DEF Answer, Goto
<1>3. lock' \in Requests \cup {None}
  BY DEF Answer, TypeOK
<1>4. QED
  BY <1>1, <1>2, <1>3, Moves

\* The calls that have not the lock yet.
LEMMA BeforeLockTypeOK ==
    ASSUME TypeOK, NEW r \in Requests, \/ Start(r) \/ Cycle(r) \/ PlanSwitch(r) \/ PlanRemoval(r)
                                       \/ TakeLock(r) \/ Contended(r) \/ CheckKeys(r)
    PROVE  TypeOK'
<1> USE DEF At, Goto
<1>0. req \in [Requests -> Req] /\ req[r] \in Req /\ Course(req[r])
  BY DEF TypeOK, Placed
<1>1. CASE Start(r)
  <2>1. PICK a \in Asks : /\ a.op = "backup" => a.id \in DOMAIN backups
                          /\ req' = [req EXCEPT ![r] = Called(a)]
    BY <1>1 DEF Start
  <2>2. a \in Ask
    BY TapkeyAssumption
  <2>3. Called(a) \in Req /\ Course(Called(a)) /\ Called(a).ask = a
    BY <2>2, CalledType DEF Called, Idle
  <2>4. backups' = backups
    BY <1>1 DEF Start, store
  <2>5. req' \in [Requests -> Req] /\ Placed'
    BY <2>1, <2>3, <2>4, OneCall
  <2>6. QED
    BY <1>1, <2>5 DEF Start, TypeOK, store
<1>2. CASE Cycle(r)
  <2>1. backups' = backups /\ req[r].pc \in Busy
    BY <1>2 DEF Cycle, store, Busy, Planning
  <2>2. CASE Len(Rows) < 2
    <3>1. req' = [req EXCEPT ![r].pc = "refused"] /\ "refused" \in Ended
      BY <1>2, <2>2 DEF Cycle, Ended
    <3>2. Course([req[r] EXCEPT !.pc = "refused"])
      BY <1>0 DEF Req, Course, Busy, Planning, Locked, Ended
    <3>3. req' \in [Requests -> Req] /\ Placed'
      BY <2>1, <3>1, <3>2, Moves
    <3>4. QED
      BY <1>2, <3>3 DEF Cycle, TypeOK, store
  <2>3. CASE ~(Len(Rows) < 2)
    <3>1. PICK at \in {0, RowInEffect} :
             req' = [req EXCEPT ![r] = Called([op |-> "switch",
                                               profile |-> Rows[StepIndex(at, req[r].ask.step)]])]
      BY <1>2, <2>3 DEF Cycle
    <3>2. Len(Rows) >= 2
      BY <2>3, TapkeyAssumption
    <3>3. req[r].ask \in Ask /\ req[r].ask.op = "cycle"
      BY <1>0, <1>2 DEF Cycle, Course, Busy, Planning
    <3> DEFINE a == [op |-> "switch", profile |-> Rows[StepIndex(at, req[r].ask.step)]]
    <3>4. a \in Ask
      BY <3>2, <3>3, CycleAsks
    <3>5. Called(a).ask = a /\ a.op = "switch"
      BY DEF Called, Idle
    <3>6. req' = [req EXCEPT ![r] = Called(a)]
      BY <3>1
    <3> HIDE DEF a
    <3>7. req' \in [Requests -> Req] /\ Placed'
      BY <2>1, <3>4, <3>5, <3>6, CalledType, OneCall
    <3>8. QED
      BY <1>2, <3>7 DEF Cycle, TypeOK, store
  <2>4. QED
    BY <2>2, <2>3
<1>3. CASE PlanSwitch(r) \/ PlanRemoval(r)
  <2> DEFINE t == First(req[r].todo)
             planned(f, to) == [req[r] EXCEPT !.plan[t] = f, !.todo = @ \ {t}, !.pc = to]
  <2>1. /\ req[r].pc = "plan" /\ req[r].todo # {} /\ req[r].todo \subseteq Tools
        /\ req[r].ask \in Ask
        /\ t \in req[r].todo
        /\ backups' = backups /\ req[r].pc \in Busy
    BY <1>0, <1>3, FirstAndLast DEF PlanSwitch, PlanRemoval, Course, Req, Busy, Planning, store
  <2>2. CASE \E f \in File \cup {Keep}, to \in {"lock", "plan"} :
                /\ req' = [req EXCEPT ![r] = planned(f, to)]
                /\ to = "plan" => req[r].todo # {t}
    <3>1. PICK f \in File \cup {Keep}, to \in {"lock", "plan"} :
                /\ req' = [req EXCEPT ![r] = planned(f, to)]
                /\ to = "plan" => req[r].todo # {t}
      BY <2>2
    <3>2. planned(f, to) \in Req /\ planned(f, to).ask = req[r].ask
      BY <1>0, <2>1 DEF Req, Partial, Busy, Planning
    <3>3. Course(planned(f, to))
      BY <1>0, <2>1, <3>1 DEF Req, Course, Busy, Planning, Locked
    <3>4. req' \in [Requests -> Req] /\ Placed'
      BY <2>1, <3>1, <3>2, <3>3, SameCall
    <3>5. QED
      BY <1>3, <3>4 DEF PlanSwitch, PlanRemoval, TypeOK, store
  <2>3. CASE req' = [req EXCEPT ![r].pc = "refused"]
    <3>1. Course([req[r] EXCEPT !.pc = "refused"]) /\ "refused" \in Ended
      BY <1>0 DEF Req, Course, Busy, Planning, Locked, Ended
    <3>2. req' \in [Requests -> Req] /\ Placed'
      BY <2>1, <2>3, <3>1, Moves
    <3>3. QED
      BY <1>3, <3>2 DEF PlanSwitch, PlanRemoval, TypeOK, store
  <2>4. CASE PlanSwitch(r)
    <3> DEFINE f == IF WillNotStart(t) THEN Keep ELSE SelectedIn(t, req[r].ask.profile[t])
               to == IF req[r].todo = {t} THEN "lock" ELSE "plan"
    <3>1. f \in File \cup {Keep}
      <4>1. req[r].ask.profile[t] \in Providers
        BY <1>0, <2>1, <2>4, AskType DEF PlanSwitch, Course, Assignment
      <4>2. SelectedIn(t, req[r].ask.profile[t]) \in Config
        BY <2>1, <4>1, FileTypes DEF TypeOK
      <4>3. QED
        BY <4>2 DEF File
    <3>2. req' = [req EXCEPT ![r] = planned(f, to)]
      BY <1>0, <2>4 DEF PlanSwitch, Req
    <3>3. QED
      BY <2>2, <3>1, <3>2
  <2>5. CASE PlanRemoval(r)
    <3> DEFINE f == IF t \in Registry THEN [Live(t) EXCEPT !.reg = @ \ {req[r].ask.provider}] ELSE Keep
               to == IF req[r].todo = {t} THEN "lock" ELSE "plan"
    <3>1. f \in File \cup {Keep}
      BY <2>1, FileTypes DEF TypeOK, File, Config
    <3>2. \/ req' = [req EXCEPT ![r] = planned(f, to)]
          \/ req' = [req EXCEPT ![r].pc = "refused"]
      BY <1>0, <2>5 DEF PlanRemoval, Req
    <3>3. QED
      BY <2>2, <2>3, <3>1, <3>2
  <2>6. QED
    BY <1>3, <2>4, <2>5
<1>4. CASE TakeLock(r)
  <2> DEFINE to == FirstLocked(req[r].ask)
  <2>1. req[r].pc = "lock" /\ req[r].ask \in Ask /\ req[r].ask.op \in Ops \ {"cycle"}
    BY <1>0, <1>4, AskType DEF TakeLock, Course, Busy, Planning, Ops
  <2>2. /\ to \in {"capture", "accept", "read"}
        /\ to = "capture" <=> req[r].ask.op \in {"switch", "remove"}
        /\ to = "accept" <=> req[r].ask.op = "accept"
        /\ to = "read" <=> req[r].ask.op \in {"snapshot", "backup"}
    BY <2>1 DEF FirstLocked, Ops
  <2> DEFINE q == [req[r] EXCEPT !.tries = 0, !.pc = to]
  <2>3. req' = [req EXCEPT ![r] = q] /\ backups' = backups
    BY <1>0, <1>4 DEF TakeLock, store, Req
  <2> HIDE DEF to
  <2>4. q \in Req /\ Course(q) /\ q.ask = req[r].ask /\ req[r].pc \in Busy
    BY <1>0, <2>1, <2>2 DEF Req, Course, Busy, Planning, Locked
  <2>5. req' \in [Requests -> Req] /\ Placed'
    <3> HIDE DEF q
    <3> QED
      BY <2>3, <2>4, SameCall
  <2>6. QED
    BY <1>4, <2>5 DEF TakeLock, TypeOK, store
<1>5. CASE Contended(r)
  <2>1. req[r].pc = "lock" /\ req[r].tries \in Nat /\ req[r].pc \in Busy /\ backups' = backups
    BY <1>0, <1>5 DEF Contended, Req, Busy, Planning, store
  <2>2. PICK to \in {"busy", "lock"}, n \in Nat :
           req' = [req EXCEPT ![r] = [req[r] EXCEPT !.tries = n, !.pc = to]]
    <3>1. req[r].tries + 1 \in Nat
      BY <2>1
    <3>2. QED
      BY <1>0, <1>5, <2>1, <3>1 DEF Contended, Req
  <2> DEFINE q == [req[r] EXCEPT !.tries = n, !.pc = to]
  <2>3. q \in Req /\ q.ask = req[r].ask
    BY <1>0, <2>1 DEF Req, Busy, Planning, Ended
  <2>4. Course(q)
    BY <1>0, <2>1 DEF Req, Course, Busy, Planning, Locked
  <2>5. req' = [req EXCEPT ![r] = q]
    BY <2>2
  <2> HIDE DEF q
  <2>6. req' \in [Requests -> Req] /\ Placed'
    BY <2>1, <2>3, <2>4, <2>5, SameCall
  <2>7. QED
    BY <1>5, <2>6 DEF Contended, TypeOK, store
<1>6. CASE CheckKeys(r)
  <2>1. req[r].pc = "check" /\ req[r].pc \in Busy /\ backups' = backups
    BY <1>6 DEF CheckKeys, Busy, Planning, store
  <2>2. PICK to \in {"plan", "refused"} : req' = [req EXCEPT ![r].pc = to]
    BY <1>6 DEF CheckKeys
  <2>3. Course([req[r] EXCEPT !.pc = to]) /\ to \in Busy \cup Ended
    BY <1>0, <2>1, <2>2 DEF Req, Course, Busy, Planning, Locked, Ended
  <2>4. req' \in [Requests -> Req] /\ Placed'
    BY <2>1, <2>2, <2>3, Moves
  <2>5. QED
    BY <1>6, <2>4 DEF CheckKeys, TypeOK, store
<1>7. QED
  BY <1>1, <1>2, <1>3, <1>4, <1>5, <1>6

\* The calls that hold the lock, up to the change.
LEMMA PreparingTypeOK ==
    ASSUME TypeOK, NEW r \in Requests, \/ ReadStored(r) \/ Capture(r) \/ TakeSnapshot(r)
                                       \/ TakeBackup(r) \/ ReadBefore(r)
    PROVE  TypeOK'
<1> USE DEF At, Goto
<1>0. /\ req \in [Requests -> Req] /\ req[r] \in Req /\ Course(req[r])
      /\ req[r].pc \in Busy
  BY DEF TypeOK, Placed, ReadStored, Capture, TakeSnapshot, TakeBackup, ReadBefore, Busy, Locked
<1>1. CASE ReadStored(r)
  <2>1. backups' = backups /\ req[r].ask \in Ask
    BY <1>0, <1>1 DEF ReadStored, store, Course
  <2>2. CASE Stored(req[r].ask) = None
    <3>1. Answer(r, "refused") /\ "refused" \in Ended
      BY <1>1, <2>2 DEF ReadStored, Ended
    <3>2. req' \in [Requests -> Req] /\ Placed' /\ lock' \in Requests \cup {None}
      BY <1>0, <2>1, <3>1, Answers
    <3>3. QED
      BY <1>1, <3>2 DEF ReadStored, TypeOK, store
  <2>3. CASE Stored(req[r].ask) # None
    <3> DEFINE q == [req[r] EXCEPT !.plan = Stored(req[r].ask), !.pc = "capture"]
    <3>1. Stored(req[r].ask) \in Partial
      <4>1. CASE req[r].ask.op = "snapshot"
        BY <2>3, <4>1 DEF Stored, TypeOK, Partial
      <4>2. CASE req[r].ask.op = "backup"
        <5>1. req[r].ask.id \in DOMAIN backups
          BY <1>0, <4>2 DEF TypeOK, Placed
        <5>2. backups[req[r].ask.id] \in Partial
          BY <5>1 DEF TypeOK
        <5>3. QED
          BY <4>2, <5>2 DEF Stored
      <4>3. QED
        BY <1>0, <1>1, <4>1, <4>2 DEF ReadStored, Course
    <3>2. q \in Req /\ q.ask = req[r].ask
      BY <1>0, <3>1 DEF Req, Busy, Locked
    <3>3. Course(q)
      BY <1>0, <1>1, <2>1 DEF ReadStored, Req, Course, Busy, Planning, Locked
    <3>4. req' = [req EXCEPT ![r] = q] /\ lock' = lock
      BY <1>1, <2>3 DEF ReadStored
    <3> HIDE DEF q
    <3>5. req' \in [Requests -> Req] /\ Placed'
      BY <1>0, <2>1, <3>2, <3>3, <3>4, SameCall
    <3>6. QED
      BY <1>1, <3>4, <3>5 DEF ReadStored, TypeOK, store
  <2>4. QED
    BY <2>2, <2>3
<1>2. CASE Capture(r)
  <2> DEFINE to == IF req[r].ask.op = "switch" THEN "snapshot" ELSE "backup"
             q == [req[r] EXCEPT !.captured = Only(req[r].plan, disk), !.pc = to]
  <2>1. backups' = backups /\ req' = [req EXCEPT ![r] = q]
    BY <1>2 DEF Capture, store
  <2>2. Only(req[r].plan, disk) \in Partial
    BY <1>0, FileTypes DEF TypeOK, Req
  <2>3. q \in Req /\ q.ask = req[r].ask
    BY <1>0, <2>2 DEF Req, Busy, Locked
  <2>4. Course(q)
    BY <1>0, <1>2 DEF Capture, Req, Course, Busy, Planning, Locked
  <2> HIDE DEF q
  <2>5. req' \in [Requests -> Req] /\ Placed'
    BY <1>0, <2>1, <2>3, <2>4, SameCall
  <2>6. QED
    BY <1>2, <2>5 DEF Capture, TypeOK, store
<1>3. CASE TakeSnapshot(r)
  <2>1. backups' = backups
    BY <1>3 DEF TakeSnapshot
  <2>2. Course([req[r] EXCEPT !.pc = "backup"]) /\ "backup" \in Busy
    BY <1>0, <1>3 DEF TakeSnapshot, Req, Course, Busy, Planning, Locked
  <2>3. req' \in [Requests -> Req] /\ Placed' /\ lock' \in Requests \cup {None}
    <3>1. CASE req' = [req EXCEPT ![r].pc = "backup"] /\ lock' = lock
      BY <1>0, <2>1, <2>2, <3>1, Moves DEF TypeOK
    <3>2. CASE Answer(r, "refused")
      BY <1>0, <2>1, <3>2, Answers DEF Ended
    <3>3. QED
      BY <1>3, <3>1, <3>2 DEF TakeSnapshot
  <2>4. snapshot' \in [Tools -> File] \cup {None}
    BY <1>3 DEF TakeSnapshot, TypeOK
  <2>5. QED
    BY <1>3, <2>1, <2>3, <2>4 DEF TakeSnapshot, TypeOK
<1>4. CASE TakeBackup(r)
  <2> DEFINE q == [req[r] EXCEPT !.backup = Len(backups) + 1, !.pc = "before"]
  <2>1. backups' = Append(backups, req[r].captured)
    BY <1>4 DEF TakeBackup
  <2>2. /\ Len(backups) + 1 \in Nat /\ backups' \in Seq(Partial)
        /\ DOMAIN backups \subseteq DOMAIN backups'
    BY <1>0, <2>1 DEF TypeOK, Req
  <2>3. q \in Req /\ q.ask = req[r].ask
    BY <1>0, <2>2 DEF Req, Busy, Locked
  <2>4. Course(q)
    BY <1>0, <1>4 DEF TakeBackup, Req, Course, Busy, Planning, Locked
  <2>5. \/ req' = [req EXCEPT ![r] = q] /\ lock' = lock
        \/ Answer(r, "refused")
    BY <1>4 DEF TakeBackup
  <2> HIDE DEF q
  <2>6. req' \in [Requests -> Req] /\ Placed' /\ lock' \in Requests \cup {None}
    <3>1. CASE req' = [req EXCEPT ![r] = q] /\ lock' = lock
      BY <1>0, <2>2, <2>3, <2>4, <3>1, SameCall DEF TypeOK
    <3>2. CASE Answer(r, "refused")
      BY <1>0, <2>2, <3>2, Answers DEF Ended
    <3>3. QED
      BY <2>5, <3>1, <3>2
  <2>7. QED
    BY <1>4, <2>2, <2>6 DEF TakeBackup, TypeOK
<1>5. CASE ReadBefore(r)
  <2> DEFINE q == [req[r] EXCEPT !.before = Only(req[r].plan, disk), !.todo = Named(req[r].plan),
                                 !.pc = "apply"]
  <2>1. backups' = backups /\ req' = [req EXCEPT ![r] = q]
    BY <1>5 DEF ReadBefore, store
  <2>2. /\ Only(req[r].plan, disk) \in Partial /\ Named(req[r].plan) \subseteq Tools
        /\ \A t \in Named(req[r].plan) : Only(req[r].plan, disk)[t] \in File
    BY <1>0, FileTypes DEF TypeOK, Req, Named, Only
  <2>3. q \in Req /\ q.ask = req[r].ask
    BY <1>0, <2>2 DEF Req, Busy, Locked
  <2>4. req[r].done = {}
    BY <1>0, <1>5 DEF ReadBefore, Course
  <2>5. Course(q)
    BY <1>0, <1>5, <2>2, <2>4 DEF ReadBefore, Req, Course, Busy, Planning, Locked
  <2> HIDE DEF q
  <2>6. req' \in [Requests -> Req] /\ Placed'
    BY <1>0, <2>1, <2>3, <2>5, SameCall
  <2>7. QED
    BY <1>5, <2>6 DEF ReadBefore, TypeOK, store
<1>6. QED
  BY <1>1, <1>2, <1>3, <1>4, <1>5

\* The change and the way back.
LEMMA ChangingTypeOK ==
    ASSUME TypeOK, NEW r \in Requests, \/ ApplyOne(r) \/ ApplyRefused(r) \/ UndoOne(r)
                                       \/ UndoRefused(r) \/ RollBack(r) \/ Applied(r)
    PROVE  TypeOK'
<1> USE DEF At, Goto
<1>0. /\ req \in [Requests -> Req] /\ req[r] \in Req /\ Course(req[r])
      /\ req[r].pc \in {"apply", "undo"} /\ req[r].pc \in Busy /\ backups' = backups
  BY DEF TypeOK, Placed, ApplyOne, ApplyRefused, UndoOne, UndoRefused, RollBack, Applied, Busy, Locked,
         store
<1>1. CASE ApplyOne(r)
  <2> DEFINE t == First(req[r].todo)
             q == [req[r] EXCEPT !.todo = @ \ {t}, !.done = @ \cup {t}]
  <2>1. t \in req[r].todo /\ t \in Tools /\ req[r].plan[t] \in File
    <3>1. req[r].todo # {} /\ req[r].todo \subseteq Tools /\ req[r].todo \subseteq Named(req[r].plan)
      BY <1>0, <1>1 DEF ApplyOne, Req, Course
    <3>2. t \in req[r].todo
      BY <3>1, FirstAndLast
    <3>3. QED
      BY <1>0, <3>1, <3>2 DEF Named, Req, Partial
  <2>2. req' = [req EXCEPT ![r] = q] /\ disk' = [disk EXCEPT ![t] = req[r].plan[t]]
    BY <1>0, <1>1 DEF ApplyOne, Req
  <2>3. q \in Req /\ q.ask = req[r].ask
    BY <1>0, <2>1 DEF Req
  <2>4. Course(q)
    BY <1>0, <1>1, <2>1 DEF ApplyOne, Req, Course, Busy, Planning, Locked
  <2>5. disk' \in [Tools -> File]
    BY <2>1, <2>2 DEF TypeOK
  <2> HIDE DEF q
  <2>6. req' \in [Requests -> Req] /\ Placed'
    BY <1>0, <2>2, <2>3, <2>4, SameCall
  <2>7. QED
    BY <1>1, <2>5, <2>6 DEF ApplyOne, TypeOK, store
<1>2. CASE UndoOne(r) \/ UndoRefused(r)
  <2> DEFINE t == Last(req[r].done)
             q(l) == [req[r] EXCEPT !.done = @ \ {t}, !.lost = l]
  <2>1. t \in req[r].done /\ t \in Tools /\ req[r].before[t] \in File
    <3>1. req[r].done # {} /\ req[r].done \subseteq Tools /\ req[r].done \subseteq Named(req[r].plan)
      BY <1>0, <1>2 DEF UndoOne, UndoRefused, Req, Course
    <3>2. t \in req[r].done
      BY <3>1, FirstAndLast
    <3>3. QED
      BY <1>0, <3>1, <3>2 DEF Course
  <2>2. PICK l \in {req[r].lost, req[r].lost \cup {t}} : req' = [req EXCEPT ![r] = q(l)]
    <3>1. CASE UndoOne(r)
      BY <1>0, <3>1 DEF UndoOne, Req
    <3>2. CASE UndoRefused(r)
      BY <1>0, <3>2 DEF UndoRefused, Req
    <3>3. QED
      BY <1>2, <3>1, <3>2
  <2>3. disk' \in {disk, [disk EXCEPT ![t] = req[r].before[t]]}
    BY <1>2 DEF UndoOne, UndoRefused
  <2>4. q(l) \in Req /\ q(l).ask = req[r].ask
    BY <1>0, <2>1 DEF Req
  <2>5. Course(q(l))
    BY <1>0, <1>2, <2>1 DEF UndoOne, UndoRefused, Req, Course, Busy, Planning, Locked
  <2>6. disk' \in [Tools -> File]
    BY <2>1, <2>3 DEF TypeOK
  <2> HIDE DEF q
  <2>7. req' \in [Requests -> Req] /\ Placed'
    BY <1>0, <2>2, <2>4, <2>5, SameCall
  <2>8. QED
    BY <1>2, <2>6, <2>7 DEF UndoOne, UndoRefused, TypeOK, store
<1>3. CASE ApplyRefused(r)
  <2> DEFINE t == First(req[r].todo)
             q(l) == [req[r] EXCEPT !.lost = l, !.pc = "undo"]
  <2>1. t \in req[r].todo /\ t \in Tools /\ req[r].plan[t] \in File
    <3>1. req[r].todo # {} /\ req[r].todo \subseteq Tools /\ req[r].todo \subseteq Named(req[r].plan)
      BY <1>0, <1>3 DEF ApplyRefused, Req, Course
    <3>2. t \in req[r].todo
      BY <3>1, FirstAndLast
    <3>3. QED
      BY <1>0, <3>1, <3>2 DEF Named, Req, Partial
  <2>2. PICK l \in {req[r].lost, {t}} : req' = [req EXCEPT ![r] = q(l)]
    BY <1>0, <1>3 DEF ApplyRefused, Req
  <2>3. disk' \in {disk, [disk EXCEPT ![t] = req[r].plan[t]]} /\ changed' \in {changed, TRUE}
    BY <1>3 DEF ApplyRefused
  <2>4. q(l) \in Req /\ q(l).ask = req[r].ask
    BY <1>0, <2>1 DEF Req, Busy, Locked
  <2>5. Course(q(l))
    BY <1>0, <1>3, <2>1 DEF ApplyRefused, Req, Course, Busy, Planning, Locked
  <2>6. disk' \in [Tools -> File] /\ changed' \in BOOLEAN
    BY <2>1, <2>3 DEF TypeOK
  <2> HIDE DEF q
  <2>7. req' \in [Requests -> Req] /\ Placed'
    BY <1>0, <2>2, <2>4, <2>5, SameCall
  <2>8. QED
    BY <1>3, <2>6, <2>7 DEF ApplyRefused, TypeOK, store
<1>4. CASE RollBack(r)
  <2>1. req' \in [Requests -> Req] /\ Placed' /\ lock' \in Requests \cup {None}
    BY <1>0, <1>4, Answers DEF RollBack, Ended
  <2>2. QED
    BY <1>4, <2>1 DEF RollBack, TypeOK, store
<1>5. CASE Applied(r)
  <2> DEFINE to == IF req[r].ask.op = "remove" THEN "forget" ELSE "record"
  <2>1. req' = [req EXCEPT ![r].pc = to] /\ to \in Busy
    BY <1>5 DEF Applied, Busy, Locked
  <2>2. Course([req[r] EXCEPT !.pc = to])
    BY <1>0, <1>5 DEF Applied, Req, Course, Busy, Planning, Locked
  <2>3. req' \in [Requests -> Req] /\ Placed'
    BY <1>0, <2>1, <2>2, Moves
  <2>4. QED
    BY <1>5, <2>3 DEF Applied, TypeOK, store
<1>6. QED
  BY <1>1, <1>2, <1>3, <1>4, <1>5

\* What follows the change, and the ends that may come at any time.
LEMMA AfterTypeOK ==
    ASSUME TypeOK, NEW r \in Requests, \/ Record(r) \/ AcceptDrift(r) \/ ReadBack(r) \/ Forget(r)
                                       \/ WriteRecords(r) \/ Refuse(r) \/ Crash(r)
    PROVE  TypeOK'
<1> USE DEF At, Goto
<1>0. /\ req \in [Requests -> Req] /\ req[r] \in Req /\ Course(req[r])
      /\ req[r].pc \in Busy /\ req[r].ask \in Ask /\ backups' = backups
  BY DEF TypeOK, Placed, Course, Record, AcceptDrift, ReadBack, Forget, WriteRecords, Refuse, Crash,
         Busy, Planning, Locked, store
<1>1. CASE Record(r) \/ AcceptDrift(r)
  <2>1. req' = [req EXCEPT ![r].pc = "readback"] /\ "readback" \in Busy
    BY <1>1 DEF Record, AcceptDrift, Busy, Locked
  <2>2. Course([req[r] EXCEPT !.pc = "readback"])
    BY <1>0, <1>1 DEF Record, AcceptDrift, Req, Course, Busy, Planning, Locked
  <2>3. req' \in [Requests -> Req] /\ Placed'
    BY <1>0, <2>1, <2>2, Moves
  <2>4. state' \in Assignment
    <3>1. CASE Record(r)
      <4>1. req[r].ask.op \in {"switch", "remove", "snapshot", "backup"}
        BY <1>0, <3>1 DEF Record, Course
      <4>2. Fingerprints(req[r].ask) \in Assignment
        BY <1>0, <4>1, AskType DEF Fingerprints, TypeOK, Assignment
      <4>3. QED
        BY <3>1, <4>2 DEF Record, TypeOK
    <3>2. CASE AcceptDrift(r)
      <4>1. req[r].ask.tool \in Tools
        BY <1>0, <3>2, AskType DEF AcceptDrift, Course
      <4>2. Live(req[r].ask.tool).sel \in Providers \cup {Nobody}
        BY <4>1, FileTypes DEF TypeOK, Config
      <4>3. QED
        BY <3>2, <4>1, <4>2 DEF AcceptDrift, TypeOK, Assignment
    <3>3. QED
      BY <1>1, <3>1, <3>2
  <2>5. QED
    BY <1>1, <2>3, <2>4 DEF Record, AcceptDrift, TypeOK, store
<1>2. CASE ReadBack(r) \/ Refuse(r) \/ Crash(r)
  <2>1. PICK v \in Ended : Answer(r, v)
    BY <1>2 DEF ReadBack, Refuse, Crash, Ended
  <2>2. req' \in [Requests -> Req] /\ Placed' /\ lock' \in Requests \cup {None}
    BY <1>0, <2>1, Answers
  <2>3. QED
    BY <1>2, <2>2 DEF ReadBack, Refuse, Crash, TypeOK, store
<1>3. CASE Forget(r)
  <2>1. keys' \in SUBSET Providers
    BY <1>3 DEF Forget, TypeOK
  <2>2. CASE req' = [req EXCEPT ![r].pc = "records"] /\ lock' = lock
    <3>1. Course([req[r] EXCEPT !.pc = "records"]) /\ "records" \in Busy
      BY <1>0, <1>3 DEF Forget, Req, Course, Busy, Planning, Locked
    <3>2. req' \in [Requests -> Req] /\ Placed'
      BY <1>0, <2>2, <3>1, Moves
    <3>3. QED
      BY <1>3, <2>1, <2>2, <3>2 DEF Forget, TypeOK, store
  <2>3. CASE Answer(r, "refused")
    <3>1. req' \in [Requests -> Req] /\ Placed' /\ lock' \in Requests \cup {None}
      BY <1>0, <2>3, Answers DEF Ended
    <3>2. QED
      BY <1>3, <2>1, <3>1 DEF Forget, TypeOK, store
  <2>4. QED
    BY <1>3, <2>2, <2>3 DEF Forget
<1>4. CASE WriteRecords(r)
  <2>1. PICK v \in Ended : Answer(r, v)
    BY <1>4 DEF WriteRecords, Ended
  <2>2. req' \in [Requests -> Req] /\ Placed' /\ lock' \in Requests \cup {None}
    BY <1>0, <2>1, Answers
  <2>3. records' \in SUBSET Providers
    <3>1. records' \in {records, req[r].doc \ {req[r].ask.provider}}
      BY <1>4 DEF WriteRecords
    <3>2. QED
      BY <1>0, <3>1 DEF TypeOK, Req
  <2>4. QED
    BY <1>4, <2>2, <2>3 DEF WriteRecords, TypeOK, store
<1>5. QED
  BY <1>1, <1>2, <1>3, <1>4

\* What is written to a file from outside is a file.
LEMMA EditTypeOK ==
    ASSUME TypeOK, Edit
    PROVE  TypeOK'
<1>1. disk' \in [Tools -> File]
  <2>1. PICK t \in Tools :
          /\ disk[t] # Absent
          /\ \/ \E x \in Rest : disk' = [disk EXCEPT ![t].rest = x]
             \/ \E s \in disk[t].reg \cup {Nobody} : disk' = [disk EXCEPT ![t].sel = s]
    BY DEF Edit
  <2>2. disk[t] \in Config
    BY <2>1 DEF TypeOK, File
  <2>3. CASE \E x \in Rest : disk' = [disk EXCEPT ![t].rest = x]
    BY <2>2, <2>3 DEF TypeOK, File, Config
  <2>4. CASE \E s \in disk[t].reg \cup {Nobody} : disk' = [disk EXCEPT ![t].sel = s]
    BY <2>2, <2>4 DEF TypeOK, File, Config
  <2>5. QED
    BY <2>1, <2>3, <2>4
<1>2. req' = req /\ backups' = backups
  BY DEF Edit, store
<1>3. Placed'
  BY <1>2 DEF TypeOK, Placed
<1>4. edited' \in SUBSET Tools
  BY DEF Edit, TypeOK
<1>5. QED
  BY <1>1, <1>3, <1>4 DEF Edit, TypeOK, store

\* Every step keeps the types.
LEMMA StepTypeOK == TypeOK /\ [Next]_vars => TypeOK'
<1> SUFFICES ASSUME TypeOK, [Next]_vars
             PROVE  TypeOK'
  OBVIOUS
<1>1. ASSUME NEW r \in Requests,
             Start(r) \/ Progress(r) \/ CheckKeys(r) \/ Forget(r) \/ Fault(r)
      PROVE  TypeOK'
  BY <1>1, BeforeLockTypeOK, PreparingTypeOK, ChangingTypeOK, AfterTypeOK DEF Progress, Fault
<1>2. CASE Edit
  BY <1>2, EditTypeOK
<1>3. CASE UNCHANGED vars
  BY <1>3 DEF vars, store, TypeOK, Placed
<1>4. QED
  BY <1>1, <1>2, <1>3 DEF Next

\* Whatever is called, in whatever order, every file, record and backup stays one, no call puts back a
\* backup that is not there, and none plans, writes or puts back a file that is not in its plan.
THEOREM TypeCorrect == Spec => []TypeOK
<1>1. QED
  BY InitTypeOK, StepTypeOK, PTL DEF Spec
-----------------------------------------------------------------------------
(* The lock. *)

Alone == \A r \in Requests : req[r].pc \in Locked => lock = r

Step(r) == Start(r) \/ Progress(r) \/ CheckKeys(r) \/ Forget(r) \/ Fault(r)

\* What a step of one call leaves to the others: their own memory and, to the one that holds the lock,
\* the files, the snapshot and the fingerprints.
LEMMA Others ==
    ASSUME TypeOK, Alone, NEW r \in Requests, Step(r), NEW x \in Requests, x # r
    PROVE  /\ req'[x] = req[x]
           /\ req[x].pc \in Locked => UNCHANGED <<disk, snapshot, state, changed, lock>>
<1> USE DEF At, Goto, Answer
<1>1. req \in [Requests -> Req]
  BY DEF TypeOK
<1>2. req'[x] = req[x]
  <2>1. CASE Start(r) \/ Cycle(r) \/ CheckKeys(r) \/ PlanSwitch(r) \/ PlanRemoval(r) \/ TakeLock(r)
             \/ Contended(r)
    BY <1>1, <2>1 DEF Start, Cycle, CheckKeys, PlanSwitch, PlanRemoval, TakeLock, Contended
  <2>2. CASE ReadStored(r) \/ Capture(r) \/ TakeSnapshot(r) \/ TakeBackup(r) \/ ReadBefore(r)
    BY <1>1, <2>2 DEF ReadStored, Capture, TakeSnapshot, TakeBackup, ReadBefore
  <2>3. CASE ApplyOne(r) \/ ApplyRefused(r) \/ UndoOne(r) \/ UndoRefused(r) \/ RollBack(r) \/ Applied(r)
    BY <1>1, <2>3 DEF ApplyOne, ApplyRefused, UndoOne, UndoRefused, RollBack, Applied
  <2>4. CASE Record(r) \/ AcceptDrift(r) \/ ReadBack(r) \/ Forget(r) \/ WriteRecords(r) \/ Refuse(r)
             \/ Crash(r)
    BY <1>1, <2>4 DEF Record, AcceptDrift, ReadBack, Forget, WriteRecords, Refuse, Crash
  <2>5. QED
    BY <2>1, <2>2, <2>3, <2>4 DEF Step, Progress, Fault
<1>3. ASSUME req[x].pc \in Locked
      PROVE  UNCHANGED <<disk, snapshot, state, changed, lock>>
  <2>1. lock = x /\ lock # r /\ lock # None /\ req[r].pc \notin Locked
    BY <1>3, TapkeyAssumption DEF Alone
  <2>2. CASE Start(r) \/ Cycle(r) \/ CheckKeys(r) \/ PlanSwitch(r) \/ PlanRemoval(r) \/ TakeLock(r)
             \/ Contended(r)
    BY <2>1, <2>2 DEF Start, Cycle, CheckKeys, PlanSwitch, PlanRemoval, TakeLock, Contended, store
  <2>3. CASE Refuse(r) \/ Crash(r)
    BY <2>1, <2>3 DEF Refuse, Crash, store
  <2>4. CASE ~(Start(r) \/ Cycle(r) \/ CheckKeys(r) \/ PlanSwitch(r) \/ PlanRemoval(r) \/ TakeLock(r)
               \/ Contended(r) \/ Refuse(r) \/ Crash(r))
    <3>1. req[r].pc \in Locked
      BY <2>4 DEF Step, Progress, Fault, Locked, ReadStored, Capture, TakeSnapshot, TakeBackup,
                  ReadBefore, ApplyOne, ApplyRefused, UndoOne, UndoRefused, RollBack, Applied, Record,
                  AcceptDrift, ReadBack, Forget, WriteRecords
    <3>2. QED
      BY <2>1, <3>1
  <2>5. QED
    BY <2>2, <2>3, <2>4
<1>4. QED
  BY <1>2, <1>3

\* What was backed up stays as it is.
LEMMA BackupsStay ==
    ASSUME TypeOK, Next
    PROVE  /\ DOMAIN backups \subseteq DOMAIN backups'
           /\ \A i \in DOMAIN backups : backups'[i] = backups[i]
<1>1. CASE \E r \in Requests : TakeBackup(r)
  <2>1. PICK r \in Requests : backups' = Append(backups, req[r].captured)
    BY <1>1 DEF TakeBackup
  <2>2. req[r].captured \in Partial /\ backups \in Seq(Partial)
    BY DEF TypeOK, Req
  <2>3. QED
    BY <2>1, <2>2
<1>2. CASE ~ \E r \in Requests : TakeBackup(r)
  <2>1. backups' = backups
    BY <1>2 DEF Next, Progress, Fault, Edit, Start, Cycle, CheckKeys, PlanSwitch, PlanRemoval, TakeLock,
                Contended, ReadStored, Capture, TakeSnapshot, ReadBefore, ApplyOne, ApplyRefused,
                UndoOne, UndoRefused, RollBack, Applied, Record, AcceptDrift, ReadBack, Forget,
                WriteRecords, Refuse, Crash, store
  <2>2. QED
    BY <2>1
<1>3. QED
  BY <1>1, <1>2

\* Who holds the lock got it while it was free, and everybody else's answer leaves it alone.
LEMMA StepAlone == TypeOK /\ Alone /\ Next => Alone'
<1> SUFFICES ASSUME TypeOK, Alone, Next
             PROVE  Alone'
  OBVIOUS
<1> USE DEF At, Goto, Answer
<1>1. CASE Edit
  BY <1>1 DEF Edit, Alone
<1>2. ASSUME NEW r \in Requests, Step(r)
      PROVE  Alone'
  <2>1. req \in [Requests -> Req] /\ req[r] \in Req
    BY DEF TypeOK
  <2>2. ASSUME NEW x \in Requests, x # r, req'[x].pc \in Locked
        PROVE  lock' = x
    BY <1>2, <2>2, Others DEF Alone
  <2>3. req'[r].pc \in Locked => lock' = r
    <3>1. CASE Start(r) \/ Cycle(r)
      <4>1. \A a : Called(a).pc \notin Locked
        BY DEF Called, Idle, Locked
      <4>2. CASE Start(r)
        BY <2>1, <4>1, <4>2 DEF Start
      <4>3. CASE Cycle(r)
        BY <2>1, <4>1, <4>3 DEF Cycle, Req, Locked
      <4>4. QED
        BY <3>1, <4>2, <4>3
    <3>2. CASE CheckKeys(r) \/ PlanSwitch(r) \/ PlanRemoval(r) \/ Contended(r)
      <4>1. req'[r].pc \in {"plan", "lock", "refused", "busy"}
        BY <2>1, <3>2 DEF CheckKeys, PlanSwitch, PlanRemoval, Contended, Req
      <4>2. QED
        BY <4>1 DEF Locked
    <3>3. CASE TakeLock(r)
      BY <3>3 DEF TakeLock
    <3>4. CASE req[r].pc \in Locked /\ lock' = lock
      BY <3>4 DEF Alone
    <3>5. CASE \E v \in Ended : Answer(r, v)
      BY <2>1, <3>5 DEF Req, Locked, Ended
    <3>6. CASE ReadStored(r) \/ Capture(r) \/ TakeSnapshot(r) \/ TakeBackup(r) \/ ReadBefore(r)
               \/ ApplyOne(r) \/ ApplyRefused(r) \/ UndoOne(r) \/ UndoRefused(r) \/ RollBack(r) \/ Applied(r)
      <4>1. (req[r].pc \in Locked /\ lock' = lock) \/ \E v \in Ended : Answer(r, v)
        BY <3>6 DEF ReadStored, Capture, TakeSnapshot, TakeBackup, ReadBefore, ApplyOne, ApplyRefused,
                    UndoOne, UndoRefused, RollBack, Applied, Locked, Ended
      <4>2. QED
        BY <3>4, <3>5, <4>1
    <3>7. CASE Record(r) \/ AcceptDrift(r) \/ ReadBack(r) \/ Forget(r) \/ WriteRecords(r) \/ Refuse(r)
               \/ Crash(r)
      <4>1. (req[r].pc \in Locked /\ lock' = lock) \/ \E v \in Ended : Answer(r, v)
        BY <3>7 DEF Record, AcceptDrift, ReadBack, Forget, WriteRecords, Refuse, Crash, Locked, Ended
      <4>2. QED
        BY <3>4, <3>5, <4>1
    <3>8. QED
      BY <1>2, <3>1, <3>2, <3>3, <3>6, <3>7 DEF Step, Progress, Fault
  <2>4. QED
    BY <2>2, <2>3 DEF Alone
<1>3. QED
  BY <1>1, <1>2 DEF Next, Step

\* No two calls are under the lock at once, whatever dies and whatever is refused.
THEOREM OneHolder == Spec => []Alone
<1>1. Init => Alone
  BY DEF Init, Alone, Idle, Locked
<1>2. TypeOK /\ Alone /\ [Next]_vars => Alone'
  BY StepAlone DEF vars, Alone
<1>3. QED
  BY <1>1, <1>2, TypeCorrect, PTL DEF Spec
-----------------------------------------------------------------------------
(* What the holder of the lock has prepared, and how far its change has come. *)

\* Nobody else writes the files while a call is under way.
Calm == MaxEdits = 0 \/ ~EditAnyTime

\* What was captured, and then backed up, is what the planned files are.
Ready(q, files, saved) ==
    /\ q.pc \in {"snapshot", "backup"} => q.captured = Only(q.plan, files)
    /\ q.pc = "before" =>
          q.backup \in DOMAIN saved /\ saved[q.backup] = Only(q.plan, files)

Saved(q, saved) ==
    (q.pc \in Changing \/ (q.pc = "dead" /\ q.done \cup q.lost # {})) /\ q.ask.op # "accept" =>
        q.backup \in DOMAIN saved /\ saved[q.backup] = q.before

\* The files still to do are as they were found, the ones done as planned; the ones put back are as
\* they were found, but for those that were refused.
Exact(q, files) ==
    /\ q.pc = "apply" =>
          /\ q.todo \cup q.done = Named(q.plan) /\ q.todo \cap q.done = {}
          /\ \A t \in q.todo : files[t] = q.before[t]
          /\ \A t \in q.done : files[t] = q.plan[t]
    /\ q.pc = "undo" =>
          /\ \A t \in Named(q.plan) \ q.done :
                files[t] = q.before[t] \/ (t \in q.lost /\ files[t] = q.plan[t])
          /\ \A t \in q.done : files[t] = q.plan[t]
    /\ q.pc \in {"record", "forget", "records", "readback"} =>
          \A t \in Named(q.plan) : files[t] = q.plan[t]

Work ==
    \A r \in Requests :
        Ready(req[r], disk, backups) /\ Saved(req[r], backups) /\ Exact(req[r], disk)

\* A call that has not begun to change anything, or has come to an answer that promises nothing.
LEMMA NoWork ==
    ASSUME NEW q, NEW files, NEW saved,
           \/ q.pc \in {"idle", "cycle", "check", "plan", "lock", "read", "capture", "accept", "refused",
                       "busy"}
           \/ q.pc = "dead" /\ q.done = {} /\ q.lost = {}
    PROVE  Ready(q, files, saved) /\ Saved(q, saved) /\ Exact(q, files)
BY DEF Ready, Saved, Exact, Changing

\* The work of the call that takes the step.
LEMMA OwnWork ==
    ASSUME TypeOK, Alone, Work, Next, NEW r \in Requests, Step(r)
    PROVE  Ready(req'[r], disk', backups') /\ Saved(req'[r], backups') /\ Exact(req'[r], disk')
<1> USE DEF At, Goto, Answer
<1>1. /\ req \in [Requests -> Req] /\ req[r] \in Req /\ Course(req[r])
      /\ Ready(req[r], disk, backups) /\ Saved(req[r], backups) /\ Exact(req[r], disk)
  BY DEF TypeOK, Placed, Work
<1>2. CASE Start(r) \/ Cycle(r)
  <2>1. \A a : Called(a).pc \in {"cycle", "check", "plan", "lock", "refused"}
    BY DEF Called, Idle
  <2>2. CASE Start(r)
    BY <1>1, <2>1, <2>2, NoWork DEF Start
  <2>3. CASE Cycle(r)
    <3>1. req'[r].pc \in {"cycle", "check", "plan", "lock", "refused"}
      BY <1>1, <2>1, <2>3 DEF Cycle, Req
    <3>2. QED
      BY <3>1, NoWork
  <2>4. QED
    BY <1>2, <2>2, <2>3
<1>3. CASE CheckKeys(r) \/ PlanSwitch(r) \/ PlanRemoval(r) \/ Contended(r) \/ TakeLock(r) \/ ReadStored(r) \/ Refuse(r)
  <2>1. req'[r].pc \in {"plan", "lock", "refused", "busy", "capture", "accept", "read"}
    BY <1>1, <1>3 DEF CheckKeys, PlanSwitch, PlanRemoval, Contended, TakeLock, FirstLocked, ReadStored, Refuse, Req
  <2>2. QED
    BY <2>1, NoWork
<1>4. CASE Capture(r) \/ (TakeSnapshot(r) /\ req'[r].pc # "refused")
  <2>1. /\ req'[r].pc \in {"snapshot", "backup"} /\ req'[r].captured = Only(req'[r].plan, disk)
        /\ disk' = disk
    BY <1>1, <1>4 DEF Capture, TakeSnapshot, Req, Ready, store
  <2>2. QED
    BY <2>1 DEF Ready, Saved, Exact, Changing
<1>13. CASE req'[r].pc = "refused"
  BY <1>13, NoWork
<1>5. CASE TakeBackup(r) /\ req'[r].pc # "refused"
  <2>1. /\ req'[r].pc = "before" /\ req'[r].backup = Len(backups) + 1
        /\ req'[r].plan = req[r].plan /\ disk' = disk
        /\ backups' = Append(backups, Only(req[r].plan, disk))
    BY <1>1, <1>5 DEF TakeBackup, Req, Ready
  <2>2. Only(req[r].plan, disk) \in Partial /\ backups \in Seq(Partial)
    BY <1>1, FileTypes DEF TypeOK, Req
  <2>3. req'[r].backup \in DOMAIN backups' /\ backups'[req'[r].backup] = Only(req[r].plan, disk)
    BY <2>1, <2>2
  <2>4. QED
    BY <2>1, <2>3 DEF Ready, Saved, Exact, Changing
<1>6. CASE ReadBefore(r)
  <2>1. /\ req'[r].pc = "apply" /\ req'[r].before = Only(req[r].plan, disk)
        /\ req'[r].todo = Named(req[r].plan) /\ req'[r].plan = req[r].plan
        /\ req'[r].done = {} /\ req'[r].backup = req[r].backup
        /\ disk' = disk /\ backups' = backups
    BY <1>1, <1>6 DEF ReadBefore, Req, Course, store
  <2>2. req[r].backup \in DOMAIN backups /\ backups[req[r].backup] = Only(req[r].plan, disk)
    BY <1>1, <1>6 DEF ReadBefore, Ready
  <2>3. \A t \in Named(req[r].plan) : Only(req[r].plan, disk)[t] = disk[t]
    BY DEF Named, Only
  <2>4. QED
    BY <2>1, <2>2, <2>3 DEF Ready, Saved, Exact, Changing
<1>7. CASE ApplyOne(r)
  <2> DEFINE t == First(req[r].todo)
  <2>1. t \in req[r].todo /\ req[r].todo \subseteq Tools /\ req[r].done \subseteq Tools
    BY <1>1, <1>7, FirstAndLast DEF ApplyOne, Req
  <2>2. /\ req[r].pc = "apply" /\ req'[r].pc = "apply" /\ req'[r].ask = req[r].ask
        /\ req'[r].todo = req[r].todo \ {t} /\ req'[r].done = req[r].done \cup {t}
        /\ req'[r].plan = req[r].plan /\ req'[r].before = req[r].before
        /\ req'[r].backup = req[r].backup /\ backups' = backups
        /\ disk' = [disk EXCEPT ![t] = req[r].plan[t]]
    BY <1>1, <1>7 DEF ApplyOne, Req, store
  <2> HIDE DEF t
  <2>3. \A u \in Tools : disk'[u] = IF u = t THEN req[r].plan[t] ELSE disk[u]
    BY <2>1, <2>2 DEF TypeOK
  <2>4. Exact(req'[r], disk')
    BY <1>1, <2>1, <2>2, <2>3 DEF Exact
  <2>5. Ready(req'[r], disk', backups') /\ Saved(req'[r], backups')
    BY <1>1, <2>2 DEF Ready, Saved, Changing
  <2>6. QED
    BY <2>4, <2>5
<1>8. CASE UndoOne(r) \/ UndoRefused(r)
  <2> DEFINE t == Last(req[r].done)
  <2>1. t \in req[r].done /\ req[r].done \subseteq Tools /\ Named(req[r].plan) \subseteq Tools
    BY <1>1, <1>8, FirstAndLast DEF UndoOne, UndoRefused, Req, Named
  <2>2. /\ req[r].pc = "undo" /\ req'[r].pc = "undo" /\ req'[r].ask = req[r].ask
        /\ req'[r].done = req[r].done \ {t} /\ req[r].lost \subseteq req'[r].lost
        /\ req'[r].plan = req[r].plan /\ req'[r].before = req[r].before
        /\ req'[r].backup = req[r].backup /\ backups' = backups
    BY <1>1, <1>8 DEF UndoOne, UndoRefused, Req, store
  <2>3. \/ disk' = [disk EXCEPT ![t] = req[r].before[t]]
        \/ disk' = disk /\ t \in req'[r].lost
    BY <1>1, <1>8 DEF UndoOne, UndoRefused, Req
  <2> HIDE DEF t
  <2>4. \A u \in Tools : u # t => disk'[u] = disk[u]
    BY <2>1, <2>3 DEF TypeOK
  <2>5. disk'[t] = req[r].before[t] \/ (t \in req'[r].lost /\ disk'[t] = req[r].plan[t])
    BY <1>1, <2>1, <2>2, <2>3 DEF TypeOK, Exact
  <2>6. Exact(req'[r], disk')
    BY <1>1, <2>1, <2>2, <2>4, <2>5 DEF Exact
  <2>7. Ready(req'[r], disk', backups') /\ Saved(req'[r], backups')
    BY <1>1, <2>2 DEF Ready, Saved, Changing
  <2>8. QED
    BY <2>6, <2>7
<1>9. CASE ApplyRefused(r)
  <2> DEFINE t == First(req[r].todo)
  <2>1. t \in req[r].todo /\ t \in Tools /\ req[r].done \subseteq Tools
    BY <1>1, <1>9, FirstAndLast DEF ApplyRefused, Req
  <2>2. /\ req[r].pc = "apply" /\ req'[r].pc = "undo" /\ req'[r].ask = req[r].ask
        /\ req'[r].done = req[r].done /\ req'[r].plan = req[r].plan /\ req'[r].before = req[r].before
        /\ req'[r].backup = req[r].backup /\ backups' = backups
    BY <1>1, <1>9 DEF ApplyRefused, Req, store
  <2>3. disk' = disk \/ (disk' = [disk EXCEPT ![t] = req[r].plan[t]] /\ t \in req'[r].lost)
    BY <1>1, <1>9 DEF ApplyRefused, Req
  <2> HIDE DEF t
  <2>4. \A u \in Tools : u # t => disk'[u] = disk[u]
    BY <2>1, <2>3 DEF TypeOK
  <2>5. disk'[t] = disk[t] \/ (t \in req'[r].lost /\ disk'[t] = req[r].plan[t])
    BY <2>1, <2>3 DEF TypeOK
  <2>6. Named(req[r].plan) \subseteq Tools
    BY DEF Named
  <2>7. Exact(req'[r], disk')
    BY <1>1, <2>1, <2>2, <2>4, <2>5, <2>6 DEF Exact
  <2>8. Ready(req'[r], disk', backups') /\ Saved(req'[r], backups')
    BY <1>1, <2>2 DEF Ready, Saved, Changing
  <2>9. QED
    BY <2>7, <2>8
<1>14. CASE RollBack(r) \/ Applied(r) \/ Record(r) \/ ReadBack(r) \/ Forget(r) \/ WriteRecords(r)
  <2>1. req[r].pc \in Changing /\ disk' = disk /\ backups' = backups
    BY <1>14 DEF RollBack, Applied, Record, ReadBack, Forget, WriteRecords, Changing, store
  <2>2. /\ req'[r].ask = req[r].ask /\ req'[r].plan = req[r].plan /\ req'[r].todo = req[r].todo
        /\ req'[r].done = req[r].done /\ req'[r].before = req[r].before
        /\ req'[r].backup = req[r].backup
    BY <1>1, <1>14 DEF RollBack, Applied, Record, ReadBack, Forget, WriteRecords, Req
  <2>3. \/ req'[r].pc \in {"rolled_back", "applied", "refused"}
        \/ req[r].pc = "apply" /\ req[r].todo = {} /\ req'[r].pc \in {"record", "forget"}
        \/ /\ req[r].pc \in {"record", "forget", "records", "readback"}
           /\ req'[r].pc \in {"record", "forget", "records", "readback"}
    BY <1>1, <1>14 DEF RollBack, Applied, Record, ReadBack, Forget, WriteRecords, Req
  <2>4. Exact(req'[r], disk')
    BY <1>1, <2>1, <2>2, <2>3 DEF Exact
  <2>5. Ready(req'[r], disk', backups') /\ Saved(req'[r], backups')
    BY <1>1, <2>1, <2>2, <2>3 DEF Ready, Saved, Changing
  <2>6. QED
    BY <2>4, <2>5
<1>10. CASE AcceptDrift(r)
  <2>1. /\ req'[r].pc = "readback" /\ req'[r].ask.op = "accept" /\ req'[r].plan = NoFiles
        /\ disk' = disk
    BY <1>1, <1>10 DEF AcceptDrift, Course, Req, Busy, Locked, store
  <2>2. Named(NoFiles) = {}
    BY DEF Named, NoFiles
  <2>3. QED
    BY <2>1, <2>2 DEF Ready, Saved, Exact
<1>11. CASE Crash(r)
  <2>1. /\ req'[r].pc = "dead" /\ req'[r].done = req[r].done /\ req'[r].lost = req[r].lost
        /\ req'[r].ask = req[r].ask
        /\ req'[r].backup = req[r].backup /\ req'[r].before = req[r].before /\ backups' = backups
        /\ req[r].pc \in Busy
    BY <1>1, <1>11 DEF Crash, Req, store
  <2>2. req[r].done \cup req[r].lost # {} => req[r].pc \in Changing \/ req[r].ask.op = "accept"
    BY <1>1, <2>1 DEF Course, Changing, Busy, Planning, Locked
  <2>3. QED
    BY <1>1, <2>1, <2>2 DEF Ready, Saved, Exact, Changing
<1>12. QED
  BY <1>2, <1>3, <1>4, <1>5, <1>6, <1>7, <1>8, <1>9, <1>10, <1>11, <1>13, <1>14
     DEF Step, Progress, Fault

\* An edit does not come between while somebody is at work.
LEMMA NoEditMeanwhile ==
    ASSUME Calm, TypeOK, Edit
    PROVE  \A r \in Requests : req[r].pc \notin Busy
BY TapkeyAssumption DEF Calm, TypeOK, Edit

\* Every step of every request keeps Work; the others' planned files stay theirs while one holds the lock.
LEMMA StepWork == Calm /\ TypeOK /\ Alone /\ Work /\ Next => Work'
<1> SUFFICES ASSUME Calm, TypeOK, Alone, Work, Next
             PROVE  Work'
  OBVIOUS
<1>1. ASSUME NEW r \in Requests, Step(r)
      PROVE  Work'
  <2>1. ASSUME NEW x \in Requests, x # r
        PROVE  Ready(req'[x], disk', backups') /\ Saved(req'[x], backups') /\ Exact(req'[x], disk')
    <3>1. req'[x] = req[x] /\ (req[x].pc \in Locked => disk' = disk)
      BY <1>1, <2>1, Others
    <3>2. Ready(req[x], disk, backups) /\ Saved(req[x], backups) /\ Exact(req[x], disk)
      BY DEF Work
    <3>3. QED
      BY <3>1, <3>2, BackupsStay DEF Ready, Saved, Exact, Locked
  <2>2. QED
    BY <1>1, <2>1, OwnWork DEF Work
<1>2. CASE Edit
  <2>1. req' = req /\ backups' = backups
    BY <1>2 DEF Edit, store
  <2>2. ASSUME NEW x \in Requests
        PROVE  Ready(req[x], disk', backups) /\ Saved(req[x], backups) /\ Exact(req[x], disk')
    BY <1>2, NoEditMeanwhile DEF Work, Ready, Saved, Exact, Busy, Locked
  <2>3. QED
    BY <2>1, <2>2 DEF Work
<1>3. QED
  BY <1>1, <1>2 DEF Next, Step

\* No request is under way at first, so Work holds of them all.
LEMMA InitWork == Init => Work
<1> SUFFICES ASSUME Init
             PROVE  Work
  OBVIOUS
<1>1. \A r \in Requests : req[r].pc = "idle"
  BY DEF Init, Idle
<1>2. QED
  BY <1>1, NoWork DEF Work

\* What the lock's holder has read, saved and written is exact in every state, when tools' files
\* are edited only between calls.
LEMMA WorkHolds ==
    ASSUME Calm
    PROVE  Spec => [](TypeOK /\ Alone /\ Work)
<1>1. Calm /\ TypeOK /\ Alone /\ Work /\ [Next]_vars => Work'
  <2>1. Work /\ UNCHANGED vars => Work'
    BY DEF vars, store, Work
  <2>2. QED
    BY <2>1, StepWork
<1>2. QED
  BY <1>1, InitWork, TypeCorrect, OneHolder, PTL DEF Spec

\* As long as the files are not edited during a call, the backup a call took holds every file it changes
\* as the call found it, whatever the other processes do and wherever it dies or is refused.
THEOREM BackedUp ==
    ASSUME Calm
    PROVE  Spec => []BackupHoldsBefore
<1>1. Work => BackupHoldsBefore
  BY DEF Work, Saved, BackupHoldsBefore
<1>2. QED
  BY <1>1, WorkHolds, PTL

\* On the same condition, what is answered "applied" is applied, file by file, and what is answered
\* "rolled back" is as it was found, but for the files whose own write was refused after its rename and
\* those whose undo was refused, which may be as planned.
THEOREM AnswersAreTrue ==
    ASSUME Calm
    PROVE  Spec => AnsweredExactly
<1>1. ASSUME TypeOK, Alone, Work, Next
      PROVE  \A r \in Requests : \A t \in Tools :
                /\ req[r].pc = "readback" /\ req'[r].pc = "applied" /\ req[r].plan[t] # Keep =>
                      disk[t] = req[r].plan[t]
                /\ req[r].pc = "undo" /\ req'[r].pc = "rolled_back" /\ req[r].plan[t] # Keep =>
                      disk[t] = req[r].before[t] \/ (t \in req[r].lost /\ disk[t] = req[r].plan[t])
  <2> SUFFICES ASSUME NEW r \in Requests, NEW t \in Tools, req[r].plan[t] # Keep
               PROVE  /\ req[r].pc = "readback" => disk[t] = req[r].plan[t]
                      /\ req[r].pc = "undo" /\ req'[r].pc = "rolled_back" =>
                            disk[t] = req[r].before[t] \/ (t \in req[r].lost /\ disk[t] = req[r].plan[t])
    OBVIOUS
  <2>1. Exact(req[r], disk) /\ t \in Named(req[r].plan)
    BY <1>1 DEF Work, Named
  <2>2. ASSUME req[r].pc = "undo", req'[r].pc = "rolled_back"
        PROVE  req[r].done = {}
    <3>1. req \in [Requests -> Req] /\ req[r] \in Req
      BY <1>1 DEF TypeOK
    <3>2. PICK x \in Requests : Step(x)
      BY <2>2, <1>1 DEF Next, Edit, Step
    <3>3. x = r
      BY <2>2, <3>2, <1>1, Others
    <3>4. Crash(r) \/ UndoOne(r) \/ UndoRefused(r) \/ RollBack(r)
      BY <2>2, <3>2, <3>3 DEF Step, Progress, Fault, At, Start, Cycle, CheckKeys, PlanSwitch, PlanRemoval, TakeLock,
            Contended, ReadStored, Capture, TakeSnapshot, TakeBackup, ReadBefore, ApplyOne, ApplyRefused,
            Applied, Record, AcceptDrift, ReadBack, Forget, WriteRecords, Refuse
    <3>5. QED
      BY <2>2, <3>1, <3>4 DEF Crash, UndoOne, UndoRefused, RollBack, Answer, Goto, At, Req
  <2>3. QED
    BY <2>1, <2>2 DEF Exact
<1>2. TypeOK /\ Alone /\ Work /\ [Next]_vars =>
          [\A r \in Requests : \A t \in Tools :
              /\ req[r].pc = "readback" /\ req'[r].pc = "applied" /\ req[r].plan[t] # Keep =>
                    disk[t] = req[r].plan[t]
              /\ req[r].pc = "undo" /\ req'[r].pc = "rolled_back" /\ req[r].plan[t] # Keep =>
                    disk[t] = req[r].before[t] \/ (t \in req[r].lost /\ disk[t] = req[r].plan[t])]_req
  BY <1>1 DEF vars
<1>3. QED
  BY <1>2, WorkHolds, PTL DEF Spec, AnsweredExactly
-----------------------------------------------------------------------------
(* The snapshot. *)

\* Only a switch takes the snapshot, and only when there is none.
LEMMA SnapshotStays ==
    ASSUME Next
    PROVE  /\ snapshot # None => snapshot' = snapshot
           /\ snapshot' = snapshot \/ \E r \in Requests : TakeSnapshot(r)
<1>1. CASE \E r \in Requests : TakeSnapshot(r)
  BY <1>1 DEF TakeSnapshot
<1>2. CASE ~ \E r \in Requests : TakeSnapshot(r)
  BY <1>2 DEF Next, Progress, Fault, Edit, Start, Cycle, CheckKeys, PlanSwitch, PlanRemoval, TakeLock, Contended,
              ReadStored, Capture, TakeBackup, ReadBefore, ApplyOne, ApplyRefused, UndoOne, UndoRefused,
              RollBack, Applied, Record, AcceptDrift, ReadBack, Forget, WriteRecords, Refuse,
              Crash, store
<1>3. QED
  BY <1>1, <1>2

NoRemoval == \A a \in Asks : a.op # "remove"

\* A call about to change files, or going back to a backup, has a snapshot behind it.
Grounded(q, snap) ==
    /\ q.pc \in Busy => q.ask.op # "remove"
    /\ q.pc \in {"backup", "before", "apply", "undo"} => snap # None
    /\ q.pc = "capture" /\ q.ask.op # "switch" => snap # None

Floor ==
    /\ changed \/ backups # << >> => snapshot # None
    /\ \A r \in Requests : Grounded(req[r], snapshot)

\* The call that takes the step: it has the snapshot before it backs up anything.
LEMMA OwnFloor ==
    ASSUME NoRemoval, TypeOK, Alone, Floor, Next, NEW r \in Requests, Step(r)
    PROVE  /\ Grounded(req'[r], snapshot')
           /\ changed' \/ backups' # << >> => snapshot' # None
<1> USE DEF At, Goto, Answer
<1>1. /\ req \in [Requests -> Req] /\ req[r] \in Req /\ Course(req[r])
      /\ Grounded(req[r], snapshot)
      /\ snapshot # None => snapshot' = snapshot
  BY SnapshotStays DEF TypeOK, Placed, Floor
<1>2. CASE Start(r) \/ Cycle(r)
  <2>1. \A a : Called(a).pc \in {"cycle", "check", "plan", "lock", "refused"} /\ Called(a).ask = a
    BY DEF Called, Idle
  <2>2. snapshot' = snapshot /\ backups' = backups /\ changed' = changed
    BY <1>2 DEF Start, Cycle, store
  <2>3. CASE Start(r)
    BY <1>1, <2>1, <2>2, <2>3 DEF Start, Grounded, NoRemoval, Floor
  <2>4. CASE Cycle(r)
    <3>1. \/ req'[r] = [req[r] EXCEPT !.pc = "refused"]
          \/ \E to : req'[r] = Called([op |-> "switch", profile |-> to])
      BY <1>1, <2>4 DEF Cycle
    <3>2. CASE req'[r] = [req[r] EXCEPT !.pc = "refused"]
      <4>1. req'[r].pc = "refused"
        BY <1>1, <3>2 DEF Req
      <4>2. QED
        BY <2>2, <4>1 DEF Grounded, Floor, Busy, Planning, Locked
    <3>3. CASE \E to : req'[r] = Called([op |-> "switch", profile |-> to])
      <4>1. PICK to : req'[r] = Called([op |-> "switch", profile |-> to])
        BY <3>3
      <4>2. /\ req'[r].ask = [op |-> "switch", profile |-> to]
            /\ req'[r].pc \in {"cycle", "check", "plan", "lock", "refused"}
        BY <2>1, <4>1
      <4>3. req'[r].ask.op = "switch"
        BY <4>2
      <4>4. QED
        BY <2>2, <4>2, <4>3 DEF Grounded, Floor
    <3>4. QED
      BY <3>1, <3>2, <3>3
  <2>5. QED
    BY <1>2, <2>3, <2>4
<1>3. CASE CheckKeys(r) \/ PlanSwitch(r) \/ PlanRemoval(r) \/ Contended(r) \/ TakeLock(r)
  <2>1. /\ req'[r].pc \in {"plan", "lock", "refused", "busy", "capture", "accept", "read"}
        /\ req'[r].pc = "capture" => req'[r].ask.op \in {"switch", "remove"}
        /\ req'[r].ask = req[r].ask /\ req[r].pc \in Busy
        /\ snapshot' = snapshot /\ backups' = backups /\ changed' = changed
    BY <1>1, <1>3 DEF CheckKeys, PlanSwitch, PlanRemoval, Contended, TakeLock, FirstLocked, Req, Busy, Planning,
                      store
  <2>2. QED
    BY <1>1, <2>1 DEF Grounded, Floor
<1>4. CASE ReadStored(r)
  <2>1. snapshot' = snapshot /\ backups' = backups /\ changed' = changed
    BY <1>4 DEF ReadStored, store
  <2>2. CASE req'[r].pc = "refused"
    BY <2>1, <2>2 DEF Grounded, Floor, Busy, Planning, Locked
  <2>3. CASE req'[r].pc # "refused"
    <3>1. req'[r].pc = "capture" /\ req'[r].ask = req[r].ask /\ Stored(req[r].ask) # None
      BY <1>1, <1>4, <2>3 DEF ReadStored, Req
    <3>2. snapshot # None
      <4>1. CASE req[r].ask.op = "snapshot"
        BY <3>1, <4>1 DEF Stored
      <4>2. CASE req[r].ask.op = "backup"
        <5>1. req[r].ask.id \in DOMAIN backups
          BY <1>4, <4>2 DEF ReadStored, TypeOK, Placed, Busy, Locked
        <5>2. backups # << >>
          BY <5>1
        <5>3. QED
          BY <5>2 DEF Floor
      <4>3. QED
        BY <1>1, <1>4, <4>1, <4>2 DEF ReadStored, Course
    <3>3. req[r].ask.op # "remove"
      BY <1>1, <1>4 DEF ReadStored, Grounded, Busy, Locked
    <3>4. QED
      BY <2>1, <3>1, <3>2, <3>3 DEF Grounded, Floor
  <2>4. QED
    BY <2>2, <2>3
<1>5. CASE Capture(r)
  <2>1. /\ req'[r].pc = (IF req[r].ask.op = "switch" THEN "snapshot" ELSE "backup")
        /\ req'[r].ask = req[r].ask /\ req[r].pc = "capture"
        /\ snapshot' = snapshot /\ backups' = backups /\ changed' = changed
    BY <1>1, <1>5 DEF Capture, Req, store
  <2>2. QED
    BY <1>1, <2>1 DEF Grounded, Floor, Busy, Locked
<1>6. CASE TakeSnapshot(r)
  <2>1. snapshot' # None
    BY <1>6, TapkeyAssumption DEF TakeSnapshot, TypeOK
  <2>2. req'[r].pc \in {"backup", "refused"} /\ req'[r].ask = req[r].ask /\ req[r].pc \in Busy
    BY <1>1, <1>6 DEF TakeSnapshot, Req, Busy, Locked
  <2>3. QED
    BY <1>1, <2>1, <2>2 DEF Grounded
<1>7. CASE TakeBackup(r) \/ ReadBefore(r) \/ ApplyOne(r) \/ ApplyRefused(r) \/ UndoOne(r) \/ UndoRefused(r)
  <2>1. /\ req[r].pc \in {"backup", "before", "apply", "undo"}
        /\ req'[r].pc \in {"before", "apply", "undo", "refused"} /\ req'[r].ask = req[r].ask
    BY <1>1, <1>7 DEF TakeBackup, ReadBefore, ApplyOne, ApplyRefused, UndoOne, UndoRefused, Req
  <2>2. snapshot # None /\ snapshot' = snapshot /\ req[r].ask.op # "remove"
    BY <1>1, <2>1 DEF Grounded, Busy, Locked
  <2>3. QED
    BY <2>1, <2>2 DEF Grounded
<1>8. CASE RollBack(r) \/ Applied(r) \/ Record(r) \/ AcceptDrift(r) \/ ReadBack(r) \/ Forget(r)
           \/ WriteRecords(r) \/ Refuse(r) \/ Crash(r)
  <2>1. /\ req[r].pc \in Busy /\ req'[r].ask = req[r].ask
        /\ req'[r].pc \in Ended \cup {"record", "forget", "records", "readback"}
        /\ snapshot' = snapshot /\ backups' = backups /\ changed' = changed
    BY <1>1, <1>8 DEF RollBack, Applied, Record, AcceptDrift, ReadBack, Forget, WriteRecords, Refuse,
                      Crash, Req, Busy, Planning, Locked, Ended, store
  <2>2. QED
    BY <1>1, <2>1 DEF Grounded, Floor, Ended
<1>9. QED
  BY <1>2, <1>3, <1>4, <1>5, <1>6, <1>7, <1>8 DEF Step, Progress, Fault

\* Every step keeps the floor: what a call has seen of the snapshot is still there.
LEMMA StepFloor == NoRemoval /\ TypeOK /\ Alone /\ Floor /\ Next => Floor'
<1> SUFFICES ASSUME NoRemoval, TypeOK, Alone, Floor, Next
             PROVE  Floor'
  OBVIOUS
<1>1. ASSUME NEW r \in Requests, Step(r)
      PROVE  Floor'
  <2>1. ASSUME NEW x \in Requests, x # r
        PROVE  Grounded(req'[x], snapshot')
    BY <1>1, <2>1, Others, SnapshotStays DEF Floor, Grounded
  <2>2. QED
    BY <1>1, <2>1, OwnFloor DEF Floor
<1>2. CASE Edit
  BY <1>2 DEF Edit, Floor, store
<1>3. QED
  BY <1>1, <1>2 DEF Next, Step

\* Where nothing but switches and restores is asked for, no file is changed before the snapshot is
\* taken, by whichever process, and it is never taken again.  (A removal takes no snapshot.)
THEOREM SnapshotComesFirst ==
    ASSUME NoRemoval
    PROVE  Spec => SnapshotIsFloor
<1>1. Init => Floor
  BY DEF Init, Idle, Floor, Grounded, Busy, Planning, Locked
<1>2. TypeOK /\ Alone /\ Floor /\ [Next]_vars => Floor'
  <2>1. Floor /\ UNCHANGED vars => Floor'
    BY DEF vars, store, Floor
  <2>2. QED
    BY <2>1, StepFloor
<1>3. TypeOK /\ Floor /\ Floor' /\ [Next]_vars =>
          [/\ changed' => snapshot' # None
           /\ snapshot' # snapshot => snapshot = None /\ ~changed]_<<snapshot, changed>>
  BY SnapshotStays DEF Floor, vars, store
<1>4. QED
  BY <1>1, <1>2, <1>3, TypeCorrect, OneHolder, PTL DEF Spec, SnapshotIsFloor

\* A restore of the snapshot plans the snapshot, and forgets what tapkey owned.
Returning(q, snap, owned) ==
    q.ask.op = "snapshot" =>
        /\ q.pc \in {"capture", "snapshot", "backup", "before", "apply", "undo", "record", "readback"} =>
              snap # None /\ q.plan = snap
        /\ q.pc = "readback" /\ "store" \notin Faults => owned = [t \in Tools |-> None]

Return == \A r \in Requests : Returning(req[r], snapshot, state)

\* A request's own step keeps what it returns to.
LEMMA OwnReturn ==
    ASSUME TypeOK, Alone, Return, Next, NEW r \in Requests, Step(r)
    PROVE  Returning(req'[r], snapshot', state')
<1> USE DEF At, Goto, Answer
<1>1. /\ req \in [Requests -> Req] /\ req[r] \in Req /\ Course(req[r])
      /\ Returning(req[r], snapshot, state)
      /\ snapshot # None => snapshot' = snapshot
  BY SnapshotStays DEF TypeOK, Placed, Return
<1>2. CASE Start(r) \/ Cycle(r)
  <2>1. \A a : Called(a).pc \in {"cycle", "check", "plan", "lock", "refused"}
    BY DEF Called, Idle
  <2>2. req'[r].pc \in {"cycle", "check", "plan", "lock", "refused"}
    BY <1>1, <1>2, <2>1 DEF Start, Cycle, Req
  <2>3. QED
    BY <2>2 DEF Returning
<1>3. CASE CheckKeys(r) \/ PlanSwitch(r) \/ PlanRemoval(r) \/ Contended(r) \/ TakeLock(r)
  <2>1. /\ req'[r].pc \in {"plan", "lock", "refused", "busy", "capture", "accept", "read"}
        /\ req'[r].pc = "capture" => req'[r].ask.op \in {"switch", "remove"}
    BY <1>1, <1>3 DEF CheckKeys, PlanSwitch, PlanRemoval, Contended, TakeLock, FirstLocked, Req
  <2>2. QED
    BY <2>1 DEF Returning
<1>4. CASE ReadStored(r)
  <2>1. \/ req'[r].pc = "refused"
        \/ /\ req'[r].ask = req[r].ask /\ Stored(req[r].ask) # None
           /\ req'[r].plan = Stored(req[r].ask) /\ req'[r].pc = "capture"
    BY <1>1, <1>4 DEF ReadStored, Req
  <2>2. snapshot' = snapshot
    BY <1>4 DEF ReadStored, store
  <2>3. QED
    BY <2>1, <2>2 DEF Returning, Stored
<1>5. CASE Capture(r) \/ TakeSnapshot(r) \/ TakeBackup(r) \/ ReadBefore(r) \/ ApplyOne(r)
           \/ ApplyRefused(r) \/ UndoOne(r) \/ UndoRefused(r) \/ Applied(r)
  <2>1. /\ req'[r].ask = req[r].ask /\ req'[r].plan = req[r].plan
        /\ req[r].pc \in {"capture", "snapshot", "backup", "before", "apply", "undo"}
        /\ req'[r].pc \in {"snapshot", "backup", "before", "apply", "undo", "record", "forget", "refused"}
    BY <1>1, <1>5 DEF Capture, TakeSnapshot, TakeBackup, ReadBefore, ApplyOne, ApplyRefused, UndoOne, UndoRefused,
                      Applied, Req
  <2>2. QED
    BY <1>1, <2>1 DEF Returning
<1>6. CASE Record(r)
  <2>1. /\ req'[r].ask = req[r].ask /\ req'[r].plan = req[r].plan
        /\ req[r].pc = "record" /\ req'[r].pc = "readback"
        /\ state' = Fingerprints(req[r].ask) \/ "store" \in Faults
    BY <1>1, <1>6 DEF Record, Req
  <2>2. QED
    BY <1>1, <2>1 DEF Returning, Fingerprints
<1>7. CASE AcceptDrift(r)
  BY <1>1, <1>7 DEF AcceptDrift, Returning, Req, Course
<1>8. CASE RollBack(r) \/ ReadBack(r) \/ Forget(r) \/ WriteRecords(r) \/ Refuse(r) \/ Crash(r)
  <2>1. req'[r].pc \in Ended \cup {"records"}
    BY <1>1, <1>8 DEF RollBack, ReadBack, Forget, WriteRecords, Refuse, Crash, Req, Ended
  <2>2. QED
    BY <2>1 DEF Returning, Ended
<1>9. QED
  BY <1>2, <1>3, <1>4, <1>5, <1>6, <1>7, <1>8 DEF Step, Progress, Fault

\* Every step keeps Return, the step's own request by OwnReturn and the others because the snapshot stays.
LEMMA StepReturn == TypeOK /\ Alone /\ Return /\ Next => Return'
<1> SUFFICES ASSUME TypeOK, Alone, Return, Next
             PROVE  Return'
  OBVIOUS
<1>1. ASSUME NEW r \in Requests, Step(r)
      PROVE  Return'
  <2>1. ASSUME NEW x \in Requests, x # r
        PROVE  Returning(req'[x], snapshot', state')
    BY <1>1, <2>1, Others DEF Return, Returning, Locked
  <2>2. QED
    BY <1>1, <2>1, OwnReturn DEF Return
<1>2. CASE Edit
  BY <1>2 DEF Edit, Return, store
<1>3. QED
  BY <1>1, <1>2 DEF Next, Step

\* As long as the files are not edited during a call, a restore of the snapshot that is answered
\* "applied" leaves every file as it was before tapkey first ran, and nothing owned.
THEOREM AllIsReturned ==
    ASSUME Calm
    PROVE  Spec => SnapshotReturnsAll
<1>1. Init => Return
  BY DEF Init, Idle, Return, Returning
<1>2. TypeOK /\ Alone /\ Return /\ [Next]_vars => Return'
  <2>1. Return /\ UNCHANGED vars => Return'
    BY DEF vars, store, Return
  <2>2. QED
    BY <2>1, StepReturn
<1>3. ASSUME TypeOK, Alone, Work, Return, Next, NEW r \in Requests, req[r].pc # "applied",
             req'[r].pc = "applied", req[r].ask.op = "snapshot"
      PROVE  disk = snapshot /\ ("store" \notin Faults => state = [t \in Tools |-> None])
  <2>1. req \in [Requests -> Req] /\ req[r] \in Req /\ Course(req[r])
    BY <1>3 DEF TypeOK, Placed
  <2>2. PICK x \in Requests : Step(x)
    BY <1>3 DEF Next, Edit, Step
  <2>3. x = r
    BY <2>2, <1>3, Others
  <2>4. \A a : Called(a).pc # "applied"
    BY DEF Called, Idle
  <2>5. ReadBack(r) \/ WriteRecords(r)
    <3> USE DEF At, Goto, Answer
    <3>1. ~(Start(r) \/ Cycle(r))
      BY <1>3, <2>1, <2>4 DEF Start, Cycle, Req
    <3>2. ~(CheckKeys(r) \/ PlanSwitch(r) \/ PlanRemoval(r) \/ TakeLock(r) \/ Contended(r))
      BY <1>3, <2>1 DEF CheckKeys, PlanSwitch, PlanRemoval, TakeLock, FirstLocked, Contended, Req
    <3>3. ~(ReadStored(r) \/ Capture(r) \/ TakeSnapshot(r) \/ TakeBackup(r) \/ ReadBefore(r))
      BY <1>3, <2>1 DEF ReadStored, Capture, TakeSnapshot, TakeBackup, ReadBefore, Req
    <3>4. ~(ApplyOne(r) \/ ApplyRefused(r) \/ UndoOne(r) \/ UndoRefused(r) \/ RollBack(r) \/ Applied(r))
      BY <1>3, <2>1 DEF ApplyOne, ApplyRefused, UndoOne, UndoRefused, RollBack, Applied, Req
    <3>5. ~(Record(r) \/ AcceptDrift(r) \/ Forget(r) \/ Refuse(r) \/ Crash(r))
      BY <1>3, <2>1 DEF Record, AcceptDrift, Forget, Refuse, Crash, Req
    <3>6. QED
      BY <2>2, <2>3, <3>1, <3>2, <3>3, <3>4, <3>5 DEF Step, Progress, Fault
  <2>6. req[r].pc = "readback"
    BY <1>3, <2>1, <2>5 DEF ReadBack, WriteRecords, At, Course
  <2>7. /\ snapshot \in [Tools -> File] /\ req[r].plan = snapshot
        /\ "store" \notin Faults => state = [t \in Tools |-> None]
    BY <1>3, <2>6 DEF Return, Returning, TypeOK
  <2>8. \A t \in Tools : disk[t] = snapshot[t]
    <3>1. Named(req[r].plan) = Tools
      BY <2>7, TapkeyAssumption DEF Named
    <3>2. QED
      BY <1>3, <2>6, <2>7, <3>1 DEF Work, Exact
  <2>9. disk = snapshot
    BY <1>3, <2>7, <2>8 DEF TypeOK
  <2>10. QED
    BY <2>7, <2>9
<1>4. TypeOK /\ Alone /\ Work /\ Return /\ [Next]_vars =>
          [\A r \in Requests :
              req[r].ask # None /\ req[r].pc # "applied" /\ req'[r].pc = "applied" =>
                  (req[r].ask.op = "snapshot" =>
                        /\ disk = snapshot
                        /\ "store" \notin Faults => state = [t \in Tools |-> None])]_req
  BY <1>3 DEF vars
<1>5. QED
  BY <1>1, <1>2, <1>4, WorkHolds, PTL DEF Spec, SnapshotReturnsAll
-----------------------------------------------------------------------------
(* One call after another. *)

Solo == \A r, x \in Requests : req[r].pc \in Busy /\ req[x].pc \in Busy => r = x

\* A call takes a step when it is called and then while it is under way.
LEMMA UnderWay ==
    ASSUME NEW r \in Requests, Step(r), ~Start(r)
    PROVE  req[r].pc \in Busy
<1> USE DEF At, Busy, Planning, Locked
<1>1. CASE Cycle(r) \/ CheckKeys(r) \/ PlanSwitch(r) \/ PlanRemoval(r) \/ TakeLock(r) \/ Contended(r)
  BY <1>1 DEF Cycle, CheckKeys, PlanSwitch, PlanRemoval, TakeLock, Contended
<1>2. CASE ReadStored(r) \/ Capture(r) \/ TakeSnapshot(r) \/ TakeBackup(r) \/ ReadBefore(r)
  BY <1>2 DEF ReadStored, Capture, TakeSnapshot, TakeBackup, ReadBefore
<1>3. CASE ApplyOne(r) \/ ApplyRefused(r) \/ UndoOne(r) \/ UndoRefused(r) \/ RollBack(r) \/ Applied(r)
  BY <1>3 DEF ApplyOne, ApplyRefused, UndoOne, UndoRefused, RollBack, Applied
<1>4. CASE Record(r) \/ AcceptDrift(r) \/ ReadBack(r) \/ Forget(r) \/ WriteRecords(r) \/ Refuse(r)
           \/ Crash(r)
  BY <1>4 DEF Record, AcceptDrift, ReadBack, Forget, WriteRecords, Refuse, Crash
<1>5. QED
  BY <1>1, <1>2, <1>3, <1>4 DEF Step, Progress, Fault

\* Meanwhile everybody else rests.
LEMMA OthersRest ==
    ASSUME ~Overlapping, TypeOK, Alone, Solo, NEW r \in Requests, Step(r), NEW x \in Requests, x # r
    PROVE  req'[x] = req[x] /\ req[x].pc \notin Busy
<1>1. req'[x] = req[x]
  BY Others
<1>2. CASE Start(r)
  BY <1>1, <1>2 DEF Start
<1>3. CASE ~Start(r)
  BY <1>1, <1>3, UnderWay DEF Solo
<1>4. QED
  BY <1>2, <1>3

\* With calls that do not overlap, at most one is under way after every step.
LEMMA StepSolo == ~Overlapping /\ TypeOK /\ Alone /\ Solo /\ Next => Solo'
<1> SUFFICES ASSUME ~Overlapping, TypeOK, Alone, Solo, Next
             PROVE  Solo'
  OBVIOUS
<1>1. ASSUME NEW r \in Requests, Step(r)
      PROVE  Solo'
  BY <1>1, OthersRest DEF Solo
<1>2. CASE Edit
  BY <1>2 DEF Edit, Solo
<1>3. QED
  BY <1>1, <1>2 DEF Next, Step

\* Work and Solo together, for calls one after another.
LEMMA SoloHolds ==
    ASSUME Calm, ~Overlapping
    PROVE  Spec => [](TypeOK /\ Alone /\ Work /\ Solo)
<1>1. Init => Solo
  BY DEF Init, Solo, Idle, Busy, Planning, Locked
<1>2. TypeOK /\ Alone /\ Solo /\ [Next]_vars => Solo'
  <2>1. Solo /\ UNCHANGED vars => Solo'
    BY DEF vars, Solo
  <2>2. QED
    BY <2>1, StepSolo
<1>3. QED
  BY <1>1, <1>2, WorkHolds, PTL DEF Spec
-----------------------------------------------------------------------------
(* What is planned of a file that tapkey does not own. *)

AsRead(f) == IF f = Absent THEN [sel |-> Nobody, reg |-> {}, rest |-> Empty] ELSE f

\* A file goes on from another: the rest and the other registrations are the same.
Carries(to, from, mine) == to.rest = from.rest /\ to.reg \ mine = from.reg \ mine

Preserving(q, files) ==
    q.pc \in {"check", "plan", "lock", "capture", "snapshot", "backup", "before", "apply"} =>
        \A t \in Named(q.plan) \ q.done :
            /\ q.ask.op = "switch" => Carries(q.plan[t], AsRead(files[t]), {q.ask.profile[t]})
            /\ q.ask.op = "remove" => Carries(q.plan[t], AsRead(files[t]), {q.ask.provider})

Preserve == \A r \in Requests : Preserving(req[r], disk)

\* A request's own step leaves the keys it does not own as it found them.
LEMMA OwnPreserve ==
    ASSUME TypeOK, Work, Preserve, NEW r \in Requests, Step(r)
    PROVE  Preserving(req'[r], disk')
<1> USE DEF At, Goto, Answer
<1>1. /\ req \in [Requests -> Req] /\ req[r] \in Req /\ Course(req[r])
      /\ Exact(req[r], disk) /\ Preserving(req[r], disk)
  BY DEF TypeOK, Placed, Work, Preserve
<1>2. CASE Start(r) \/ Cycle(r)
  <2>1. \A a : Called(a).plan = NoFiles
    BY DEF Called, Idle
  <2>2. req'[r].plan = NoFiles \/ req'[r].pc = "refused"
    BY <1>1, <1>2, <2>1 DEF Start, Cycle, Req
  <2>3. Named(NoFiles) = {}
    BY DEF Named, NoFiles
  <2>4. QED
    BY <2>2, <2>3 DEF Preserving
<1>10. CASE CheckKeys(r)
  <2>1. /\ req'[r].ask = req[r].ask /\ req'[r].plan = req[r].plan /\ req'[r].done = req[r].done
        /\ disk' = disk /\ req[r].pc = "check"
    BY <1>1, <1>10 DEF CheckKeys, Req, store
  <2>2. QED
    BY <1>1, <2>1 DEF Preserving
<1>3. CASE PlanSwitch(r) \/ PlanRemoval(r)
  <2> DEFINE t == First(req[r].todo)
             mine == IF req[r].ask.op = "switch" THEN {req[r].ask.profile[t]} ELSE {req[r].ask.provider}
  <2>1. /\ t \in Tools /\ req[r].pc = "plan" /\ req[r].plan \in Partial /\ disk' = disk
        /\ req[r].ask.op \in {"switch", "remove"}
    BY <1>1, <1>3, FirstAndLast DEF PlanSwitch, PlanRemoval, Req, Course, store
  <2>2. Live(t) = AsRead(disk[t]) /\ Live(t) \in Config
    BY <2>1, FileTypes DEF Live, AsRead, TypeOK
  <2>3. \/ req'[r].pc = "refused"
        \/ /\ req'[r].ask = req[r].ask /\ req'[r].done = req[r].done
           /\ \E f : /\ req'[r].plan = [req[r].plan EXCEPT ![t] = f]
                     /\ f = Keep \/ Carries(f, AsRead(disk[t]), mine)
    <3>1. CASE PlanSwitch(r)
      <4> DEFINE f == IF WillNotStart(t) THEN Keep ELSE SelectedIn(t, req[r].ask.profile[t])
      <4>1. /\ req'[r].ask = req[r].ask /\ req'[r].done = req[r].done
            /\ req'[r].plan = [req[r].plan EXCEPT ![t] = f]
        BY <1>1, <3>1 DEF PlanSwitch, Req
      <4>2. Carries(SelectedIn(t, req[r].ask.profile[t]), Live(t), {req[r].ask.profile[t]})
        BY <2>2 DEF SelectedIn, Carries, Config
      <4>3. req[r].ask.op = "switch"
        BY <3>1 DEF PlanSwitch
      <4>4. f = Keep \/ Carries(f, AsRead(disk[t]), mine)
        BY <2>2, <4>2, <4>3
      <4>5. QED
        BY <4>1, <4>4
    <3>2. CASE PlanRemoval(r) /\ req'[r].pc # "refused"
      <4> DEFINE f == IF t \in Registry THEN [Live(t) EXCEPT !.reg = @ \ {req[r].ask.provider}] ELSE Keep
      <4>1. /\ req'[r].ask = req[r].ask /\ req'[r].done = req[r].done
            /\ req'[r].plan = [req[r].plan EXCEPT ![t] = f]
        <5>1. req'[r].pc = "refused" <=> Live(t).sel = req[r].ask.provider
          BY <1>1, <3>2 DEF PlanRemoval, Req
        <5>2. Live(t).sel # req[r].ask.provider
          BY <3>2, <5>1
        <5>3. req' = [req EXCEPT ![r].plan[t] = f,
                                 ![r].todo = @ \ {t},
                                 ![r].pc = IF req[r].todo = {t} THEN "lock" ELSE "plan"]
          BY <3>2, <5>2 DEF PlanRemoval
        <5>4. QED
          BY <1>1, <5>3 DEF Req
      <4>2. f = Keep \/ Carries(f, Live(t), {req[r].ask.provider})
        BY <2>2 DEF Carries, Config
      <4>3. req[r].ask.op # "switch"
        BY <3>2 DEF PlanRemoval
      <4>4. f = Keep \/ Carries(f, AsRead(disk[t]), mine)
        BY <2>2, <4>2, <4>3
      <4>5. QED
        BY <4>1, <4>4
    <3>3. QED
      BY <1>3, <3>1, <3>2
  <2>4. CASE req'[r].pc = "refused"
    BY <2>4 DEF Preserving
  <2>5. CASE req'[r].pc # "refused"
    <3>1. PICK f : /\ req'[r].plan = [req[r].plan EXCEPT ![t] = f]
                   /\ f = Keep \/ Carries(f, AsRead(disk[t]), mine)
      BY <2>3, <2>5
    <3>2. \A u \in Tools : req'[r].plan[u] = IF u = t THEN f ELSE req[r].plan[u]
      BY <2>1, <3>1 DEF Partial
    <3>3. ASSUME NEW u \in Named(req'[r].plan) \ req'[r].done
          PROVE  /\ req[r].ask.op = "switch" =>
                       Carries(req'[r].plan[u], AsRead(disk[u]), {req[r].ask.profile[u]})
                 /\ req[r].ask.op = "remove" =>
                       Carries(req'[r].plan[u], AsRead(disk[u]), {req[r].ask.provider})
      <4>1. u \in Tools /\ req'[r].plan[u] # Keep /\ u \notin req[r].done
        BY <2>3, <2>5 DEF Named
      <4>2. CASE u = t
        BY <2>1, <3>1, <3>2, <4>1, <4>2
      <4>3. CASE u # t
        BY <1>1, <2>1, <3>2, <4>1, <4>3 DEF Preserving, Named
      <4>4. QED
        BY <4>2, <4>3
    <3>4. QED
      BY <2>1, <2>3, <2>5, <3>3 DEF Preserving
  <2>6. QED
    BY <2>4, <2>5
<1>4. CASE TakeLock(r) \/ Contended(r) \/ Capture(r) \/ TakeSnapshot(r) \/ TakeBackup(r) \/ ReadBefore(r)
  <2>1. /\ req'[r].ask = req[r].ask /\ req'[r].done = req[r].done /\ req'[r].plan = req[r].plan
        /\ req[r].pc \in {"lock", "capture", "snapshot", "backup", "before"} /\ disk' = disk
    BY <1>1, <1>4 DEF TakeLock, Contended, Capture, TakeSnapshot, TakeBackup, ReadBefore, Req, store
  <2>2. QED
    BY <1>1, <2>1 DEF Preserving
<1>5. CASE ReadStored(r)
  <2>1. req'[r].pc = "refused" \/ req'[r].ask = req[r].ask
    BY <1>1, <1>5 DEF ReadStored, Req
  <2>2. req[r].ask.op \in {"snapshot", "backup"}
    BY <1>1, <1>5 DEF ReadStored, Course
  <2>3. QED
    BY <2>1, <2>2 DEF Preserving
<1>6. CASE ApplyOne(r)
  <2> DEFINE t == First(req[r].todo)
  <2>1. t \in Tools
    BY <1>1, <1>6, FirstAndLast DEF ApplyOne, Req
  <2>2. /\ req'[r].ask = req[r].ask /\ req'[r].done = req[r].done \cup {t}
        /\ req'[r].plan = req[r].plan /\ req[r].pc = "apply"
        /\ disk' = [disk EXCEPT ![t] = req[r].plan[t]]
    BY <1>1, <1>6 DEF ApplyOne, Req
  <2> HIDE DEF t
  <2>3. \A u \in Tools : u # t => disk'[u] = disk[u]
    BY <2>1, <2>2 DEF TypeOK
  <2>4. Named(req[r].plan) \subseteq Tools
    BY DEF Named
  <2>5. QED
    BY <1>1, <2>2, <2>3, <2>4 DEF Preserving
<1>7. CASE ApplyRefused(r) \/ UndoOne(r) \/ UndoRefused(r) \/ RollBack(r) \/ Applied(r)
  <2>1. req'[r].pc \in {"undo", "rolled_back", "record", "forget"}
    BY <1>1, <1>7 DEF ApplyRefused, UndoOne, UndoRefused, RollBack, Applied, Req
  <2>2. QED
    BY <2>1 DEF Preserving
<1>8. CASE Record(r) \/ AcceptDrift(r) \/ ReadBack(r) \/ Forget(r) \/ WriteRecords(r) \/ Refuse(r)
           \/ Crash(r)
  <2>1. req'[r].pc \in Ended \cup {"readback", "records"}
    BY <1>1, <1>8 DEF Record, AcceptDrift, ReadBack, Forget, WriteRecords, Refuse, Crash, Req, Ended
  <2>2. QED
    BY <2>1 DEF Preserving, Ended
<1>9. QED
  BY <1>2, <1>3, <1>4, <1>5, <1>6, <1>7, <1>8, <1>10 DEF Step, Progress, Fault

\* Every step keeps Preserve: the one call under way by OwnPreserve, the others being at rest.
LEMMA StepPreserve ==
    Calm /\ ~Overlapping /\ TypeOK /\ Alone /\ Solo /\ Work /\ Preserve /\ Next => Preserve'
<1> SUFFICES ASSUME Calm, ~Overlapping, TypeOK, Alone, Solo, Work, Preserve, Next
             PROVE  Preserve'
  OBVIOUS
<1>1. ASSUME NEW r \in Requests, Step(r)
      PROVE  Preserve'
  <2>1. ASSUME NEW x \in Requests, x # r
        PROVE  Preserving(req'[x], disk')
    BY <1>1, <2>1, OthersRest DEF Preserving, Busy, Planning, Locked
  <2>2. QED
    BY <1>1, <2>1, OwnPreserve DEF Preserve
<1>2. CASE Edit
  <2>1. \A x \in Requests : req'[x] = req[x] /\ req[x].pc \notin Busy
    BY <1>2, NoEditMeanwhile DEF Edit
  <2>2. QED
    BY <2>1 DEF Preserve, Preserving, Busy, Planning, Locked
<1>3. QED
  BY <1>1, <1>2 DEF Next, Step

\* Only a write adds to what is done, and only the undoing of one takes from it.
LEMMA DoneBy ==
    ASSUME TypeOK, Alone, Next, NEW r \in Requests, req[r].pc = "apply", req'[r].done # req[r].done
    PROVE  ApplyOne(r)
<1> USE DEF At, Goto, Answer
<1>1. req \in [Requests -> Req] /\ req[r] \in Req
  BY DEF TypeOK
<1>2. Step(r)
  <2>1. PICK x \in Requests : Step(x)
    BY DEF Next, Edit, Step
  <2>2. QED
    BY <2>1, Others
<1>3. \/ ApplyOne(r) \/ ApplyRefused(r) \/ Applied(r) \/ Crash(r)
  BY <1>2 DEF Step, Progress, Fault, Start, Cycle, CheckKeys, PlanSwitch, PlanRemoval, TakeLock, Contended, ReadStored,
       Capture, TakeSnapshot, TakeBackup, ReadBefore, UndoOne, UndoRefused, RollBack, Record, AcceptDrift, ReadBack,
       Forget, WriteRecords, Refuse
<1>4. ~(ApplyRefused(r) \/ Applied(r) \/ Crash(r))
  BY <1>1 DEF ApplyRefused, Applied, Crash, Req
<1>5. QED
  BY <1>3, <1>4

\* One call after another and the files not edited meanwhile, a write of a switch or of a removal leaves
\* the rest of the file, and what others registered in it, as they are at that moment.
THEOREM OthersKeysStay ==
    ASSUME Calm, ~Overlapping
    PROVE  Spec => OnlyOwnedKeys
<1>1. Init => Preserve
  BY DEF Init, Idle, Preserve, Preserving
<1>2. TypeOK /\ Alone /\ Solo /\ Work /\ Preserve /\ [Next]_vars => Preserve'
  <2>1. Preserve /\ UNCHANGED vars => Preserve'
    BY DEF vars, Preserve
  <2>2. QED
    BY <2>1, StepPreserve
<1>3. ASSUME TypeOK, Alone, Work, Preserve, Next, NEW r \in Requests,
             req[r].pc = "apply", req'[r].done # req[r].done
      PROVE  LET t == First(req[r].todo)
                 ask == req[r].ask
                 mine == IF ask.op = "switch" THEN {ask.profile[t]}
                         ELSE IF ask.op = "remove" THEN {ask.provider} ELSE Providers IN
             mine # Providers =>
                 /\ disk'[t].rest = Live(t).rest
                 /\ disk'[t].reg \ mine = Live(t).reg \ mine
  <2> DEFINE t == First(req[r].todo)
  <2>1. ApplyOne(r)
    BY <1>3, DoneBy
  <2>2. req[r] \in Req /\ Exact(req[r], disk) /\ Preserving(req[r], disk)
    BY <1>3 DEF TypeOK, Work, Preserve
  <2>3. t \in req[r].todo /\ t \in Tools
    BY <2>1, <2>2, FirstAndLast DEF ApplyOne, Req
  <2>4. t \in Named(req[r].plan) \ req[r].done
    BY <1>3, <2>2, <2>3 DEF Exact
  <2>5. disk'[t] = req[r].plan[t]
    BY <1>3, <2>1, <2>3 DEF ApplyOne, TypeOK
  <2>6. Live(t) = AsRead(disk[t])
    BY DEF Live, AsRead
  <2>7. QED
    BY <1>3, <2>2, <2>4, <2>5, <2>6 DEF Preserving, Carries
<1>4. TypeOK /\ Alone /\ Work /\ Preserve /\ [Next]_vars =>
        [\A r \in Requests :
          req[r].pc = "apply" /\ req'[r].done # req[r].done =>
              LET t == First(req[r].todo)
                  ask == req[r].ask
                  mine == IF ask.op = "switch" THEN {ask.profile[t]}
                          ELSE IF ask.op = "remove" THEN {ask.provider} ELSE Providers IN
              mine # Providers =>
                  /\ disk'[t].rest = Live(t).rest
                  /\ disk'[t].reg \ mine = Live(t).reg \ mine]_<<disk, req>>
  BY <1>3 DEF vars
<1>5. QED
  BY <1>1, <1>2, <1>4, SoloHolds, PTL DEF Spec, OnlyOwnedKeys
-----------------------------------------------------------------------------
(* The cycle through the profiles. *)

\* One further and round to the first; one back and round to the last.
LEMMA StepIndexType ==
    ASSUME NEW i \in 1..Len(Rows), Len(Rows) \in Nat
    PROVE  /\ StepIndex(i, "next") = IF i = Len(Rows) THEN 1 ELSE i + 1
           /\ StepIndex(i, "previous") = IF i = 1 THEN Len(Rows) ELSE i - 1
<1> DEFINE n == Len(Rows)
<1>1. i < n => i % n = i
  BY SMT
<1>2. i = n => i % n = 0
  BY SMT
<1>3. i < n \/ i = n
  OBVIOUS
<1>4. StepIndex(i, "next") = (i % n) + 1
  BY DEF StepIndex
<1>5. StepIndex(i, "next") = IF i = n THEN 1 ELSE i + 1
  BY <1>1, <1>2, <1>3, <1>4
<1>6. StepIndex(i, "previous") = IF i = 1 THEN n ELSE i - 1
  BY DEF StepIndex
<1>7. QED
  BY <1>5, <1>6

\* What can be read of the profile that all tools use is that profile.
LEMMA ReadsInEffect ==
    ASSUME TypeOK, NEW i \in DOMAIN Rows, InEffect(i)
    PROVE  RowInEffect = i
<1> DEFINE named == {j \in DOMAIN Rows : <<j, Live(First(Using)).sel>> \in Readable}
<1>1. Rows[i] \in Assignment
  BY TapkeyAssumption DEF Assignment
<1>2. \A t \in Tools : Live(t).sel # Nobody
  BY <1>1, TapkeyAssumption DEF InEffect, Assignment
<1>3. Using = Tools /\ Using # {}
  BY <1>2, TapkeyAssumption DEF Using
<1>4. First(Using) \in Tools
  BY <1>3, FirstAndLast
<1>5. named = {i}
  BY <1>4 DEF InEffect
<1>6. i \in Nat
  BY TapkeyAssumption
<1>7. RowInEffect = CHOOSE j \in named : \A k \in named : j <= k
  BY <1>3, <1>5 DEF RowInEffect
<1> HIDE DEF named
<1>8. QED
  BY <1>5, <1>6, <1>7

\* Where no profile is listed twice and what is in effect can be read, a step of the cycle from a
\* profile that all tools use leads to its neighbour in the list, around its ends.
THEOREM CycleIsRound ==
    ASSUME "readback" \notin Faults, \A i, j \in DOMAIN Rows : Rows[i] = Rows[j] => i = j
    PROVE  Spec => CycleSteps
<1>1. ASSUME TypeOK, Alone, Next, NEW r \in Requests, NEW i \in DOMAIN Rows,
             req[r].pc = "cycle", req'[r].pc = "check", InEffect(i)
      PROVE  LET to == CHOOSE j \in DOMAIN Rows : req'[r].ask.profile = Rows[j] IN
             IF req[r].ask.step = "next"
             THEN to = i + 1 \/ (to = 1 /\ i = Len(Rows))
             ELSE i = to + 1 \/ (i = 1 /\ to = Len(Rows))
  <2> DEFINE step == req[r].ask.step
             next == StepIndex(i, step)
             to == CHOOSE j \in DOMAIN Rows : req'[r].ask.profile = Rows[j]
  <2>1. req \in [Requests -> Req] /\ req[r] \in Req /\ Course(req[r])
    BY <1>1 DEF TypeOK, Placed
  <2>2. Step(r)
    <3>1. PICK x \in Requests : Step(x)
      BY <1>1 DEF Next, Edit, Step
    <3>2. QED
      BY <1>1, <3>1, Others
  <2>3. Cycle(r)
    <3>1. Cycle(r) \/ Crash(r)
      BY <1>1, <2>2 DEF Step, Progress, Fault, At, Start, CheckKeys, PlanSwitch, PlanRemoval, TakeLock, Contended,
          ReadStored, Capture, TakeSnapshot, TakeBackup, ReadBefore, ApplyOne, ApplyRefused, UndoOne, UndoRefused,
          RollBack, Applied, Record, AcceptDrift, ReadBack, Forget, WriteRecords, Refuse
    <3>2. ~Crash(r)
      BY <1>1, <2>1 DEF Crash, Answer, Goto, Req
    <3>3. QED
      BY <3>1, <3>2
  <2>4. Len(Rows) >= 2 /\ Len(Rows) \in Nat /\ DOMAIN Rows = 1..Len(Rows)
    <3>1. Len(Rows) \in Nat /\ DOMAIN Rows = 1..Len(Rows)
      BY TapkeyAssumption
    <3>2. ~(Len(Rows) < 2)
      BY <1>1, <2>1, <2>3 DEF Cycle, Goto, Req
    <3>3. QED
      BY <3>1, <3>2
  <2>5. step \in {"next", "previous"}
    BY <1>1, <2>1, AskType DEF Course, Busy, Planning
  <2>6. req'[r].ask.profile = Rows[next]
    <3>1. RowInEffect = i
      BY <1>1, ReadsInEffect
    <3>2. req'[r] = Called([op |-> "switch", profile |-> Rows[next]])
      <4>1. \E at \in {RowInEffect} \cup {} :
               req' = [req EXCEPT ![r] = Called([op |-> "switch",
                                                 profile |-> Rows[StepIndex(at, req[r].ask.step)]])]
        <5>1. ~(Len(Rows) < 2)
          BY <2>4
        <5>2. "readback" \notin Faults
          OBVIOUS
        <5>3. QED
          BY <2>3, <5>1, <5>2 DEF Cycle
      <4>2. req' = [req EXCEPT ![r] = Called([op |-> "switch", profile |-> Rows[next]])]
        BY <3>1, <4>1
      <4>3. QED
        BY <2>1, <4>2
    <3>3. \A a : Called(a).ask = a
      BY DEF Called, Idle
    <3>4. req'[r].ask = [op |-> "switch", profile |-> Rows[next]]
      BY <3>2, <3>3
    <3>5. QED
      BY <3>4
  <2>7. step = "next" => next = IF i = Len(Rows) THEN 1 ELSE i + 1
    BY <1>1, <2>4, StepIndexType
  <2>8. step = "previous" => next = IF i = 1 THEN Len(Rows) ELSE i - 1
    BY <1>1, <2>4, StepIndexType
  <2> HIDE DEF next, step
  <2>9. next \in DOMAIN Rows
    BY <1>1, <2>4, <2>5, <2>7, <2>8
  <2>10. to = next
    BY <1>1, <2>6, <2>9
  <2> HIDE DEF to
  <2>11. IF step = "next" THEN to = i + 1 \/ (to = 1 /\ i = Len(Rows))
         ELSE i = to + 1 \/ (i = 1 /\ to = Len(Rows))
    BY <1>1, <2>4, <2>5, <2>7, <2>8, <2>10
  <2>12. QED
    BY <2>11 DEF to, step
<1>2. TypeOK /\ Alone /\ [Next]_vars =>
        [\A r \in Requests : \A i \in DOMAIN Rows :
          req[r].pc = "cycle" /\ req'[r].pc = "check" /\ InEffect(i) =>
              LET to == CHOOSE j \in DOMAIN Rows : req'[r].ask.profile = Rows[j] IN
              IF req[r].ask.step = "next"
              THEN to = i + 1 \/ (to = 1 /\ i = Len(Rows))
              ELSE i = to + 1 \/ (i = 1 /\ to = Len(Rows))]_req
  BY <1>1 DEF vars
<1>3. QED
  BY <1>2, TypeCorrect, OneHolder, PTL DEF Spec, CycleSteps
-----------------------------------------------------------------------------
(* The broken tool. *)

NoBackupAsked == \A a \in Asks : a.op # "backup"

\* The tool's own login, and nothing of tapkey's in the file.
Clean(f) == f = Absent \/ (f.sel = Nobody /\ f.reg = {})

FoundClean == \A f \in Found : Clean(f)

\* Everything a tool could come to select from its file is known, and registered where it has to be.
Sound(t, f, known) ==
    f # Absent =>
        /\ f.reg \subseteq known
        /\ t \notin Registry => f.reg = {}
        /\ f.sel # Nobody => f.sel \in known /\ (t \in Registry => f.sel \in f.reg)

\* What a removal has gone through is done with the provider: planned without it, or never had it.
RidOf(q, t, files, known) ==
    /\ t \in Registry => q.plan[t] # Keep /\ Sound(t, q.plan[t], known \ {q.ask.provider})
    /\ t \notin Registry => q.plan[t] = Keep /\ Sound(t, files[t], known \ {q.ask.provider})

\* What a call is about to write, and what it would put back, is sound.
Careful(q, files, snap, recs, ks) ==
    /\ q.pc \in Busy => q.doc = recs /\ q.ask.op # "backup"
    /\ q.pc = "check" => \A t \in Tools : q.ask.profile[t] \in recs \cup {None}
    /\ q.pc = "plan" /\ q.ask.op = "switch" => \A t \in q.todo : q.ask.profile[t] \in recs \cap ks
    /\ q.ask.op = "switch"
       /\ q.pc \in {"check", "plan", "lock", "capture", "snapshot", "backup", "before", "apply", "undo"} =>
          \A t \in Named(q.plan) : Sound(t, q.plan[t], recs \cap ks)
    /\ q.ask.op = "switch" /\ q.pc \in {"backup", "before", "apply", "undo"} => snap # None
    /\ q.ask.op = "remove"
       /\ q.pc \in {"plan", "lock", "capture", "backup", "before", "apply", "undo", "forget"} =>
          /\ \A t \in Tools : (t \in q.todo /\ q.pc = "plan") \/ RidOf(q, t, files, recs \cap ks)
          /\ snap = None => \A t \in Named(q.plan) : Clean(q.plan[t])
    /\ q.ask.op = "remove" /\ q.pc = "records" => q.ask.provider \notin ks
    /\ q.pc \in {"apply", "undo"} =>
          \A t \in Named(q.plan) :
              Sound(t, q.before[t], recs \cap ks) /\ (snap = None => Clean(q.before[t]))

SoundFiles ==
    /\ \A t \in Tools : Sound(t, disk[t], records \cap keys)
    /\ snapshot = None => \A t \in Tools : Clean(disk[t])
    /\ snapshot # None => \A t \in Tools : Clean(snapshot[t])

Care == SoundFiles /\ \A r \in Requests : Careful(req[r], disk, snapshot, records, keys)

\* A clean file is sound, and reading an absent file as an empty one changes neither.
LEMMA SoundFacts ==
    ASSUME NEW t \in Tools, NEW f \in File, NEW known
    PROVE  /\ Clean(f) => Sound(t, f, known)
           /\ Sound(t, AsRead(f), known) <=> Sound(t, f, known)
           /\ Clean(AsRead(f)) <=> Clean(f)
<1>1. f = Absent => AsRead(f).sel = Nobody /\ AsRead(f).reg = {} /\ AsRead(f) # Absent
  <2>1. [sel |-> Nobody, reg |-> {}, rest |-> Empty] \in Config
    BY TapkeyAssumption DEF Config
  <2>2. QED
    BY <2>1, TapkeyAssumption DEF AsRead
<1>2. f # Absent => AsRead(f) = f
  BY DEF AsRead
<1>3. QED
  BY <1>1, <1>2 DEF Sound, Clean

\* One more tool planned.
LEMMA PlanCare ==
    ASSUME TypeOK, SoundFiles, NEW r \in Requests, PlanSwitch(r) \/ PlanRemoval(r),
           Careful(req[r], disk, snapshot, records, keys)
    PROVE  Careful(req'[r], disk, snapshot, records, keys)
<1> USE DEF At, Goto
<1> DEFINE t == First(req[r].todo)
           q == req[r]
           known == records \cap keys
<1>1. req \in [Requests -> Req] /\ q \in Req /\ Course(q) /\ q.pc = "plan" /\ q.pc \in Busy
  BY DEF TypeOK, Placed, CheckKeys, PlanSwitch, PlanRemoval, Busy, Planning
<1>2. t \in q.todo /\ t \in Tools /\ q.todo \subseteq Tools /\ q.plan \in Partial
  BY <1>1, FirstAndLast DEF Course, Req
<1>3. /\ Live(t) = AsRead(disk[t]) /\ Live(t) \in Config /\ Live(t) # Absent
      /\ Sound(t, Live(t), known) /\ Sound(t, disk[t], known)
      /\ snapshot = None => Clean(Live(t))
      /\ Live(t).sel = Nobody \/ disk[t] = Live(t)
      /\ disk[t] = Absent \/ disk[t] = Live(t)
  <2>1. disk[t] \in File
    BY <1>2 DEF TypeOK
  <2>2. Live(t) = AsRead(disk[t]) /\ (disk[t] = Absent \/ disk[t] = Live(t))
    BY DEF Live, AsRead
  <2>3. Live(t) \in Config /\ Live(t) # Absent
    BY <1>2, FileTypes, TapkeyAssumption DEF TypeOK
  <2>4. Sound(t, disk[t], known) /\ (snapshot = None => Clean(disk[t]))
    BY <1>2 DEF SoundFiles
  <2>5. Sound(t, Live(t), known) /\ (snapshot = None => Clean(Live(t)))
    BY <1>2, <2>1, <2>2, <2>4, SoundFacts
  <2>6. disk[t] = Absent => Live(t).sel = Nobody
    BY DEF Live
  <2>7. QED
    BY <2>2, <2>3, <2>4, <2>5, <2>6
<1>4. CASE PlanSwitch(r)
  <2> DEFINE f == IF WillNotStart(t) THEN Keep ELSE SelectedIn(t, q.ask.profile[t])
  <2>1. /\ req'[r].ask = q.ask /\ req'[r].doc = q.doc /\ req'[r].todo = q.todo \ {t}
        /\ req'[r].plan = [q.plan EXCEPT ![t] = f] /\ req'[r].pc \in {"plan", "lock"}
        /\ q.ask.op = "switch"
    BY <1>1, <1>4 DEF PlanSwitch, Req
  <2>2. q.ask.profile[t] \in known
    BY <1>1, <1>2, <2>1 DEF Careful
  <2>3. Sound(t, SelectedIn(t, q.ask.profile[t]), known)
    BY <1>3, <2>2 DEF Sound, SelectedIn, Config
  <2> HIDE DEF f, t
  <2>4. \A u \in Tools : req'[r].plan[u] = IF u = t THEN f ELSE q.plan[u]
    BY <1>2, <2>1 DEF Partial
  <2>5. \A u \in Named(req'[r].plan) : Sound(u, req'[r].plan[u], known)
    <3>1. \A u \in Named(q.plan) : Sound(u, q.plan[u], known)
      BY <1>1, <2>1 DEF Careful
    <3>2. f = Keep \/ Sound(t, f, known)
      BY <2>3 DEF f
    <3>3. QED
      BY <1>2, <2>4, <3>1, <3>2 DEF Named
  <2>6. QED
    BY <1>1, <2>1, <2>5 DEF Careful, Busy, Planning
<1>5. CASE PlanRemoval(r)
  <2> DEFINE gone == q.ask.provider
             f == IF t \in Registry THEN [Live(t) EXCEPT !.reg = @ \ {gone}] ELSE Keep
  <2>1. CASE Live(t).sel = gone
    <3>1. req'[r].pc = "refused"
      BY <1>1, <1>5, <2>1 DEF PlanRemoval, Req
    <3>2. QED
      BY <3>1 DEF Careful, Busy, Planning, Locked
  <2>2. CASE Live(t).sel # gone
    <3>1. /\ req'[r].ask = q.ask /\ req'[r].doc = q.doc /\ req'[r].todo = q.todo \ {t}
          /\ req'[r].plan = [q.plan EXCEPT ![t] = f]
          /\ req'[r].pc = IF q.todo = {t} THEN "lock" ELSE "plan"
          /\ q.ask.op = "remove"
      BY <1>1, <1>5, <2>2 DEF PlanRemoval, Req
    <3>2. t \in Registry => /\ f # Keep /\ f \in Config /\ Sound(t, f, known \ {gone})
                            /\ snapshot = None => Clean(f)
      BY <1>3, <2>2, TapkeyAssumption DEF Sound, Clean, Config, File
    <3>3. t \notin Registry => f = Keep /\ Sound(t, disk[t], known \ {gone})
      BY <1>3, <2>2 DEF Sound
    <3> HIDE DEF f, t
    <3>4. \A u \in Tools : req'[r].plan[u] = IF u = t THEN f ELSE q.plan[u]
      BY <1>2, <3>1 DEF Partial
    <3>5. \A u \in Tools : u \in q.todo \ {t} \/ RidOf(req'[r], u, disk, known)
      <4>1. \A u \in Tools : u \in q.todo \/ RidOf(q, u, disk, known)
        BY <1>1, <3>1 DEF Careful
      <4>2. RidOf(req'[r], t, disk, known)
        BY <1>2, <3>1, <3>2, <3>3, <3>4 DEF RidOf
      <4>3. \A u \in Tools : u # t /\ RidOf(q, u, disk, known) => RidOf(req'[r], u, disk, known)
        BY <3>1, <3>4 DEF RidOf
      <4>4. QED
        BY <4>1, <4>2, <4>3
    <3>6. snapshot = None => \A u \in Named(req'[r].plan) : Clean(req'[r].plan[u])
      <4>1. snapshot = None => \A u \in Named(q.plan) : Clean(q.plan[u])
        BY <1>1, <3>1 DEF Careful
      <4>2. QED
        BY <1>2, <3>2, <3>3, <3>4, <4>1 DEF Named
    <3>7. req'[r].pc = "plan" \/ \A u \in Tools : u \notin q.todo \ {t}
      BY <3>1
    <3>8. QED
      BY <1>1, <3>1, <3>5, <3>6, <3>7 DEF Careful, Busy, Planning
  <2>3. QED
    BY <2>1, <2>2
<1>6. QED
  BY <1>4, <1>5

\* A file put where another was keeps the files sound.
LEMMA PutSound ==
    ASSUME TypeOK, SoundFiles, NEW t \in Tools, NEW f \in File, Sound(t, f, records \cap keys),
           snapshot = None => Clean(f), disk' = [disk EXCEPT ![t] = f],
           snapshot' = snapshot, records' = records, keys' = keys
    PROVE  SoundFiles'
<1>1. \A u \in Tools : disk'[u] = IF u = t THEN f ELSE disk[u]
  BY DEF TypeOK
<1>2. QED
  BY <1>1 DEF SoundFiles

\* The call that takes the step.
LEMMA OwnCare ==
    ASSUME NoBackupAsked, TypeOK, Alone, Work, Return, Care, Next, NEW r \in Requests, Step(r)
    PROVE  SoundFiles' /\ Careful(req'[r], disk', snapshot', records', keys')
<1> USE DEF At, Goto, Answer
<1> DEFINE q == req[r]
           known == records \cap keys
<1>1. /\ req \in [Requests -> Req] /\ q \in Req /\ Course(q)
      /\ Exact(q, disk) /\ Returning(q, snapshot, state) /\ SoundFiles
      /\ Careful(q, disk, snapshot, records, keys)
  BY DEF TypeOK, Placed, Work, Return, Care
<1>2. UNCHANGED <<disk, snapshot, records, keys>> => SoundFiles'
  BY <1>1 DEF SoundFiles
<1>3. req'[r].pc \notin Busy => Careful(req'[r], disk', snapshot', records', keys')
  BY DEF Careful, Busy, Planning, Locked
<1>4. CASE Start(r) \/ Cycle(r)
  <2>1. UNCHANGED <<disk, snapshot, records, keys>>
    BY <1>4 DEF Start, Cycle, store
  <2>2. ASSUME NEW a, a.op # "backup"
        PROVE  Careful(Called(a), disk, snapshot, records, keys)
    <3>1. /\ Called(a).ask = a /\ Called(a).doc = records /\ Called(a).plan = NoFiles
          /\ Called(a).todo = Covered(a)
          /\ Called(a).pc \in {"cycle", "check", "plan", "lock", "refused"}
          /\ Called(a).pc = "check" => Known(a) /\ a.op = "switch"
          /\ Called(a).pc = "plan" => a.op = "remove"
          /\ Called(a).pc = "lock" => a.op \notin {"switch", "remove"}
      BY DEF Called, Idle
    <3>2. Named(NoFiles) = {}
      BY DEF Named, NoFiles
    <3>3. Known(a) /\ a.op = "switch" => \A t \in Tools : a.profile[t] \in records \cup {None}
      BY DEF Known
    <3>4. a.op = "remove" => Covered(a) = Tools
      BY DEF Covered
    <3> HIDE DEF known
    <3>5. CASE Called(a).pc \in {"cycle", "lock", "refused"}
      BY <2>2, <3>1, <3>5 DEF Careful, Busy, Planning, Locked
    <3>6. CASE Called(a).pc \in {"check", "plan"}
      BY <2>2, <3>1, <3>2, <3>3, <3>4, <3>6 DEF Careful
    <3>7. QED
      BY <3>1, <3>5, <3>6
  <2>3. CASE Start(r)
    BY <1>1, <1>2, <2>1, <2>2, <2>3 DEF Start, NoBackupAsked
  <2>4. CASE Cycle(r)
    <3>1. \/ req'[r] = [req[r] EXCEPT !.pc = "refused"]
          \/ \E to : req'[r] = Called([op |-> "switch", profile |-> to])
      BY <1>1, <2>4 DEF Cycle
    <3>2. CASE req'[r] = [req[r] EXCEPT !.pc = "refused"]
      <4>1. req'[r].pc = "refused"
        BY <1>1, <3>2 DEF Req
      <4>2. QED
        BY <1>2, <1>3, <2>1, <4>1 DEF Busy, Planning, Locked
    <3>3. CASE \E to : req'[r] = Called([op |-> "switch", profile |-> to])
      <4>1. PICK to : req'[r] = Called([op |-> "switch", profile |-> to])
        BY <3>3
      <4>2. [op |-> "switch", profile |-> to].op # "backup"
        OBVIOUS
      <4>3. Careful(req'[r], disk, snapshot, records, keys)
        BY <2>2, <4>1, <4>2
      <4>4. QED
        BY <1>2, <2>1, <4>3
    <3>4. QED
      BY <3>1, <3>2, <3>3
  <2>5. QED
    BY <1>4, <2>3, <2>4
<1>5. CASE PlanSwitch(r) \/ PlanRemoval(r)
  <2>1. UNCHANGED <<disk, snapshot, records, keys>>
    BY <1>5 DEF PlanSwitch, PlanRemoval, store
  <2>2. QED
    BY <1>1, <1>2, <1>5, <2>1, PlanCare
<1>18. CASE CheckKeys(r)
  <2>1. UNCHANGED <<disk, snapshot, records, keys>>
    BY <1>18 DEF CheckKeys, store
  <2>2. CASE req'[r].pc = "refused"
    BY <1>2, <1>3, <2>1, <2>2 DEF Busy, Planning, Locked
  <2>3. CASE req'[r].pc # "refused"
    <3>1. /\ req'[r].ask = q.ask /\ req'[r].doc = q.doc /\ req'[r].plan = q.plan /\ req'[r].todo = q.todo
          /\ q.pc = "check" /\ q.pc \in Busy /\ req'[r].pc = "plan"
          /\ \A t \in Tools : q.ask.profile[t] \in keys \cup {None}
      BY <1>1, <1>18, <2>3 DEF CheckKeys, Req, Busy, Planning
    <3>2. q.ask.op = "switch" /\ q.todo \subseteq Tools /\ \A t \in q.todo : q.ask.profile[t] # None
      BY <1>1, <3>1 DEF Course, Req
    <3>3. \A t \in q.todo : q.ask.profile[t] \in known
      BY <1>1, <3>1, <3>2 DEF Careful
    <3> HIDE DEF known
    <3>4. Careful(req'[r], disk, snapshot, records, keys)
      BY <1>1, <3>1, <3>2, <3>3 DEF Careful, known
    <3>5. QED
      BY <1>2, <2>1, <3>4
  <2>4. QED
    BY <2>2, <2>3
<1>6. CASE TakeLock(r) \/ Contended(r) \/ Capture(r) \/ TakeBackup(r)
  <2>1. UNCHANGED <<disk, snapshot, records, keys>>
    BY <1>6 DEF TakeLock, Contended, Capture, TakeBackup, store
  <2>2. /\ req'[r].ask = q.ask /\ req'[r].doc = q.doc /\ req'[r].plan = q.plan
        /\ req'[r].todo = q.todo
    BY <1>1, <1>6 DEF TakeLock, Contended, Capture, TakeBackup, Req
  <2>3. /\ q.pc \in Busy
        /\ \/ /\ q.pc = "lock"
              /\ req'[r].pc \in {"lock", "busy", "capture", "accept", "read"}
           \/ /\ q.pc = "capture"
              /\ req'[r].pc = IF q.ask.op = "switch" THEN "snapshot" ELSE "backup"
           \/ q.pc = "backup" /\ req'[r].pc \in {"before", "refused"}
    BY <1>1, <1>6 DEF TakeLock, FirstLocked, Contended, Capture, TakeBackup, Req, Busy, Planning, Locked
  <2>4. Careful(req'[r], disk, snapshot, records, keys)
    <3>1. CASE q.pc = "lock"
      <4>1. \A t \in Tools : RidOf(q, t, disk, known) => RidOf(req'[r], t, disk, known)
        BY <2>2 DEF RidOf
      <4>2. QED
        BY <1>1, <2>2, <2>3, <3>1, <4>1 DEF Careful
    <3>2. CASE q.pc = "capture"
      <4>1. \A t \in Tools : RidOf(q, t, disk, known) => RidOf(req'[r], t, disk, known)
        BY <2>2 DEF RidOf
      <4>2. QED
        BY <1>1, <2>2, <2>3, <3>2, <4>1 DEF Careful
    <3>3. CASE q.pc = "backup"
      <4>1. \A t \in Tools : RidOf(q, t, disk, known) => RidOf(req'[r], t, disk, known)
        BY <2>2 DEF RidOf
      <4>2. QED
        BY <1>1, <2>2, <2>3, <3>3, <4>1 DEF Careful
    <3>4. QED
      BY <2>3, <3>1, <3>2, <3>3
  <2>5. QED
    BY <1>2, <2>1, <2>4
<1>7. CASE ReadStored(r)
  <2>1. UNCHANGED <<disk, snapshot, records, keys>>
    BY <1>7 DEF ReadStored, store
  <2>2. CASE req'[r].pc = "refused"
    BY <1>2, <1>3, <2>1, <2>2 DEF Busy, Planning, Locked
  <2>3. CASE req'[r].pc # "refused"
    <3>1. req'[r].pc = "capture" /\ req'[r].ask = q.ask /\ req'[r].doc = q.doc
      BY <1>1, <1>7, <2>3 DEF ReadStored, Req
    <3>2. q.ask.op \in {"snapshot", "backup"} /\ q.pc \in Busy
      BY <1>1, <1>7 DEF ReadStored, Course, Busy, Locked
    <3>3. QED
      BY <1>1, <1>2, <2>1, <3>1, <3>2 DEF Careful
  <2>4. QED
    BY <2>2, <2>3
<1>8. CASE TakeSnapshot(r)
  <2>1. UNCHANGED <<disk, records, keys>> /\ snapshot' = IF snapshot = None THEN disk ELSE snapshot
    BY <1>8 DEF TakeSnapshot
  <2>2. snapshot' # None
    BY <2>1, TapkeyAssumption DEF TypeOK
  <2>3. SoundFiles'
    BY <1>1, <2>1, <2>2 DEF SoundFiles
  <2>4. /\ req'[r].ask = q.ask /\ req'[r].doc = q.doc /\ req'[r].plan = q.plan
        /\ req'[r].todo = q.todo /\ q.pc = "snapshot" /\ q.pc \in Busy
        /\ req'[r].pc \in {"backup", "refused"}
    BY <1>1, <1>8 DEF TakeSnapshot, Req, Busy, Locked
  <2>5. q.ask.op # "remove"
    BY <1>1, <2>4 DEF Course
  <2>6. Careful(req'[r], disk, snapshot', records, keys)
    BY <1>1, <2>2, <2>4, <2>5 DEF Careful
  <2>7. QED
    BY <2>1, <2>3, <2>6
<1>9. CASE ReadBefore(r)
  <2>1. UNCHANGED <<disk, snapshot, records, keys>>
    BY <1>9 DEF ReadBefore, store
  <2>2. /\ req'[r].ask = q.ask /\ req'[r].doc = q.doc /\ req'[r].plan = q.plan
        /\ req'[r].before = Only(q.plan, disk)
        /\ q.pc = "before" /\ q.pc \in Busy /\ req'[r].pc = "apply"
    BY <1>1, <1>9 DEF ReadBefore, Req, Busy, Locked
  <2>3. \A t \in Named(q.plan) : /\ Sound(t, req'[r].before[t], known)
                                 /\ snapshot = None => Clean(req'[r].before[t])
    BY <1>1, <2>2 DEF Named, Only, SoundFiles
  <2>4. \A t \in Tools : RidOf(q, t, disk, known) => RidOf(req'[r], t, disk, known)
    BY <2>2 DEF RidOf
  <2>5. Careful(req'[r], disk, snapshot, records, keys)
    BY <1>1, <2>2, <2>3, <2>4 DEF Careful
  <2>6. QED
    BY <1>2, <2>1, <2>5
<1>10. CASE ApplyOne(r) \/ (ApplyRefused(r) /\ disk' # disk)
  <2> DEFINE t == First(q.todo)
  <2>1. UNCHANGED <<snapshot, records, keys>> /\ q.pc = "apply" /\ q.pc \in Busy
    BY <1>10 DEF ApplyOne, ApplyRefused, store, Busy, Locked
  <2>2. t \in q.todo /\ t \in Tools /\ t \in Named(q.plan) /\ q.plan[t] \in File
    <3>1. t \in q.todo /\ t \in Tools
      BY <1>1, <1>10, FirstAndLast DEF ApplyOne, ApplyRefused, Req
    <3>2. t \in Named(q.plan)
      BY <1>1, <2>1, <3>1 DEF Course
    <3>3. q.plan[t] \in File
      BY <1>1, <3>1, <3>2 DEF Named, Req, Partial
    <3>4. QED
      BY <3>1, <3>2, <3>3
  <2>3. /\ req'[r].ask = q.ask /\ req'[r].doc = q.doc /\ req'[r].plan = q.plan
        /\ req'[r].before = q.before /\ req'[r].pc \in {"apply", "undo"}
        /\ disk' = [disk EXCEPT ![t] = q.plan[t]]
    BY <1>1, <1>10 DEF ApplyOne, ApplyRefused, Req
  <2> HIDE DEF t
  <2>4. Sound(t, q.plan[t], known) /\ (snapshot = None => Clean(q.plan[t]))
    <3>1. CASE q.ask.op = "switch"
      BY <1>1, <2>1, <2>2, <3>1 DEF Careful
    <3>2. CASE q.ask.op = "remove"
      <4>1. RidOf(q, t, disk, known) /\ (snapshot = None => Clean(q.plan[t]))
        BY <1>1, <2>1, <2>2, <3>2 DEF Careful
      <4>2. Sound(t, q.plan[t], known \ {q.ask.provider})
        BY <2>2, <4>1 DEF RidOf, Named
      <4>3. QED
        BY <4>1, <4>2 DEF Sound
    <3>3. CASE q.ask.op = "snapshot"
      <4>1. snapshot # None /\ q.plan = snapshot
        BY <1>1, <2>1, <3>3 DEF Returning
      <4>2. Clean(q.plan[t])
        BY <1>1, <2>2, <4>1 DEF SoundFiles
      <4>3. QED
        BY <2>2, <4>1, <4>2, SoundFacts
    <3>4. QED
      BY <1>1, <2>1, <3>1, <3>2, <3>3 DEF Course, Careful
  <2>5. SoundFiles'
    BY <1>1, <2>1, <2>2, <2>3, <2>4, PutSound
  <2>6. \A u \in Tools : u # t => disk'[u] = disk[u]
    BY <2>2, <2>3 DEF TypeOK
  <2>7. Careful(req'[r], disk', snapshot, records, keys)
    <3>1. q.ask.op = "remove" => \A u \in Tools : RidOf(req'[r], u, disk', known)
      <4>1. q.ask.op = "remove" => \A u \in Tools : RidOf(q, u, disk, known)
        BY <1>1, <2>1 DEF Careful
      <4>2. QED
        BY <2>2, <2>3, <2>6, <4>1 DEF RidOf, Named
    <3>2. QED
      BY <1>1, <2>1, <2>3, <3>1 DEF Careful
  <2>8. QED
    BY <2>1, <2>5, <2>7
<1>11. CASE UndoOne(r) \/ (UndoRefused(r) /\ disk' # disk)
  <2> DEFINE t == Last(q.done)
  <2>1. UNCHANGED <<snapshot, records, keys>> /\ q.pc = "undo" /\ q.pc \in Busy
    BY <1>11 DEF UndoOne, UndoRefused, store, Busy, Locked
  <2>2. t \in Tools /\ t \in Named(q.plan) /\ q.before[t] \in File
    <3>1. t \in q.done /\ t \in Tools
      BY <1>1, <1>11, FirstAndLast DEF UndoOne, UndoRefused, Req
    <3>2. QED
      BY <1>1, <2>1, <3>1 DEF Course
  <2>3. /\ req'[r].ask = q.ask /\ req'[r].doc = q.doc /\ req'[r].plan = q.plan
        /\ req'[r].before = q.before /\ req'[r].pc = "undo"
        /\ disk' = [disk EXCEPT ![t] = q.before[t]]
    BY <1>1, <1>11 DEF UndoOne, UndoRefused, Req
  <2> HIDE DEF t
  <2>4. Sound(t, q.before[t], known) /\ (snapshot = None => Clean(q.before[t]))
    BY <1>1, <2>1, <2>2 DEF Careful
  <2>5. SoundFiles'
    BY <1>1, <2>1, <2>2, <2>3, <2>4, PutSound
  <2>6. \A u \in Tools : u # t => disk'[u] = disk[u]
    BY <2>2, <2>3 DEF TypeOK
  <2>7. Careful(req'[r], disk', snapshot, records, keys)
    <3>1. q.ask.op = "remove" => \A u \in Tools : RidOf(req'[r], u, disk', known)
      <4>1. q.ask.op = "remove" => \A u \in Tools : RidOf(q, u, disk, known)
        BY <1>1, <2>1 DEF Careful
      <4>2. QED
        BY <2>2, <2>3, <2>6, <4>1 DEF RidOf, Named
    <3>2. QED
      BY <1>1, <2>1, <2>3, <3>1 DEF Careful
  <2>8. QED
    BY <2>1, <2>5, <2>7
<1>12. CASE ((ApplyRefused(r) \/ UndoRefused(r)) /\ disk' = disk) \/ Applied(r)
  <2>1. UNCHANGED <<disk, snapshot, records, keys>>
    BY <1>12 DEF ApplyRefused, UndoRefused, Applied, store
  <2>2. /\ req'[r].ask = q.ask /\ req'[r].doc = q.doc /\ req'[r].plan = q.plan
        /\ req'[r].before = q.before /\ q.pc \in {"apply", "undo"} /\ q.pc \in Busy
        /\ \/ req'[r].pc = "undo"
           \/ req'[r].pc = IF q.ask.op = "remove" THEN "forget" ELSE "record"
    BY <1>1, <1>12 DEF ApplyRefused, UndoRefused, Applied, Req, Busy, Locked
  <2>3. \A t \in Tools : RidOf(q, t, disk, known) => RidOf(req'[r], t, disk, known)
    BY <2>2 DEF RidOf
  <2>4. Careful(req'[r], disk, snapshot, records, keys)
    BY <1>1, <2>2, <2>3 DEF Careful
  <2>5. QED
    BY <1>2, <2>1, <2>4
<1>13. CASE Record(r) \/ AcceptDrift(r)
  <2>1. UNCHANGED <<disk, snapshot, records, keys>>
    BY <1>13 DEF Record, AcceptDrift
  <2>2. /\ req'[r].ask = q.ask /\ req'[r].doc = q.doc /\ q.pc \in Busy /\ req'[r].pc = "readback"
    BY <1>1, <1>13 DEF Record, AcceptDrift, Req, Busy, Locked
  <2>3. Careful(req'[r], disk, snapshot, records, keys)
    BY <1>1, <2>2 DEF Careful
  <2>4. QED
    BY <1>2, <2>1, <2>3
<1>14. CASE RollBack(r) \/ ReadBack(r) \/ Refuse(r) \/ Crash(r)
  <2>1. UNCHANGED <<disk, snapshot, records, keys>>
    BY <1>14 DEF RollBack, ReadBack, Refuse, Crash, store
  <2>2. req'[r].pc \in Ended
    BY <1>1, <1>14 DEF RollBack, ReadBack, Refuse, Crash, Req, Ended
  <2>3. QED
    BY <1>2, <1>3, <2>1, <2>2 DEF Ended, Busy, Planning, Locked
<1>15. CASE Forget(r)
  <2>1. UNCHANGED <<disk, snapshot, records>>
    BY <1>15 DEF Forget, store
  <2>2. CASE req'[r].pc = "refused" /\ keys' = keys
    BY <1>2, <1>3, <2>1, <2>2 DEF Busy, Planning, Locked
  <2>3. CASE keys' = keys \ {q.ask.provider} /\ req'[r].pc = "records"
    <3>1. q.pc = "forget" /\ q.pc \in Busy /\ q.ask.op = "remove"
      BY <1>1, <1>15 DEF Forget, Course, Busy, Locked
    <3>2. \A t \in Tools : Sound(t, disk[t], known \ {q.ask.provider})
      <4>1. \A t \in Tools : RidOf(q, t, disk, known)
        BY <1>1, <3>1 DEF Careful
      <4>2. \A t \in Registry : disk[t] = q.plan[t]
        BY <1>1, <3>1, <4>1, TapkeyAssumption DEF Exact, Named, RidOf
      <4>3. QED
        BY <4>1, <4>2 DEF RidOf
    <3>3. records' \cap keys' = known \ {q.ask.provider}
      BY <2>1, <2>3
    <3> HIDE DEF known
    <3>4. SoundFiles'
      BY <1>1, <2>1, <3>2, <3>3 DEF SoundFiles
    <3>5. req'[r].ask = q.ask /\ req'[r].doc = q.doc
      BY <1>1, <1>15 DEF Forget, Req
    <3>6. QED
      BY <1>1, <2>1, <2>3, <3>1, <3>4, <3>5 DEF Careful
  <2>4. QED
    BY <1>1, <1>15, <2>2, <2>3 DEF Forget, Req
<1>16. CASE WriteRecords(r)
  <2>1. UNCHANGED <<disk, snapshot, keys>>
    BY <1>16 DEF WriteRecords, store
  <2>2. req'[r].pc \notin Busy
    BY <1>1, <1>16 DEF WriteRecords, Req, Busy, Planning, Locked
  <2>3. q.pc = "records" /\ q.ask.op = "remove" /\ q.doc = records
    BY <1>1, <1>16 DEF WriteRecords, Course, Careful, Busy, Locked
  <2>4. records' = records \/ records' = records \ {q.ask.provider}
    BY <1>16, <2>3 DEF WriteRecords
  <2>5. records' \cap keys' = known
    BY <1>1, <2>1, <2>3, <2>4 DEF Careful
  <2> HIDE DEF known
  <2>6. SoundFiles'
    BY <1>1, <2>1, <2>5 DEF SoundFiles, known
  <2>7. QED
    BY <1>3, <2>2, <2>6
<1>17. QED
  BY <1>4, <1>5, <1>6, <1>7, <1>8, <1>9, <1>10, <1>11, <1>12, <1>13, <1>14, <1>15, <1>16, <1>18
     DEF Step, Progress, Fault

\* What a person or a tool selects is registered in the file, so it is known.
LEMMA EditSound ==
    ASSUME TypeOK, SoundFiles, Edit
    PROVE  SoundFiles'
<1>1. PICK t \in Tools :
        /\ disk[t] # Absent
        /\ \/ \E x \in Rest : disk' = [disk EXCEPT ![t].rest = x]
           \/ \E s \in disk[t].reg \cup {Nobody} : disk' = [disk EXCEPT ![t].sel = s]
  BY DEF Edit
<1>2. disk[t] \in Config
  BY <1>1 DEF TypeOK, File
<1>3. PICK f \in Config : /\ disk' = [disk EXCEPT ![t] = f]
                          /\ f.reg = disk[t].reg /\ f.sel \in disk[t].reg \cup {Nobody, disk[t].sel}
  <2>1. CASE \E x \in Rest : disk' = [disk EXCEPT ![t].rest = x]
    <3>1. PICK x \in Rest : disk' = [disk EXCEPT ![t].rest = x]
      BY <2>1
    <3>2. disk' = [disk EXCEPT ![t] = [disk[t] EXCEPT !.rest = x]]
      BY <3>1 DEF TypeOK
    <3>3. [disk[t] EXCEPT !.rest = x] \in Config
      BY <1>2, <3>1 DEF Config
    <3>4. QED
      BY <1>2, <3>2, <3>3 DEF Config
  <2>2. CASE \E s \in disk[t].reg \cup {Nobody} : disk' = [disk EXCEPT ![t].sel = s]
    <3>1. PICK s \in disk[t].reg \cup {Nobody} : disk' = [disk EXCEPT ![t].sel = s]
      BY <2>2
    <3>2. disk' = [disk EXCEPT ![t] = [disk[t] EXCEPT !.sel = s]]
      BY <3>1 DEF TypeOK
    <3>3. [disk[t] EXCEPT !.sel = s] \in Config
      BY <1>2, <3>1 DEF Config
    <3>4. QED
      BY <1>2, <3>1, <3>2, <3>3 DEF Config
  <2>3. QED
    BY <1>1, <2>1, <2>2
<1>4. /\ Sound(t, disk[t], records \cap keys)
      /\ snapshot = None => Clean(disk[t])
  BY DEF SoundFiles
<1>5. Sound(t, f, records \cap keys) /\ (snapshot = None => Clean(f))
  BY <1>1, <1>3, <1>4 DEF Sound, Clean
<1>6. f \in File /\ snapshot' = snapshot /\ records' = records /\ keys' = keys
  BY DEF Edit, store, File
<1>7. QED
  BY <1>3, <1>5, <1>6, PutSound

\* Every step keeps Care, in calls one after another that restore no backup.
LEMMA StepCare ==
    Calm /\ ~Overlapping /\ NoBackupAsked /\ TypeOK /\ Alone /\ Solo /\ Work /\ Return /\ Care /\ Next
        => Care'
<1> SUFFICES ASSUME Calm, ~Overlapping, NoBackupAsked, TypeOK, Alone, Solo, Work, Return, Care, Next
             PROVE  Care'
  OBVIOUS
<1>1. ASSUME NEW q, NEW files, NEW snap, NEW recs, NEW ks, q.pc \notin Busy
      PROVE  Careful(q, files, snap, recs, ks)
  BY <1>1 DEF Careful, Busy, Planning, Locked
<1>2. ASSUME NEW r \in Requests, Step(r)
      PROVE  Care'
  <2>1. ASSUME NEW x \in Requests, x # r
        PROVE  Careful(req'[x], disk', snapshot', records', keys')
    BY <1>1, <1>2, <2>1, OthersRest
  <2>2. SoundFiles' /\ Careful(req'[r], disk', snapshot', records', keys')
    BY <1>2, OwnCare
  <2>3. QED
    BY <2>1, <2>2 DEF Care
<1>3. CASE Edit
  <2>1. \A x \in Requests : req'[x] = req[x] /\ req[x].pc \notin Busy
    BY <1>3, NoEditMeanwhile DEF Edit
  <2>2. SoundFiles'
    BY <1>3, EditSound DEF Care
  <2>3. QED
    BY <1>1, <2>1, <2>2 DEF Care
<1>4. QED
  BY <1>2, <1>3 DEF Next, Step

\* Files found clean are sound before anything was called.
LEMMA InitCare == FoundClean /\ Init => Care
<1> SUFFICES ASSUME FoundClean, Init
             PROVE  Care
  OBVIOUS
<1>1. \A t \in Tools : Clean(disk[t]) /\ disk[t] \in File
  BY TapkeyAssumption DEF Init, FoundClean
<1>2. SoundFiles
  BY <1>1, SoundFacts DEF SoundFiles, Init
<1>3. \A r \in Requests : req[r].pc = "idle"
  BY DEF Init, Idle
<1>4. QED
  BY <1>2, <1>3 DEF Care, Careful, Busy, Planning, Locked

\* One call after another, the files edited in between at most, and no older backup put back: no tool is
\* ever left selecting a provider whose record or key tapkey has removed, wherever a call is refused or
\* dies.
THEOREM NoToolIsBroken ==
    ASSUME Calm, ~Overlapping, NoBackupAsked, FoundClean
    PROVE  Spec => []NoBrokenTool
<1>1. Init => Care /\ Return
  BY InitCare DEF Init, Idle, Return, Returning
<1>2. TypeOK /\ Alone /\ Solo /\ Work /\ Return /\ Care /\ [Next]_vars => Return' /\ Care'
  <2>1. Return /\ Care /\ UNCHANGED vars => Return' /\ Care'
    BY DEF vars, store, Return, Care, SoundFiles
  <2>2. QED
    BY <2>1, StepReturn, StepCare
<1>3. Care => NoBrokenTool
  <2>1. SUFFICES ASSUME SoundFiles, NEW t \in Tools, disk[t] # Absent, disk[t].sel # Nobody
                 PROVE  /\ disk[t].sel \in records \cap keys
                        /\ t \in Registry => disk[t].sel \in disk[t].reg
    BY DEF Care, NoBrokenTool
  <2>2. QED
    BY <2>1 DEF SoundFiles, Sound
<1>4. QED
  BY <1>1, <1>2, <1>3, SoloHolds, PTL DEF Spec
-----------------------------------------------------------------------------
(* The drift nobody caused. *)

\* A tool's file selects what was recorded.
Steady(t, files, owned) == owned[t] # None => files[t] # Absent /\ files[t].sel = owned[t]

\* Somebody's edit, or a call that is through with the files, accounts for what a tool's file is.
Excused(t) == t \in edited \/ \E r \in Requests : req[r].pc \in Ended \cup {"readback"} /\ Mislaid(r, t)

Midway == {"apply", "undo", "record"}

\* The files as they are put back if the change is refused.
Behind(q, files) == [t \in Tools |-> IF t \in Named(q.plan) THEN q.before[t] ELSE files[t]]

\* What is planned will be what is recorded, and what a removal writes selects what was selected.
Agreed(q, files) ==
    /\ q.ask.op = "switch"
       /\ q.pc \in {"check", "plan", "lock", "capture", "snapshot", "backup", "before"} \cup Midway =>
          \A t \in Named(q.plan) : q.plan[t] # Absent /\ q.plan[t].sel = q.ask.profile[t]
    /\ q.ask.op = "remove" /\ q.pc \in {"plan", "lock", "capture", "backup", "before"} =>
          \A t \in Named(q.plan) : q.plan[t] # Absent /\ q.plan[t].sel = AsRead(files[t]).sel
    /\ q.ask.op = "remove" /\ q.pc \in {"apply", "undo"} =>
          \A t \in Named(q.plan) : q.plan[t] # Absent /\ q.plan[t].sel = AsRead(q.before[t]).sel
    /\ q.pc = "record" => Named(q.plan) \subseteq q.done

\* The record is of what the files are, or, while a call changes them, of what they are if it is undone.
Explained ==
    /\ \A r \in Requests : Agreed(req[r], disk)
    /\ (\A r \in Requests : req[r].pc \notin Midway) =>
          \A t \in Tools : Excused(t) \/ Steady(t, disk, state)
    /\ \A r \in Requests : req[r].pc \in Midway =>
          \A t \in Tools : Excused(t) \/ Steady(t, Behind(req[r], disk), state)

\* What accounts for a file goes on doing so.
LEMMA ExcuseStays ==
    ASSUME TypeOK, Alone, Next, NEW t \in Tools, Excused(t)
    PROVE  Excused(t)'
<1> USE DEF At, Goto, Answer
<1>1. req \in [Requests -> Req]
  BY DEF TypeOK
<1>2. CASE Edit
  BY <1>2 DEF Edit, Excused, Mislaid
<1>3. ASSUME NEW r \in Requests, Step(r)
      PROVE  Excused(t)'
  <2>1. edited' = edited
    BY <1>3 DEF Step, Progress, Fault, Start, Cycle, CheckKeys, PlanSwitch, PlanRemoval, TakeLock,
         Contended, ReadStored, Capture, TakeSnapshot, TakeBackup, ReadBefore, ApplyOne, ApplyRefused,
         UndoOne, UndoRefused, RollBack, Applied, Record, AcceptDrift, ReadBack, Forget, WriteRecords,
         Refuse, Crash
  <2>2. ASSUME NEW x \in Requests, req[x].pc \in Ended \cup {"readback"}, Mislaid(x, t)
        PROVE  req'[x].pc \in Ended \cup {"readback"} /\ Mislaid(x, t)'
    <3>1. CASE x # r
      <4>1. req'[x] = req[x]
        BY <1>3, <3>1, Others
      <4>2. QED
        BY <2>2, <4>1 DEF Mislaid
    <3>2. CASE x = r
      <4>1. req[r] \in Req /\ ~Start(r)
        BY <1>1, <2>2, <3>2 DEF Start, Ended
      <4>2. req[r].pc = "readback"
        BY <1>3, <2>2, <3>2, <4>1, UnderWay DEF Ended, Busy, Planning, Locked
      <4>3. ReadBack(r) \/ Crash(r)
        BY <1>3, <4>2 DEF Step, Progress, Fault, Start, Cycle, CheckKeys, PlanSwitch, PlanRemoval,
             TakeLock, Contended, ReadStored, Capture, TakeSnapshot, TakeBackup, ReadBefore, ApplyOne,
             ApplyRefused, UndoOne, UndoRefused, RollBack, Applied, Record, AcceptDrift, Forget,
             WriteRecords, Refuse
      <4>4. /\ req'[r].pc \in {"applied", "refused", "dead"}
            /\ req'[r].lost = req[r].lost /\ req'[r].done = req[r].done /\ req'[r].ask = req[r].ask
            /\ req'[r].backup = req[r].backup /\ req'[r].plan = req[r].plan
        BY <1>1, <4>1, <4>3 DEF ReadBack, Crash, Req
      <4>5. QED
        BY <2>2, <3>2, <4>2, <4>4 DEF Mislaid, Ended
    <3>3. QED
      BY <3>1, <3>2
  <2>3. QED
    BY <2>1, <2>2 DEF Excused
<1>4. QED
  BY <1>2, <1>3 DEF Next, Step

\* One more tool planned, as it is recorded if it is a switch, as it was if it is a removal.
LEMMA PlanAgreed ==
    ASSUME TypeOK, NEW r \in Requests, PlanSwitch(r) \/ PlanRemoval(r), Agreed(req[r], disk)
    PROVE  Agreed(req'[r], disk)
<1> USE DEF At, Goto
<1> DEFINE t == First(req[r].todo)
           q == req[r]
<1>1. req \in [Requests -> Req] /\ q \in Req /\ Course(q) /\ q.pc = "plan"
  BY DEF TypeOK, Placed, PlanSwitch, PlanRemoval
<1>2. t \in q.todo /\ t \in Tools /\ q.todo \subseteq Tools /\ q.plan \in Partial
  BY <1>1, FirstAndLast DEF Course, Req
<1>3. Live(t) = AsRead(disk[t]) /\ Live(t) \in Config
  BY <1>2, FileTypes DEF Live, AsRead, TypeOK
<1>4. CASE PlanSwitch(r)
  <2> DEFINE f == IF WillNotStart(t) THEN Keep ELSE SelectedIn(t, q.ask.profile[t])
  <2>1. /\ req'[r].ask = q.ask /\ req'[r].plan = [q.plan EXCEPT ![t] = f]
        /\ req'[r].pc \in {"lock", "plan"} /\ q.ask.op = "switch"
    <3>1. /\ req' = [req EXCEPT ![r].plan[t] = f, ![r].todo = @ \ {t},
                                ![r].pc = IF q.todo = {t} THEN "lock" ELSE "plan"]
          /\ q.ask.op = "switch"
      BY <1>4 DEF PlanSwitch
    <3> HIDE DEF f
    <3>2. QED
      BY <1>1, <3>1 DEF Req
  <2>2. q.ask.profile[t] \in Providers
    BY <1>1, <1>2, <2>1, AskType DEF Course, Busy, Planning, Assignment
  <2>3. f = Keep \/ (f # Absent /\ f.sel = q.ask.profile[t])
    <3>1. SelectedIn(t, q.ask.profile[t]) \in Config
      BY <1>2, <2>2, FileTypes DEF TypeOK
    <3>2. SelectedIn(t, q.ask.profile[t]).sel = q.ask.profile[t]
      BY <1>3 DEF SelectedIn, Config
    <3>3. QED
      BY <3>1, <3>2, TapkeyAssumption
  <2> HIDE DEF f, t
  <2>4. \A u \in Tools : req'[r].plan[u] = IF u = t THEN f ELSE q.plan[u]
    BY <1>2, <2>1 DEF Partial
  <2>5. \A u \in Named(q.plan) : q.plan[u] # Absent /\ q.plan[u].sel = q.ask.profile[u]
    BY <1>1, <2>1 DEF Agreed
  <2>6. \A u \in Named(req'[r].plan) : req'[r].plan[u] # Absent /\ req'[r].plan[u].sel = q.ask.profile[u]
    BY <1>2, <2>3, <2>4, <2>5 DEF Named
  <2>7. QED
    BY <2>1, <2>6 DEF Agreed
<1>5. CASE PlanRemoval(r)
  <2> DEFINE gone == q.ask.provider
             f == IF t \in Registry THEN [Live(t) EXCEPT !.reg = @ \ {gone}] ELSE Keep
  <2>1. CASE Live(t).sel = gone
    <3>1. req'[r].pc = "refused"
      BY <1>1, <1>5, <2>1 DEF PlanRemoval, Req
    <3>2. QED
      BY <3>1 DEF Agreed, Midway
  <2>2. CASE Live(t).sel # gone
    <3>1. /\ req'[r].ask = q.ask
          /\ req'[r].plan = [q.plan EXCEPT ![t] = f]
          /\ req'[r].pc \in {"lock", "plan"}
          /\ q.ask.op = "remove"
      BY <1>1, <1>5, <2>2 DEF PlanRemoval, Req
    <3>2. f = Keep \/ (f # Absent /\ f.sel = AsRead(disk[t]).sel)
      <4>1. [Live(t) EXCEPT !.reg = @ \ {gone}] \in Config
        BY <1>3 DEF Config
      <4>2. [Live(t) EXCEPT !.reg = @ \ {gone}].sel = Live(t).sel
        BY <1>3 DEF Config
      <4>3. QED
        BY <1>3, <4>1, <4>2, TapkeyAssumption
    <3> HIDE DEF f, t
    <3>3. \A u \in Tools : req'[r].plan[u] = IF u = t THEN f ELSE q.plan[u]
      BY <1>2, <3>1 DEF Partial
    <3>4. \A u \in Named(q.plan) : q.plan[u] # Absent /\ q.plan[u].sel = AsRead(disk[u]).sel
      BY <1>1, <3>1 DEF Agreed
    <3>5. \A u \in Named(req'[r].plan) :
              req'[r].plan[u] # Absent /\ req'[r].plan[u].sel = AsRead(disk[u]).sel
      BY <1>2, <3>2, <3>3, <3>4 DEF Named
    <3>6. QED
      BY <3>1, <3>5 DEF Agreed
  <2>3. QED
    BY <2>1, <2>2
<1>6. QED
  BY <1>4, <1>5

\* The call that takes the step, while the others rest.
LEMMA OwnKept ==
    ASSUME "store" \notin Faults, TypeOK, Alone, Work, Return, Next, NEW r \in Requests, Step(r),
           Agreed(req[r], disk),
           req[r].pc \notin Midway => \A t \in Tools : Excused(t) \/ Steady(t, disk, state),
           req[r].pc \in Midway =>
               \A t \in Tools : Excused(t) \/ Steady(t, Behind(req[r], disk), state)
    PROVE  /\ Agreed(req'[r], disk')
           /\ req'[r].pc \notin Midway => \A t \in Tools : Excused(t)' \/ Steady(t, disk', state')
           /\ req'[r].pc \in Midway =>
                  \A t \in Tools : Excused(t)' \/ Steady(t, Behind(req'[r], disk'), state')
<1> USE DEF At, Goto, Answer
<1> DEFINE q == req[r]
<1>1. /\ req \in [Requests -> Req] /\ q \in Req /\ Course(q)
      /\ Exact(q, disk) /\ Saved(q, backups) /\ Returning(q, snapshot, state)
  BY DEF TypeOK, Placed, Work, Return
<1>2. \A t \in Tools : Excused(t) => Excused(t)'
  BY ExcuseStays
<1>3. ASSUME UNCHANGED <<disk, state>>, q.pc \notin Midway, req'[r].pc \notin Midway
      PROVE  \A t \in Tools : Excused(t)' \/ Steady(t, disk', state')
  BY <1>2, <1>3
<1>4. req'[r].pc \in Ended \cup {"readback"} => \A t \in Tools : Mislaid(r, t)' => Excused(t)'
  BY DEF Excused
<1>5. CASE Start(r) \/ Cycle(r)
  <2>1. ASSUME NEW a
        PROVE  Agreed(Called(a), disk) /\ Called(a).pc \notin Midway
    <3>1. Called(a).plan = NoFiles /\ Called(a).pc \in {"cycle", "check", "plan", "lock", "refused"}
      BY DEF Called, Idle
    <3>2. Named(NoFiles) = {}
      BY DEF Named, NoFiles
    <3>3. QED
      BY <3>1, <3>2 DEF Agreed, Midway
  <2>2. UNCHANGED <<disk, state>> /\ q.pc \in {"idle", "cycle"}
    BY <1>5 DEF Start, Cycle, store
  <2>3. req'[r].pc = "refused" \/ \E a : req'[r] = Called(a)
    BY <1>1, <1>5 DEF Start, Cycle, Req
  <2>4. Agreed(req'[r], disk) /\ req'[r].pc \notin Midway
    <3>1. CASE req'[r].pc = "refused"
      BY <3>1 DEF Agreed, Midway
    <3>2. QED
      BY <2>1, <2>3, <3>1
  <2>5. QED
    BY <1>3, <2>2, <2>4 DEF Midway
<1>6. CASE PlanSwitch(r) \/ PlanRemoval(r)
  <2>1. UNCHANGED <<disk, state>> /\ q.pc = "plan" /\ req'[r].pc \in {"plan", "lock", "refused"}
    BY <1>1, <1>6 DEF PlanSwitch, PlanRemoval, store, Req
  <2>2. Agreed(req'[r], disk)
    BY <1>6, PlanAgreed
  <2>3. QED
    BY <1>3, <2>1, <2>2 DEF Midway
<1>7. CASE CheckKeys(r) \/ TakeLock(r) \/ Contended(r) \/ Capture(r) \/ TakeSnapshot(r) \/ TakeBackup(r)
  <2>1. UNCHANGED <<disk, state>>
    BY <1>7 DEF CheckKeys, TakeLock, Contended, Capture, TakeSnapshot, TakeBackup, store
  <2>2. /\ req'[r].ask = q.ask /\ req'[r].plan = q.plan
        /\ q.pc \in {"check", "lock", "capture", "snapshot", "backup"}
        /\ req'[r].pc \in {"plan", "refused", "lock", "busy", "capture", "accept", "read", "snapshot",
                           "backup", "before"}
        /\ q.pc = "check" => req'[r].pc \in {"plan", "refused"}
        /\ req'[r].pc = "snapshot" => q.pc = "capture"
    BY <1>1, <1>7 DEF CheckKeys, TakeLock, FirstLocked, Contended, Capture, TakeSnapshot, TakeBackup, Req
  <2>3. (q.pc = "snapshot" => q.ask.op # "remove") /\ (q.pc = "check" => q.ask.op = "switch")
    BY <1>1 DEF Course
  <2>4. Agreed(req'[r], disk)
    BY <2>2, <2>3 DEF Agreed, Midway
  <2>5. QED
    BY <1>3, <2>1, <2>2, <2>4 DEF Midway
<1>8. CASE ReadStored(r)
  <2>1. UNCHANGED <<disk, state>> /\ q.pc = "read" /\ q.ask.op \in {"snapshot", "backup"}
    BY <1>1, <1>8 DEF ReadStored, store, Course
  <2>2. req'[r].pc = "refused" \/ (req'[r].pc = "capture" /\ req'[r].ask = q.ask)
    BY <1>1, <1>8 DEF ReadStored, Req
  <2>3. Agreed(req'[r], disk)
    BY <2>1, <2>2 DEF Agreed, Midway
  <2>4. QED
    BY <1>3, <2>1, <2>2, <2>3 DEF Midway
<1>9. CASE ReadBefore(r)
  <2>1. UNCHANGED <<disk, state>> /\ q.pc = "before"
    BY <1>9 DEF ReadBefore, store
  <2>2. /\ req'[r].ask = q.ask /\ req'[r].plan = q.plan /\ req'[r].before = Only(q.plan, disk)
        /\ req'[r].pc = "apply"
    BY <1>1, <1>9 DEF ReadBefore, Req
  <2>3. \A t \in Named(q.plan) : t \in Tools /\ Only(q.plan, disk)[t] = disk[t]
    BY DEF Named, Only
  <2>4. \A t \in Tools : Behind(req'[r], disk)[t] = disk[t]
    BY <2>2, <2>3 DEF Behind
  <2>5. \A t \in Tools : Steady(t, disk, state) => Steady(t, Behind(req'[r], disk), state)
    BY <2>4 DEF Steady
  <2>6. Agreed(req'[r], disk)
    BY <2>1, <2>2, <2>3 DEF Agreed, Midway
  <2>7. QED
    BY <1>2, <2>1, <2>2, <2>5, <2>6 DEF Midway
<1>10. CASE ApplyOne(r) \/ ApplyRefused(r) \/ UndoOne(r) \/ UndoRefused(r)
  <2>1. PICK t \in Named(q.plan) : \/ disk' = disk
                                   \/ \E f : disk' = [disk EXCEPT ![t] = f]
    <3>1. CASE ApplyOne(r) \/ ApplyRefused(r)
      <4>1. First(q.todo) \in Named(q.plan)
        BY <1>1, <3>1, FirstAndLast DEF ApplyOne, ApplyRefused, Req, Course
      <4>2. QED
        BY <3>1, <4>1 DEF ApplyOne, ApplyRefused
    <3>2. CASE UndoOne(r) \/ UndoRefused(r)
      <4>1. Last(q.done) \in Named(q.plan)
        BY <1>1, <3>2, FirstAndLast DEF UndoOne, UndoRefused, Req, Course
      <4>2. QED
        BY <3>2, <4>1 DEF UndoOne, UndoRefused
    <3>3. QED
      BY <1>10, <3>1, <3>2
  <2>2. /\ req'[r].ask = q.ask /\ req'[r].plan = q.plan /\ req'[r].before = q.before
        /\ req'[r].pc \in {"apply", "undo"} /\ q.pc \in {"apply", "undo"} /\ state' = state
    BY <1>1, <1>10 DEF ApplyOne, ApplyRefused, UndoOne, UndoRefused, Req, store
  <2>3. \A u \in Tools : u \notin Named(q.plan) => disk'[u] = disk[u]
    BY <2>1 DEF TypeOK
  <2>4. Behind(req'[r], disk') = Behind(q, disk)
    BY <2>2, <2>3 DEF Behind
  <2>5. Agreed(req'[r], disk')
    BY <2>2 DEF Agreed, Midway
  <2>6. QED
    BY <1>2, <2>2, <2>4, <2>5 DEF Midway
<1>11. CASE RollBack(r)
  <2>1. UNCHANGED <<disk, state>> /\ q.pc = "undo" /\ q.done = {}
    BY <1>11 DEF RollBack, store
  <2>2. req'[r].pc = "rolled_back" /\ req'[r].lost = q.lost
    BY <1>1, <1>11 DEF RollBack, Req
  <2>3. \A t \in Tools : Behind(q, disk)[t] = disk[t] \/ t \in q.lost
    BY <1>1, <2>1 DEF Exact, Behind
  <2>4. \A t \in q.lost : Mislaid(r, t)'
    BY <2>2 DEF Mislaid
  <2>5. \A t \in Tools : Excused(t)' \/ Steady(t, disk, state)
    BY <1>2, <1>4, <2>1, <2>2, <2>3, <2>4 DEF Steady, Midway, Ended
  <2>6. Agreed(req'[r], disk)
    BY <2>2 DEF Agreed, Midway
  <2>7. QED
    BY <2>1, <2>2, <2>5, <2>6 DEF Midway
<1>12. CASE Applied(r)
  <2>1. UNCHANGED <<disk, state>> /\ q.pc = "apply" /\ q.todo = {}
    BY <1>12 DEF Applied, store
  <2>2. /\ req'[r].ask = q.ask /\ req'[r].plan = q.plan /\ req'[r].done = q.done
        /\ req'[r].before = q.before
        /\ req'[r].pc = IF q.ask.op = "remove" THEN "forget" ELSE "record"
    BY <1>1, <1>12 DEF Applied, Req
  <2>3. (\A t \in Named(q.plan) : disk[t] = q.plan[t]) /\ Named(q.plan) \subseteq q.done
    BY <1>1, <2>1 DEF Exact
  <2>4. ASSUME q.ask.op = "remove", NEW t \in Tools, Steady(t, Behind(q, disk), state)
        PROVE  Steady(t, disk, state)
    <3> SUFFICES ASSUME state[t] # None
                 PROVE  disk[t] # Absent /\ disk[t].sel = state[t]
      BY DEF Steady
    <3>1. Behind(q, disk)[t] # Absent /\ Behind(q, disk)[t].sel = state[t]
      BY <2>4 DEF Steady
    <3>2. CASE t \notin Named(q.plan)
      BY <3>1, <3>2 DEF Behind
    <3>3. CASE t \in Named(q.plan)
      <4>1. q.before[t] # Absent /\ q.before[t].sel = state[t]
        BY <3>1, <3>3 DEF Behind
      <4>2. q.plan[t] # Absent /\ q.plan[t].sel = AsRead(q.before[t]).sel
        BY <2>1, <2>4, <3>3 DEF Agreed
      <4>3. QED
        BY <2>3, <3>3, <4>1, <4>2 DEF AsRead
    <3>4. QED
      BY <3>2, <3>3
  <2>5. Behind(req'[r], disk) = Behind(q, disk)
    BY <2>2 DEF Behind
  <2>6. Agreed(req'[r], disk)
    BY <2>1, <2>2, <2>3 DEF Agreed, Midway
  <2>7. QED
    BY <1>2, <2>1, <2>2, <2>4, <2>5, <2>6 DEF Midway
<1>13. CASE Record(r)
  <2>1. disk' = disk /\ q.pc = "record" /\ state' = Fingerprints(q.ask)
    BY <1>13 DEF Record
  <2>2. /\ req'[r].pc = "readback" /\ req'[r].ask = q.ask /\ req'[r].plan = q.plan
        /\ req'[r].done = q.done /\ req'[r].backup = q.backup
    BY <1>1, <1>13 DEF Record, Req
  <2>3. q.ask.op \in {"switch", "snapshot", "backup"} /\ Named(q.plan) \subseteq q.done
    BY <1>1, <2>1 DEF Course, Agreed
  <2>4. \A t \in Named(q.plan) : disk[t] = q.plan[t]
    BY <1>1, <2>1 DEF Exact
  <2>5. q.backup # 0
    <3>1. q.backup \in DOMAIN backups
      BY <1>1, <2>1, <2>3 DEF Saved, Changing
    <3>2. QED
      BY <3>1 DEF TypeOK
  <2>6. ASSUME NEW t \in Tools
        PROVE  Excused(t)' \/ Steady(t, disk, state')
    <3>1. CASE q.ask.op = "switch"
      <4>1. CASE t \in Named(q.plan)
        <5>1. q.plan[t] # Absent /\ q.plan[t].sel = q.ask.profile[t]
          BY <2>1, <3>1, <4>1 DEF Agreed, Midway
        <5>2. state'[t] = q.ask.profile[t]
          BY <2>1, <3>1 DEF Fingerprints
        <5>3. QED
          BY <2>4, <4>1, <5>1, <5>2 DEF Steady
      <4>2. CASE t \notin Named(q.plan) /\ q.ask.profile[t] # None
        <5>1. Mislaid(r, t)'
          BY <2>2, <2>5, <3>1, <4>2 DEF Mislaid, Named
        <5>2. QED
          BY <1>4, <2>2, <5>1
      <4>3. CASE q.ask.profile[t] = None
        BY <2>1, <3>1, <4>3 DEF Steady, Fingerprints
      <4>4. QED
        BY <4>1, <4>2, <4>3
    <3>2. CASE q.ask.op = "snapshot"
      BY <2>1, <3>2 DEF Steady, Fingerprints
    <3>3. CASE q.ask.op = "backup"
      <4>1. state' = state
        BY <2>1, <3>3 DEF Fingerprints
      <4>2. CASE t \in Named(q.plan)
        <5>1. Mislaid(r, t)'
          BY <2>2, <2>3, <3>3, <4>2 DEF Mislaid
        <5>2. QED
          BY <1>4, <2>2, <5>1
      <4>3. CASE t \notin Named(q.plan)
        <5>1. Behind(q, disk)[t] = disk[t]
          BY <4>3 DEF Behind
        <5>2. QED
          BY <1>2, <2>1, <4>1, <5>1 DEF Steady, Midway
      <4>4. QED
        BY <4>2, <4>3
    <3>4. QED
      BY <2>3, <3>1, <3>2, <3>3
  <2>7. Agreed(req'[r], disk)
    BY <2>2 DEF Agreed, Midway
  <2>8. QED
    BY <2>1, <2>2, <2>6, <2>7 DEF Midway
<1>14. CASE AcceptDrift(r)
  <2>1. disk' = disk /\ q.pc = "accept"
    BY <1>14 DEF AcceptDrift
  <2>2. req'[r].pc = "readback"
    BY <1>1, <1>14 DEF AcceptDrift, Req
  <2>3. ASSUME NEW t \in Tools, Steady(t, disk, state)
        PROVE  Steady(t, disk, state')
    <3> DEFINE u == q.ask.tool
    <3>1. u \in Tools
      BY <1>1, <2>1, AskType DEF Course, Busy, Locked
    <3>2. \/ state' = state
          \/ Live(u).sel # Nobody /\ state' = [state EXCEPT ![u] = Live(u).sel]
      BY <1>14 DEF AcceptDrift
    <3>3. Live(u).sel # Nobody => disk[u] # Absent /\ Live(u).sel = disk[u].sel
      BY DEF Live
    <3>4. QED
      BY <2>3, <3>1, <3>2, <3>3 DEF Steady, TypeOK, Assignment
  <2>4. Agreed(req'[r], disk)
    BY <2>2 DEF Agreed, Midway
  <2>5. QED
    BY <1>2, <2>1, <2>2, <2>3, <2>4 DEF Midway
<1>15. CASE ReadBack(r) \/ Forget(r) \/ WriteRecords(r) \/ Refuse(r)
  <2>1. UNCHANGED <<disk, state>> /\ q.pc \notin Midway
    BY <1>15 DEF ReadBack, Forget, WriteRecords, Refuse, store, Midway
  <2>2. req'[r].pc \in {"applied", "refused", "records"}
    BY <1>1, <1>15 DEF ReadBack, Forget, WriteRecords, Refuse, Req
  <2>3. Agreed(req'[r], disk)
    BY <2>2 DEF Agreed, Midway
  <2>4. QED
    BY <1>3, <2>1, <2>2, <2>3 DEF Midway
<1>16. CASE Crash(r)
  <2>1. UNCHANGED <<disk, state>>
    BY <1>16 DEF Crash, store
  <2>2. req'[r].pc = "dead" /\ req'[r].lost = q.lost /\ req'[r].done = q.done
    BY <1>1, <1>16 DEF Crash, Req
  <2>3. Agreed(req'[r], disk)
    BY <2>2 DEF Agreed, Midway
  <2>4. ASSUME q.pc \in Midway
        PROVE  \A t \in Tools : Excused(t)' \/ Steady(t, disk, state)
    <3>1. \A t \in Tools : t \in q.done \cup q.lost => Mislaid(r, t)'
      BY <2>2 DEF Mislaid
    <3>2. \A t \in Tools : t \notin q.done \cup q.lost => Behind(q, disk)[t] = disk[t]
      BY <1>1, <2>4 DEF Exact, Behind, Agreed, Midway
    <3>3. QED
      BY <1>2, <1>4, <2>2, <2>4, <3>1, <3>2 DEF Steady, Ended
  <2>5. QED
    BY <1>3, <2>1, <2>2, <2>3, <2>4 DEF Midway
<1>17. QED
  BY <1>5, <1>6, <1>7, <1>8, <1>9, <1>10, <1>11, <1>12, <1>13, <1>14, <1>15, <1>16
     DEF Step, Progress, Fault

\* Every step keeps the records in agreement with the files, but where an edit or a call that is over
\* accounts for the difference.
LEMMA StepKept ==
    ASSUME Calm, ~Overlapping, "store" \notin Faults, TypeOK, Alone, Solo, Work, Return, Explained, Next
    PROVE  Explained'
<1>1. ASSUME NEW q, NEW files, q.pc \notin Busy
      PROVE  Agreed(q, files) /\ q.pc \notin Midway
  BY <1>1 DEF Agreed, Busy, Planning, Locked, Midway
<1>2. CASE Edit
  <2>1. req' = req /\ state' = state /\ \A r \in Requests : req[r].pc \notin Busy
    BY <1>2, NoEditMeanwhile DEF Edit, store
  <2>2. ASSUME NEW t \in Tools
        PROVE  Excused(t)' \/ Steady(t, disk, state)'
    <3>1. Excused(t) \/ Steady(t, disk, state)
      BY <1>1, <2>1 DEF Explained
    <3>2. Excused(t) => Excused(t)'
      BY ExcuseStays
    <3>3. PICK u \in Tools :
            /\ disk[u] # Absent
            /\ \/ \E x \in Rest : disk' = [disk EXCEPT ![u].rest = x]
               \/ /\ \E s \in disk[u].reg \cup {Nobody} : disk' = [disk EXCEPT ![u].sel = s]
                  /\ edited' = edited \cup {u}
      BY <1>2 DEF Edit
    <3>4. CASE t # u
      BY <2>1, <3>1, <3>2, <3>3, <3>4 DEF Steady, TypeOK
    <3>5. CASE t = u /\ t \in edited'
      BY <3>5 DEF Excused
    <3>6. CASE t = u /\ t \notin edited'
      <4>1. disk[t] \in Config
        BY <3>3, <3>6 DEF TypeOK, File
      <4>2. PICK x \in Rest : disk' = [disk EXCEPT ![t].rest = x]
        BY <3>3, <3>6
      <4>3. disk'[t] = [disk[t] EXCEPT !.rest = x]
        BY <4>2 DEF TypeOK
      <4>4. disk'[t] \in Config /\ disk'[t].sel = disk[t].sel
        BY <4>1, <4>3 DEF Config
      <4>5. QED
        BY <2>1, <3>1, <3>2, <4>4, TapkeyAssumption DEF Steady
    <3>7. QED
      BY <3>4, <3>5, <3>6
  <2>3. \A r \in Requests : Agreed(req'[r], disk') /\ req'[r].pc \notin Midway
    BY <1>1, <2>1
  <2>4. QED
    BY <2>2, <2>3 DEF Explained
<1>3. ASSUME NEW r \in Requests, Step(r)
      PROVE  Explained'
  <2>1. \A x \in Requests : x # r => req'[x] = req[x] /\ req[x].pc \notin Busy
    BY <1>3, OthersRest
  <2>2. \A x \in Requests : x # r => Agreed(req'[x], disk') /\ req[x].pc \notin Midway
                                     /\ req'[x].pc \notin Midway
    BY <1>1, <2>1
  <2>3. /\ Agreed(req[r], disk)
        /\ req[r].pc \notin Midway => \A t \in Tools : Excused(t) \/ Steady(t, disk, state)
        /\ req[r].pc \in Midway =>
               \A t \in Tools : Excused(t) \/ Steady(t, Behind(req[r], disk), state)
    BY <2>2 DEF Explained
  <2>4. /\ Agreed(req'[r], disk')
        /\ req'[r].pc \notin Midway => \A t \in Tools : Excused(t)' \/ Steady(t, disk', state')
        /\ req'[r].pc \in Midway =>
               \A t \in Tools : Excused(t)' \/ Steady(t, Behind(req'[r], disk'), state')
    BY <1>3, <2>3, OwnKept
  <2>5. QED
    BY <2>2, <2>4 DEF Explained
<1>4. QED
  BY <1>2, <1>3 DEF Next, Step

\* One call after another, the files edited in between at most and state.json always written: between
\* calls no tool is said to have drifted but one whose selection somebody else edited, or whose file
\* a call left otherwise than recorded in one of the four ways of Mislaid, whatever else was refused,
\* rolled back or died.
THEOREM NothingDriftsByItself ==
    ASSUME Calm, ~Overlapping, "store" \notin Faults
    PROVE  Spec => []NoFalseDrift
<1>1. Init => Return /\ Explained
  <2> SUFFICES ASSUME Init
               PROVE  Return /\ Explained
    OBVIOUS
  <2>1. \A r \in Requests : req[r].pc = "idle"
    BY DEF Init, Idle
  <2>2. \A r \in Requests : Agreed(req[r], disk) /\ req[r].pc \notin Midway
    BY <2>1 DEF Agreed, Midway
  <2>3. \A t \in Tools : Steady(t, disk, state)
    BY DEF Init, Steady
  <2>4. QED
    BY <2>1, <2>2, <2>3 DEF Return, Returning, Explained
<1>2. TypeOK /\ Alone /\ Solo /\ Work /\ Return /\ Explained /\ [Next]_vars => Return' /\ Explained'
  <2>1. Return /\ Explained /\ UNCHANGED vars => Return' /\ Explained'
    BY DEF vars, store, Return, Explained, Excused, Mislaid
  <2>2. QED
    BY <2>1, StepReturn, StepKept
<1>3. Explained => NoFalseDrift
  <2>1. SUFFICES ASSUME Explained, \A r \in Requests : req[r].pc \notin Busy, NEW t \in Tools, Drifted(t)
                 PROVE  t \in edited \/ \E r \in Requests : Mislaid(r, t)
    BY DEF NoFalseDrift
  <2>2. Excused(t) \/ Steady(t, disk, state)
    BY <2>1 DEF Explained, Midway, Busy, Locked
  <2>3. QED
    BY <2>1, <2>2 DEF Steady, Drifted, Excused
<1>4. QED
  BY <1>1, <1>2, <1>3, SoloHolds, PTL DEF Spec
-----------------------------------------------------------------------------
(* One call after another, each does what module Calls says, at one moment.  What is meant of a call, *)
(* from what it was asked to what it leaves behind, in an invariant; then the steps. *)

Stops(t, f) == t \in Strict /\ f # Absent /\ f.rest = Fatal

\* What a switch to p, and the removal of p, make of a tool's file.
SwitchOf(t, f, p) ==
    IF p = None \/ Stops(t, f) THEN f
    ELSE [AsRead(f) EXCEPT !.sel = p, !.reg = IF t \in Registry THEN @ \cup {p} ELSE @]
RemovalOf(t, f, p) == IF t \in Registry THEN [AsRead(f) EXCEPT !.reg = @ \ {p}] ELSE f

\* What a call asks a file to become, and what its plan makes of it.
Asked(q, t, f) ==
    IF q.ask.op = "switch" THEN SwitchOf(t, f, q.ask.profile[t]) ELSE RemovalOf(t, f, q.ask.provider)
Gives(q, t, f) == IF q.plan[t] = Keep THEN f ELSE q.plan[t]

\* The files without what a call has written and may still undo.
Midst(q) == q.pc \in {"apply", "undo"}
Without(q, files) ==
    IF Midst(q) THEN [t \in Tools |-> IF t \in q.done \cup q.lost THEN q.before[t] ELSE files[t]]
    ELSE files

\* As far as it has come, the plan is what was asked of the files as they are, and no tool it has looked
\* at selects what it removes.
Planned(q, files) ==
    /\ q.pc \in {"check", "plan", "lock", "capture", "snapshot", "backup", "before", "apply", "undo"}
    /\ q.ask.op \in {"switch", "remove"}
    => \A t \in Tools :
          IF q.pc \in {"check", "plan"} /\ t \in q.todo THEN q.plan[t] = Keep
          ELSE /\ Gives(q, t, files[t]) = Asked(q, t, files[t])
               /\ q.ask.op = "remove" => AsRead(files[t]).sel # q.ask.provider

\* A way back is planned from what was stored.
FromStore(q, snap, saved) ==
    q.pc \in {"capture", "snapshot", "backup", "before", "apply", "undo", "record"} =>
        /\ q.ask.op = "snapshot" => snap # None /\ q.plan = snap
        /\ q.ask.op = "backup" => q.plan = saved[q.ask.id]

\* The backup a call took is the last one; a switch took it after the snapshot.
Kept(q, snap, saved) ==
    /\ q.pc \in {"before", "apply", "undo"} => q.backup = Len(saved)
    /\ q.pc \in {"backup", "before", "apply", "undo"} /\ q.ask.op = "switch" => snap # None

\* The providers of a call are known until it is over, and have a key, once that is checked, where it
\* switches to them.
Entitled(q, recs, ks) ==
    q.pc \in Busy =>
        /\ q.ask.op = "switch" =>
              /\ q.ask.profile \in [Tools -> recs \cup {None}]
              /\ q.pc # "check" => q.ask.profile \in [Tools -> (recs \cap ks) \cup {None}]
              /\ \E t \in Tools : q.ask.profile[t] # None
        /\ q.ask.op = "remove" => q.ask.provider \in recs /\ q.doc = recs

\* What is done is as planned, while undoing too.
Written(q, files) == Midst(q) => \A t \in q.done : files[t] = q.plan[t]

\* What the change left behind.
Left(q, files, ks) ==
    /\ q.pc = "record" /\ q.ask.op = "switch" =>
          \A t \in Tools : \/ q.ask.profile[t] = None \/ Stops(t, files[t])
                           \/ AsRead(files[t]).sel = q.ask.profile[t]
    /\ q.pc \in {"forget", "records"} =>
          \A t \in Tools : /\ AsRead(files[t]).sel # q.ask.provider
                           /\ t \in Registry => q.ask.provider \notin AsRead(files[t]).reg
    /\ q.pc = "records" => q.ask.provider \notin ks

MeantOf(q, files, snap, saved, recs, ks) ==
    /\ Planned(q, Without(q, files)) /\ FromStore(q, snap, saved) /\ Kept(q, snap, saved)
    /\ Entitled(q, recs, ks) /\ Written(q, files) /\ Left(q, files, ks)

Meant == \A r \in Requests : MeantOf(req[r], disk, snapshot, backups, records, keys)

\* Nothing is asked of a call that is not under way.
LEMMA NothingMeant ==
    ASSUME NEW q, q.pc \notin Busy, NEW files, NEW snap, NEW saved, NEW recs, NEW ks
    PROVE  MeantOf(q, files, snap, saved, recs, ks)
BY DEF MeantOf, Planned, FromStore, Kept, Entitled, Written, Midst, Left, Busy, Planning, Locked

\* What planning reads is what there is.
LEMMA PlanReads ==
    ASSUME TypeOK, NEW t \in Tools, NEW p \in Providers
    PROVE  /\ Live(t) = AsRead(disk[t]) /\ Live(t) \in Config
           /\ WillNotStart(t) <=> Stops(t, disk[t])
           /\ p # None /\ SelectedIn(t, p) \in Config /\ SelectedIn(t, p) # Keep
           /\ SwitchOf(t, disk[t], p) = IF WillNotStart(t) THEN disk[t] ELSE SelectedIn(t, p)
           /\ RemovalOf(t, disk[t], p) =
                  IF t \in Registry THEN [Live(t) EXCEPT !.reg = @ \ {p}] ELSE disk[t]
           /\ [Live(t) EXCEPT !.reg = @ \ {p}] \in Config
           /\ [Live(t) EXCEPT !.reg = @ \ {p}] # Keep
<1>1. Live(t) = AsRead(disk[t])
  BY DEF Live, AsRead
<1>2. Live(t) \in Config /\ SelectedIn(t, p) \in Config
  BY FileTypes DEF TypeOK
<1>3. WillNotStart(t) <=> Stops(t, disk[t])
  BY DEF WillNotStart, Stops
<1>4. p # None /\ Keep \notin Config
  BY TapkeyAssumption DEF File
<1>5. [Live(t) EXCEPT !.reg = @ \ {p}] \in Config
  BY <1>2 DEF Config
<1> QED
  BY <1>1, <1>2, <1>3, <1>4, <1>5 DEF SwitchOf, RemovalOf, SelectedIn

\* While a call is asked for, and while it plans.
LEMMA PlanningPlanned ==
    ASSUME ~Overlapping, TypeOK, Alone, Solo, Meant, NEW r \in Requests,
           Start(r) \/ Cycle(r) \/ CheckKeys(r) \/ PlanSwitch(r) \/ PlanRemoval(r)
    PROVE  Planned(req'[r], Without(req'[r], disk')) /\ Entitled(req'[r], records', keys')
<1> USE DEF At, Goto
<1>1. /\ req \in [Requests -> Req] /\ req[r] \in Req /\ Course(req[r])
      /\ Planned(req[r], Without(req[r], disk)) /\ Entitled(req[r], records, keys)
      /\ disk' = disk /\ records' = records /\ keys' = keys
  BY DEF TypeOK, Placed, Meant, MeantOf, Start, Cycle, CheckKeys, PlanSwitch, PlanRemoval
<1>2. CASE req'[r].pc = "refused"
  BY <1>2, NothingMeant DEF MeantOf, Busy, Planning, Locked
<1>3. ASSUME NEW a \in Ask, req'[r] = Called(a), req'[r].pc # "refused"
      PROVE  Planned(req'[r], disk) /\ Entitled(req'[r], records, keys)
  <2>1. /\ Called(a).ask = a /\ Called(a).plan = NoFiles /\ Called(a).todo = Covered(a)
        /\ Called(a).doc = records
        /\ Called(a).pc = IF a.op = "cycle" THEN "cycle"
                          ELSE IF a.op = "switch" THEN "check"
                          ELSE IF a.op = "remove" THEN "plan" ELSE "lock"
        /\ Known(a)
    BY <1>3 DEF Called, Idle
  <2>2. Entitled(Called(a), records, keys)
    BY <2>1, AskType DEF Entitled, Known, Assignment
  <2>3. \A t \in Tools : a.op = "switch" /\ t \notin Covered(a) => a.profile[t] = None
    BY DEF Covered
  <2>4. a.op = "remove" => Covered(a) = Tools
    BY DEF Covered
  <2>5. Planned(Called(a), disk)
    BY <2>1, <2>3, <2>4 DEF Planned, Gives, Asked, SwitchOf, NoFiles
  <2> QED
    BY <1>3, <2>2, <2>5
<1>4. CASE (Start(r) \/ Cycle(r)) /\ req'[r].pc # "refused"
  <2>1. \E a \in Ask : req'[r] = Called(a)
    <3>1. CASE Start(r)
      BY <1>1, <3>1, TapkeyAssumption DEF Start
    <3>2. CASE Cycle(r)
      <4>1. ~(Len(Rows) < 2) /\ req[r].ask \in Ask /\ req[r].ask.op = "cycle"
        BY <1>1, <1>4, <3>2 DEF Cycle, Course, Busy, Planning, Req
      <4>2. Len(Rows) >= 2
        BY <4>1, TapkeyAssumption
      <4>3. PICK at \in {RowInEffect} \cup IF "readback" \in Faults THEN {0} ELSE {} :
                req' = [req EXCEPT ![r] = Called([op |-> "switch",
                                                  profile |-> Rows[StepIndex(at, req[r].ask.step)]])]
        BY <3>2, <4>1 DEF Cycle
      <4>4. at \in {0, RowInEffect}
        OBVIOUS
      <4>5. [op |-> "switch", profile |-> Rows[StepIndex(at, req[r].ask.step)]] \in Ask
        BY <4>1, <4>2, <4>4, CycleAsks
      <4> QED
        BY <1>1, <4>3, <4>5
    <3> QED
      BY <1>4, <3>1, <3>2
  <2>2. ~Midst(req'[r])
    BY <2>1 DEF Called, Idle, Midst
  <2> QED
    BY <1>1, <1>3, <1>4, <2>1, <2>2 DEF Without
<1>5. CASE CheckKeys(r) /\ req'[r].pc # "refused"
  <2>1. /\ req[r].pc = "check" /\ req[r].ask.op = "switch" /\ req'[r] = [req[r] EXCEPT !.pc = "plan"]
        /\ \A t \in Tools : req[r].ask.profile[t] \in keys \cup {None}
    BY <1>1, <1>5 DEF CheckKeys, Req, Course
  <2>2. /\ req'[r].ask = req[r].ask /\ req'[r].plan = req[r].plan /\ req'[r].todo = req[r].todo
        /\ req'[r].pc = "plan"
    BY <1>1, <2>1 DEF Req
  <2>3. Without(req[r], disk) = disk /\ Without(req'[r], disk) = disk
    BY <2>1, <2>2 DEF Without, Midst
  <2>4. Planned(req'[r], disk)
    BY <1>1, <2>1, <2>2, <2>3 DEF Planned, Gives, Asked
  <2>5. /\ req[r].ask.profile \in [Tools -> records \cup {None}]
        /\ \E t \in Tools : req[r].ask.profile[t] # None
    BY <1>1, <2>1 DEF Entitled, Busy, Planning
  <2>6. req[r].ask.profile \in [Tools -> (records \cap keys) \cup {None}]
    BY <2>1, <2>5
  <2>7. Entitled(req'[r], records, keys)
    BY <2>1, <2>2, <2>5, <2>6 DEF Entitled
  <2> QED
    BY <1>1, <2>3, <2>4, <2>7
<1>6. CASE (PlanSwitch(r) \/ PlanRemoval(r)) /\ req'[r].pc # "refused"
  <2> DEFINE t == First(req[r].todo)
  <2>1. t \in req[r].todo /\ t \in Tools /\ req[r].pc = "plan" /\ req[r].plan \in Partial
    BY <1>1, <1>6, FirstAndLast DEF PlanSwitch, PlanRemoval, Req, Course
  <2>2. /\ req'[r].ask = req[r].ask /\ req'[r].doc = req[r].doc
        /\ req'[r].todo = req[r].todo \ {t}
        /\ req'[r].pc = IF req[r].todo = {t} THEN "lock" ELSE "plan"
        /\ \A u \in Tools \ {t} : req'[r].plan[u] = req[r].plan[u]
        /\ Gives(req'[r], t, disk[t]) = Asked(req[r], t, disk[t])
        /\ req[r].ask.op = "remove" => AsRead(disk[t]).sel # req[r].ask.provider
    <3>1. CASE PlanSwitch(r)
      <4> DEFINE p == req[r].ask.profile[t]
                 f == IF WillNotStart(t) THEN Keep ELSE SelectedIn(t, p)
      <4>1. req[r].ask.op = "switch"
        BY <3>1 DEF PlanSwitch
      <4>2. p \in Providers
        BY <1>1, <2>1, <4>1, AskType DEF Course, Req, Busy, Planning, Assignment
      <4>3. req' = [req EXCEPT ![r].plan[t] = f, ![r].todo = @ \ {t},
                               ![r].pc = IF req[r].todo = {t} THEN "lock" ELSE "plan"]
        BY <3>1 DEF PlanSwitch
      <4>4. /\ req'[r].ask = req[r].ask /\ req'[r].doc = req[r].doc
            /\ req'[r].todo = req[r].todo \ {t}
            /\ req'[r].pc = IF req[r].todo = {t} THEN "lock" ELSE "plan"
            /\ req'[r].plan = [req[r].plan EXCEPT ![t] = f]
        BY <1>1, <4>3 DEF Req
      <4> HIDE DEF f
      <4>5. \A u \in Tools : req'[r].plan[u] = IF u = t THEN f ELSE req[r].plan[u]
        BY <2>1, <4>4 DEF Partial
      <4>6. Gives(req'[r], t, disk[t]) = Asked(req[r], t, disk[t])
        BY <2>1, <4>1, <4>2, <4>5, PlanReads DEF Gives, Asked, f
      <4> QED
        BY <4>1, <4>4, <4>5, <4>6
    <3>2. CASE PlanRemoval(r)
      <4> DEFINE p == req[r].ask.provider
                 f == IF t \in Registry THEN [Live(t) EXCEPT !.reg = @ \ {p}] ELSE Keep
      <4>1. req[r].ask.op = "remove"
        BY <3>2 DEF PlanRemoval
      <4>2. p \in Providers
        BY <1>1, <2>1, <4>1, AskType DEF Course, Req, Busy, Planning
      <4>3. Live(t).sel # p
        BY <1>1, <1>6, <3>2 DEF PlanRemoval, Req
      <4>4. req' = [req EXCEPT ![r].plan[t] = f, ![r].todo = @ \ {t},
                               ![r].pc = IF req[r].todo = {t} THEN "lock" ELSE "plan"]
        BY <3>2, <4>3 DEF PlanRemoval
      <4>5. /\ req'[r].ask = req[r].ask /\ req'[r].doc = req[r].doc
            /\ req'[r].todo = req[r].todo \ {t}
            /\ req'[r].pc = IF req[r].todo = {t} THEN "lock" ELSE "plan"
            /\ req'[r].plan = [req[r].plan EXCEPT ![t] = f]
        BY <1>1, <4>4 DEF Req
      <4> HIDE DEF f
      <4>6. \A u \in Tools : req'[r].plan[u] = IF u = t THEN f ELSE req[r].plan[u]
        BY <2>1, <4>5 DEF Partial
      <4>7. Gives(req'[r], t, disk[t]) = Asked(req[r], t, disk[t])
        BY <2>1, <4>1, <4>2, <4>6, PlanReads DEF Gives, Asked, f
      <4> QED
        BY <2>1, <4>1, <4>2, <4>3, <4>5, <4>6, <4>7, PlanReads
    <3> QED
      BY <1>6, <3>1, <3>2
  <2>3. ~Midst(req[r]) /\ ~Midst(req'[r])
    BY <2>1, <2>2 DEF Midst
  <2>4. Entitled(req'[r], records, keys)
    BY <1>1, <2>1, <2>2 DEF Entitled, Busy, Planning
  <2>5. ASSUME NEW u \in Tools, req[r].ask.op \in {"switch", "remove"}
        PROVE  IF u \in req'[r].todo THEN req'[r].plan[u] = Keep
               ELSE /\ Gives(req'[r], u, disk[u]) = Asked(req'[r], u, disk[u])
                    /\ req[r].ask.op = "remove" => AsRead(disk[u]).sel # req[r].ask.provider
    <3>1. CASE u = t
      BY <2>1, <2>2, <3>1 DEF Asked
    <3>2. CASE u # t
      <4>1. /\ u \in req'[r].todo <=> u \in req[r].todo
            /\ req'[r].plan[u] = req[r].plan[u]
        BY <2>2, <2>5, <3>2
      <4>2. IF u \in req[r].todo THEN req[r].plan[u] = Keep
            ELSE /\ Gives(req[r], u, disk[u]) = Asked(req[r], u, disk[u])
                 /\ req[r].ask.op = "remove" => AsRead(disk[u]).sel # req[r].ask.provider
        BY <1>1, <2>1, <2>3, <2>5 DEF Planned, Without
      <4> QED
        BY <2>2, <4>1, <4>2 DEF Gives, Asked
    <3> QED
      BY <3>1, <3>2
  <2>6. req'[r].pc = "lock" => req'[r].todo = {}
    BY <2>2
  <2> HIDE DEF t
  <2>7. Planned(req'[r], disk)
    BY <2>2, <2>5, <2>6 DEF Planned
  <2> QED
    BY <1>1, <2>3, <2>4, <2>7 DEF Without
<1> QED
  BY <1>2, <1>4, <1>5, <1>6

\* Before there is a plan, and when all that is left is to answer, little is asked of a call.
LEMMA LittleMeant ==
    ASSUME NEW q, q.pc \in {"cycle", "check", "plan", "lock", "read", "accept", "readback"},
           NEW files, NEW snap, NEW saved, NEW ks
    PROVE  FromStore(q, snap, saved) /\ Kept(q, snap, saved) /\ Written(q, files) /\ Left(q, files, ks)
BY DEF FromStore, Kept, Written, Midst, Left

\* A call that goes on with the same plan, over the same files and providers.
LEMMA GoesOn ==
    ASSUME NEW q, NEW p, NEW files, NEW recs, NEW ks,
           q.pc \in {"lock", "capture", "snapshot", "backup"},
           p.pc \in {"lock", "read", "capture", "snapshot", "backup", "before", "accept"},
           p.ask = q.ask, p.plan = q.plan, p.doc = q.doc,
           Planned(q, Without(q, files)), Entitled(q, recs, ks)
    PROVE  /\ Planned(p, Without(p, files)) /\ Entitled(p, recs, ks)
           /\ Written(p, files) /\ Left(p, files, ks)
<1>1. ~Midst(q) /\ ~Midst(p) /\ q.pc \in Busy /\ p.pc \in Busy
  BY DEF Midst, Busy, Planning, Locked
<1>2. Entitled(p, recs, ks) /\ Written(p, files) /\ Left(p, files, ks)
  BY <1>1 DEF Entitled, Written, Left
<1>3. Without(q, files) = files /\ Without(p, files) = files
  BY <1>1 DEF Without
<1>4. Planned(p, files)
  BY <1>3 DEF Planned, Gives, Asked
<1> QED
  BY <1>2, <1>3, <1>4

\* What a call does before it changes anything.
LEMMA PreparingMeant ==
    ASSUME TypeOK, NEW r \in Requests,
           MeantOf(req[r], disk, snapshot, backups, records, keys),
           \/ TakeLock(r) \/ Contended(r) \/ ReadStored(r) \/ Capture(r) \/ TakeSnapshot(r)
           \/ TakeBackup(r) \/ ReadBefore(r)
    PROVE  MeantOf(req'[r], disk', snapshot', backups', records', keys')
<1> USE DEF At, Goto, Answer
<1> DEFINE q == req[r]
           p == req'[r]
<1>1. /\ req \in [Requests -> Req] /\ q \in Req /\ Course(q) /\ q.pc \in Busy
      /\ Planned(q, Without(q, disk)) /\ FromStore(q, snapshot, backups)
      /\ Kept(q, snapshot, backups) /\ Entitled(q, records, keys)
      /\ disk' = disk /\ records' = records /\ keys' = keys
  BY DEF TypeOK, Placed, MeantOf, TakeLock, Contended, ReadStored, Capture, TakeSnapshot, TakeBackup,
         ReadBefore, store, Busy, Planning, Locked
<1>2. ASSUME q.pc \in {"lock", "capture", "snapshot", "backup"},
             p.pc \in {"lock", "read", "capture", "snapshot", "backup", "before", "accept"},
             p.ask = q.ask, p.plan = q.plan, p.doc = q.doc,
             FromStore(p, snapshot', backups'), Kept(p, snapshot', backups')
      PROVE  MeantOf(p, disk', snapshot', backups', records', keys')
  <2> HIDE DEF q, p
  <2>1. Planned(q, Without(q, disk)) /\ Entitled(q, records, keys)
    BY <1>1
  <2>2. /\ Planned(p, Without(p, disk)) /\ Entitled(p, records, keys)
        /\ Written(p, disk) /\ Left(p, disk, keys)
    BY <1>2, <2>1, GoesOn
  <2> QED
    BY <1>1, <1>2, <2>2 DEF MeantOf
<1>3. CASE p.pc \notin Busy
  BY <1>3, NothingMeant DEF MeantOf
<1>4. CASE TakeLock(r) \/ Contended(r)
  <2>1. /\ q.pc = "lock" /\ p.ask = q.ask /\ p.plan = q.plan /\ p.doc = q.doc
        /\ p.pc \in {"lock", "busy", "capture", "accept", "read"}
        /\ p.pc = "capture" => p.ask.op \in {"switch", "remove"}
    BY <1>1, <1>4 DEF TakeLock, Contended, FirstLocked, Req
  <2>2. CASE p.pc = "busy"
    BY <1>3, <2>2 DEF Busy, Planning, Locked
  <2>3. FromStore(p, snapshot', backups') /\ Kept(p, snapshot', backups')
    BY <2>1 DEF FromStore, Kept
  <2> QED
    BY <1>2, <2>1, <2>2, <2>3
<1>5. CASE ReadStored(r)
  <2>1. q.ask.op \in {"snapshot", "backup"} /\ q.pc = "read"
        /\ snapshot' = snapshot /\ backups' = backups
    BY <1>1, <1>5 DEF ReadStored, Course, store
  <2>2. CASE Stored(q.ask) = None
    <3>1. p.pc = "refused"
      BY <1>1, <1>5, <2>2 DEF ReadStored, Req
    <3> QED
      BY <1>3, <3>1 DEF Busy, Planning, Locked
  <2>3. CASE Stored(q.ask) # None
    <3>1. p.pc = "capture" /\ p.ask = q.ask /\ p.plan = Stored(q.ask)
      BY <1>1, <1>5, <2>3 DEF ReadStored, Req
    <3>2. FromStore(p, snapshot, backups)
      BY <2>3, <3>1 DEF FromStore, Stored
    <3>3. /\ Planned(p, Without(p, disk)) /\ Kept(p, snapshot, backups)
          /\ Entitled(p, records, keys) /\ Written(p, disk) /\ Left(p, disk, keys)
      BY <2>1, <3>1 DEF Planned, Kept, Entitled, Written, Midst, Left
    <3> QED
      BY <1>1, <2>1, <3>2, <3>3 DEF MeantOf
  <2> QED
    BY <2>2, <2>3
<1>6. CASE Capture(r)
  <2>1. /\ q.pc = "capture" /\ p.ask = q.ask /\ p.plan = q.plan /\ p.doc = q.doc
        /\ p.pc = IF p.ask.op = "switch" THEN "snapshot" ELSE "backup"
        /\ snapshot' = snapshot /\ backups' = backups
    BY <1>1, <1>6 DEF Capture, Req, store
  <2>2. FromStore(p, snapshot', backups') /\ Kept(p, snapshot', backups')
    BY <1>1, <2>1 DEF FromStore, Kept
  <2> QED
    BY <1>2, <2>1, <2>2
<1>7. CASE TakeSnapshot(r) /\ p.pc # "refused"
  <2>1. /\ q.pc = "snapshot" /\ p.ask = q.ask /\ p.plan = q.plan /\ p.doc = q.doc /\ p.pc = "backup"
        /\ snapshot' = (IF snapshot = None THEN disk ELSE snapshot) /\ backups' = backups
    BY <1>1, <1>7 DEF TakeSnapshot, Req
  <2>2. disk # None
    BY TapkeyAssumption DEF TypeOK
  <2>3. FromStore(p, snapshot', backups') /\ Kept(p, snapshot', backups')
    BY <1>1, <2>1, <2>2 DEF FromStore, Kept
  <2> QED
    BY <1>2, <2>1, <2>3
<1>8. CASE TakeBackup(r) /\ p.pc # "refused"
  <2>1. /\ q.pc = "backup" /\ p.ask = q.ask /\ p.plan = q.plan /\ p.doc = q.doc /\ p.pc = "before"
        /\ p.backup = Len(backups) + 1 /\ snapshot' = snapshot
        /\ backups' = Append(backups, q.captured)
    BY <1>1, <1>8 DEF TakeBackup, Req
  <2>2. q.captured \in Partial /\ backups \in Seq(Partial)
        /\ (q.ask.op = "backup" => q.ask.id \in DOMAIN backups)
    BY <1>1 DEF TypeOK, Req, Placed
  <2>3. Len(backups') = Len(backups) + 1 /\ \A i \in DOMAIN backups : backups'[i] = backups[i]
    BY <2>1, <2>2
  <2>4. FromStore(p, snapshot', backups') /\ Kept(p, snapshot', backups')
    BY <1>1, <2>1, <2>2, <2>3 DEF FromStore, Kept
  <2> QED
    BY <1>2, <2>1, <2>4
<1>9. CASE ReadBefore(r)
  <2>1. /\ q.pc = "before" /\ p.ask = q.ask /\ p.plan = q.plan /\ p.doc = q.doc /\ p.pc = "apply"
        /\ p.done = {} /\ p.lost = {} /\ p.backup = q.backup
        /\ snapshot' = snapshot /\ backups' = backups
    BY <1>1, <1>9 DEF ReadBefore, Req, store, Course
  <2>2. Without(q, disk) = disk /\ Without(p, disk) = disk
    BY <2>1 DEF Without, Midst, TypeOK
  <2>3. Planned(p, disk)
    BY <1>1, <2>1, <2>2 DEF Planned, Gives, Asked
  <2>4. /\ FromStore(p, snapshot, backups) /\ Kept(p, snapshot, backups)
        /\ Entitled(p, records, keys) /\ Written(p, disk) /\ Left(p, disk, keys)
    BY <1>1, <2>1 DEF FromStore, Kept, Entitled, Written, Left, Busy, Locked
  <2> QED
    BY <1>1, <2>1, <2>2, <2>3, <2>4 DEF MeantOf
<1>10. CASE p.pc = "refused"
  BY <1>3, <1>10 DEF Busy, Planning, Locked
<1> QED
  BY <1>4, <1>5, <1>6, <1>7, <1>8, <1>9, <1>10

\* One file written, or put back, changes nothing of what may still be undone.
LEMMA MidstStays ==
    ASSUME TypeOK, NEW r \in Requests, Exact(req[r], disk), Written(req[r], disk),
           ApplyOne(r) \/ ApplyRefused(r) \/ UndoOne(r) \/ UndoRefused(r)
    PROVE  /\ Midst(req[r]) /\ Midst(req'[r])
           /\ req'[r].ask = req[r].ask /\ req'[r].plan = req[r].plan /\ req'[r].doc = req[r].doc
           /\ req'[r].backup = req[r].backup
           /\ Without(req'[r], disk') = Without(req[r], disk)
           /\ Written(req'[r], disk')
<1> USE DEF At, Goto
<1> DEFINE q == req[r]
           p == req'[r]
<1>1. /\ req \in [Requests -> Req] /\ q \in Req /\ Course(q) /\ disk \in [Tools -> File]
  BY DEF TypeOK, Placed
<1>2. /\ Midst(q) /\ Midst(p) /\ p.ask = q.ask /\ p.plan = q.plan /\ p.doc = q.doc
      /\ p.backup = q.backup /\ p.before = q.before
  BY <1>1 DEF ApplyOne, ApplyRefused, UndoOne, UndoRefused, Midst, Req
<1>3. \A t \in q.done : disk[t] = q.plan[t]
  BY <1>2 DEF Written
<1>4. CASE ApplyOne(r)
  <2> DEFINE t == First(q.todo)
  <2>1. t \in q.todo /\ t \in Tools /\ q.pc = "apply"
    BY <1>1, <1>4, FirstAndLast DEF ApplyOne, Req
  <2>2. /\ p.done = q.done \cup {t} /\ p.lost = q.lost /\ q.lost = {}
        /\ \A u \in Tools : disk'[u] = IF u = t THEN q.plan[t] ELSE disk[u]
    BY <1>1, <1>4, <2>1 DEF ApplyOne, Req, Course
  <2>3. disk[t] = q.before[t] /\ t \notin q.done
    BY <2>1 DEF Exact
  <2> HIDE DEF p, q, t
  <2>4. Without(p, disk') = Without(q, disk)
    BY <1>2, <2>1, <2>2, <2>3 DEF Without
  <2>5. q.done \subseteq Tools
    BY <1>1 DEF Req
  <2>6. Written(p, disk')
    BY <1>2, <1>3, <2>1, <2>2, <2>3, <2>5 DEF Written
  <2> QED
    BY <1>2, <2>4, <2>6 DEF p, q
<1>5. CASE ApplyRefused(r) /\ disk' = disk /\ p.lost = q.lost
  <2>1. p.done = q.done
    BY <1>1, <1>5 DEF ApplyRefused, Req
  <2> HIDE DEF p, q
  <2>2. Without(p, disk') = Without(q, disk) /\ Written(p, disk')
    BY <1>2, <1>3, <1>5, <2>1 DEF Without, Written
  <2> QED
    BY <1>2, <2>2 DEF p, q
<1>6. CASE ApplyRefused(r) /\ ~(disk' = disk /\ p.lost = q.lost)
  <2> DEFINE t == First(q.todo)
  <2>1. t \in q.todo /\ t \in Tools /\ q.pc = "apply"
    BY <1>1, <1>6, FirstAndLast DEF ApplyRefused, Req
  <2>2. /\ disk' = [disk EXCEPT ![t] = q.plan[t]]
        /\ req' = [req EXCEPT ![r].lost = {t}, ![r].pc = "undo"]
    BY <1>1, <1>6 DEF ApplyRefused, Req
  <2>3. p.done = q.done /\ p.lost = {t} /\ q.lost = {}
    BY <1>1, <2>1, <2>2 DEF Req, Course
  <2>4. \A u \in Tools : disk'[u] = IF u = t THEN q.plan[t] ELSE disk[u]
    BY <1>1, <2>1, <2>2
  <2>5. disk[t] = q.before[t] /\ t \notin q.done /\ q.done \subseteq Tools
    BY <1>1, <2>1 DEF Exact, Req
  <2> HIDE DEF p, q, t
  <2>6. Without(p, disk') = Without(q, disk)
    BY <1>2, <2>1, <2>3, <2>4, <2>5 DEF Without
  <2>7. Written(p, disk')
    BY <1>2, <1>3, <2>1, <2>3, <2>4, <2>5 DEF Written
  <2> QED
    BY <1>2, <2>6, <2>7 DEF p, q
<1>7. CASE UndoOne(r) \/ UndoRefused(r)
  <2> DEFINE t == Last(q.done)
  <2>1. t \in q.done /\ t \in Tools /\ q.done \subseteq Tools
    BY <1>1, <1>7, FirstAndLast DEF UndoOne, UndoRefused, Req
  <2>2. /\ p.done = q.done \ {t}
        /\ \/ p.lost = q.lost \cup {t}
           \/ p.lost = q.lost /\ disk'[t] = q.before[t]
        /\ \A u \in Tools : u # t => disk'[u] = disk[u]
    <3>1. CASE UndoOne(r)
      BY <1>1, <2>1, <3>1 DEF UndoOne, Req
    <3>2. CASE UndoRefused(r)
      BY <1>1, <2>1, <3>2 DEF UndoRefused, Req
    <3> QED
      BY <1>7, <3>1, <3>2
  <2> HIDE DEF p, q, t
  <2>3. \A u \in Tools :
            (IF u \in p.done \cup p.lost THEN p.before[u] ELSE disk'[u])
                = IF u \in q.done \cup q.lost THEN q.before[u] ELSE disk[u]
    BY <1>2, <2>1, <2>2
  <2>4. Without(p, disk') = Without(q, disk)
    BY <1>2, <2>3 DEF Without
  <2>5. Written(p, disk')
    BY <1>2, <1>3, <2>1, <2>2 DEF Written
  <2> QED
    BY <1>2, <2>4, <2>5 DEF p, q
<1> QED
  BY <1>4, <1>5, <1>6, <1>7

\* With nothing left to do the files are as was asked of them.
LEMMA AsAsked ==
    ASSUME TypeOK, NEW r \in Requests, MeantOf(req[r], disk, snapshot, backups, records, keys),
           Exact(req[r], disk), Applied(r)
    PROVE  \A t \in Tools : disk[t] = Gives(req[r], t, Without(req[r], disk)[t])
<1> USE DEF At, Goto
<1> DEFINE q == req[r]
<1>1. q.pc = "apply" /\ q.todo = {} /\ q.todo \cup q.done = Named(q.plan) /\ q.lost = {}
  BY DEF Applied, Exact, TypeOK, Placed, Course
<1>2. \A t \in q.done : disk[t] = q.plan[t]
  BY <1>1 DEF Exact
<1>3. \A t \in Tools : q.plan[t] = Keep => t \notin q.done /\ Without(q, disk)[t] = disk[t]
  BY <1>1 DEF Named, Without, Midst
<1>4. \A t \in Tools : q.plan[t] # Keep => t \in q.done
  BY <1>1 DEF Named
<1> HIDE DEF q
<1>5. \A t \in Tools : disk[t] = Gives(q, t, Without(q, disk)[t])
  BY <1>2, <1>3, <1>4 DEF Gives
<1> QED
  BY <1>5 DEF q

\* What a switch and a removal leave a file as.
LEMMA SwitchedOrRemoved ==
    ASSUME NEW t \in Tools, NEW f \in File, NEW p \in Providers
    PROVE  /\ Stops(t, SwitchOf(t, f, p)) \/ AsRead(SwitchOf(t, f, p)).sel = p
           /\ AsRead(f).sel # p =>
                 /\ AsRead(RemovalOf(t, f, p)).sel # p
                 /\ t \in Registry => p \notin AsRead(RemovalOf(t, f, p)).reg
<1>1. AsRead(f) \in Config
  BY TapkeyAssumption DEF AsRead, File, Config
<1>2. \A c \in Config : c # Absent
  BY TapkeyAssumption
<1>3. p # None
  BY TapkeyAssumption
<1>4. Stops(t, SwitchOf(t, f, p)) \/ AsRead(SwitchOf(t, f, p)).sel = p
  <2>1. CASE Stops(t, f)
    BY <2>1 DEF SwitchOf
  <2>2. CASE ~Stops(t, f)
    <3> DEFINE c == [AsRead(f) EXCEPT !.sel = p, !.reg = IF t \in Registry THEN @ \cup {p} ELSE @]
    <3>1. c \in Config /\ c.sel = p /\ SwitchOf(t, f, p) = c
      BY <1>1, <1>3, <2>2 DEF SwitchOf, Config
    <3> HIDE DEF c
    <3> QED
      BY <1>2, <3>1 DEF AsRead
  <2> QED
    BY <2>1, <2>2
<1>5. ASSUME AsRead(f).sel # p
      PROVE  /\ AsRead(RemovalOf(t, f, p)).sel # p
             /\ t \in Registry => p \notin AsRead(RemovalOf(t, f, p)).reg
  <2>1. CASE t \notin Registry
    BY <1>5, <2>1 DEF RemovalOf
  <2>2. CASE t \in Registry
    <3> DEFINE c == [AsRead(f) EXCEPT !.reg = @ \ {p}]
    <3>1. c \in Config /\ c.sel # p /\ p \notin c.reg /\ RemovalOf(t, f, p) = c
      BY <1>1, <1>5, <2>2 DEF RemovalOf, Config
    <3> HIDE DEF c
    <3> QED
      BY <1>2, <3>1 DEF AsRead
  <2> QED
    BY <2>1, <2>2
<1> QED
  BY <1>4, <1>5

\* What a call does while it changes the files.
LEMMA ChangingMeant ==
    ASSUME TypeOK, NEW r \in Requests, MeantOf(req[r], disk, snapshot, backups, records, keys),
           Exact(req[r], disk),
           ApplyOne(r) \/ ApplyRefused(r) \/ UndoOne(r) \/ UndoRefused(r) \/ RollBack(r) \/ Applied(r)
    PROVE  MeantOf(req'[r], disk', snapshot', backups', records', keys')
<1> USE DEF At, Goto, Answer
<1> DEFINE q == req[r]
           p == req'[r]
<1>1. /\ req \in [Requests -> Req] /\ q \in Req /\ Course(q) /\ q.pc \in {"apply", "undo"}
      /\ Planned(q, Without(q, disk)) /\ FromStore(q, snapshot, backups)
      /\ Kept(q, snapshot, backups) /\ Entitled(q, records, keys) /\ Written(q, disk)
      /\ snapshot' = snapshot /\ backups' = backups /\ records' = records /\ keys' = keys
  BY DEF TypeOK, Placed, MeantOf, ApplyOne, ApplyRefused, UndoOne, UndoRefused, RollBack, Applied, store
<1>2. CASE RollBack(r)
  <2>1. p.pc = "rolled_back"
    BY <1>1, <1>2 DEF RollBack, Req
  <2> QED
    BY <2>1, NothingMeant DEF MeantOf, Busy, Planning, Locked
<1>3. CASE ApplyOne(r) \/ ApplyRefused(r) \/ UndoOne(r) \/ UndoRefused(r)
  <2>1. /\ Midst(q) /\ Midst(p) /\ p.ask = q.ask /\ p.plan = q.plan /\ p.doc = q.doc
        /\ p.backup = q.backup /\ Without(p, disk') = Without(q, disk) /\ Written(p, disk')
    BY <1>1, <1>3, MidstStays
  <2> HIDE DEF p, q
  <2>2. q.ask.op \in {"switch", "remove"} =>
            \A t \in Tools : /\ Gives(q, t, Without(q, disk)[t]) = Asked(q, t, Without(q, disk)[t])
                             /\ q.ask.op = "remove" => AsRead(Without(q, disk)[t]).sel # q.ask.provider
    BY <1>1 DEF Planned
  <2>3. Planned(p, Without(p, disk'))
    BY <2>1, <2>2 DEF Planned, Gives, Asked, Midst
  <2>4. /\ FromStore(p, snapshot, backups) /\ Kept(p, snapshot, backups)
        /\ Entitled(p, records, keys) /\ Left(p, disk', keys)
    BY <1>1, <2>1 DEF FromStore, Kept, Entitled, Left, Midst, Busy, Locked
  <2> QED
    BY <1>1, <2>1, <2>3, <2>4 DEF MeantOf, p
<1>4. CASE Applied(r)
  <2> DEFINE F == Without(q, disk)
  <2>1. /\ p.ask = q.ask /\ p.plan = q.plan /\ p.doc = q.doc /\ q.pc = "apply"
        /\ p.pc = IF q.ask.op = "remove" THEN "forget" ELSE "record"
        /\ disk' = disk
    BY <1>1, <1>4 DEF Applied, Req
  <2>2. \A t \in Tools : disk[t] = Gives(q, t, F[t])
    BY <1>4, AsAsked
  <2>3. /\ q.ask \in Ask
        /\ q.ask.op = "switch" => q.ask.profile \in Assignment
        /\ q.ask.op = "remove" => q.ask.provider \in Providers
    BY <1>1, AskType DEF Course, Busy, Locked
  <2>4. \A t \in Tools : F[t] \in File
    BY <1>1 DEF TypeOK, Req, Course, Without, Midst
  <2> HIDE DEF F
  <2>5. q.ask.op \in {"switch", "remove"} =>
            \A t \in Tools : /\ disk[t] = Asked(q, t, F[t])
                             /\ q.ask.op = "remove" => AsRead(F[t]).sel # q.ask.provider
    BY <1>1, <2>1, <2>2 DEF Planned, F
  <2>6. ASSUME q.ask.op = "switch", NEW t \in Tools, q.ask.profile[t] # None
        PROVE  Stops(t, disk[t]) \/ AsRead(disk[t]).sel = q.ask.profile[t]
    <3>1. q.ask.profile[t] \in Providers
      BY <2>3, <2>6 DEF Assignment
    <3>2. disk[t] = SwitchOf(t, F[t], q.ask.profile[t])
      BY <2>5, <2>6 DEF Asked
    <3> QED
      BY <2>4, <3>1, <3>2, SwitchedOrRemoved
  <2>7. ASSUME q.ask.op = "remove", NEW t \in Tools
        PROVE  /\ AsRead(disk[t]).sel # q.ask.provider
               /\ t \in Registry => q.ask.provider \notin AsRead(disk[t]).reg
    <3>1. disk[t] = RemovalOf(t, F[t], q.ask.provider) /\ AsRead(F[t]).sel # q.ask.provider
      BY <2>5, <2>7 DEF Asked
    <3> QED
      BY <2>3, <2>4, <2>7, <3>1, SwitchedOrRemoved
  <2>8. Left(p, disk, keys)
    BY <2>1, <2>6, <2>7 DEF Left
  <2>9. /\ Planned(p, Without(p, disk)) /\ FromStore(p, snapshot, backups)
        /\ Kept(p, snapshot, backups) /\ Entitled(p, records, keys) /\ Written(p, disk)
    BY <1>1, <2>1 DEF Planned, FromStore, Kept, Entitled, Written, Midst, Busy, Locked
  <2> QED
    BY <1>1, <2>1, <2>8, <2>9 DEF MeantOf
<1> QED
  BY <1>2, <1>3, <1>4

\* What a call does after the change, and where it ends.
LEMMA AfterMeant ==
    ASSUME TypeOK, NEW r \in Requests, MeantOf(req[r], disk, snapshot, backups, records, keys),
           \/ Record(r) \/ AcceptDrift(r) \/ ReadBack(r) \/ Forget(r) \/ WriteRecords(r) \/ Refuse(r)
           \/ Crash(r)
    PROVE  MeantOf(req'[r], disk', snapshot', backups', records', keys')
<1> USE DEF At, Goto, Answer
<1> DEFINE q == req[r]
           p == req'[r]
<1>1. /\ req \in [Requests -> Req] /\ q \in Req /\ Course(q) /\ Entitled(q, records, keys)
      /\ Left(q, disk, keys) /\ disk' = disk
  BY DEF TypeOK, Placed, MeantOf, Record, AcceptDrift, ReadBack, Forget, WriteRecords, Refuse, Crash
<1>2. CASE p.pc \in Ended
  <2>1. p.pc \notin Busy
    BY <1>2 DEF Busy, Planning, Locked, Ended
  <2> QED
    BY <2>1, NothingMeant DEF MeantOf
<1>3. CASE Record(r) \/ AcceptDrift(r)
  <2>1. /\ p.pc = "readback" /\ p.ask = q.ask /\ p.doc = q.doc /\ q.pc \in Busy /\ q.pc # "check"
        /\ records' = records /\ keys' = keys
    BY <1>1, <1>3 DEF Record, AcceptDrift, Req, Busy, Locked
  <2>2. Planned(p, Without(p, disk)) /\ Entitled(p, records, keys)
    BY <1>1, <2>1 DEF Planned, Entitled
  <2> QED
    BY <1>1, <2>1, <2>2, LittleMeant DEF MeantOf
<1>4. CASE Forget(r) /\ p.pc \notin Ended
  <2>1. /\ p.pc = "records" /\ p.ask = q.ask /\ p.doc = q.doc /\ q.pc = "forget"
        /\ q.ask.op = "remove" /\ records' = records /\ keys' = keys \ {q.ask.provider}
    BY <1>1, <1>4 DEF Forget, Req, Ended, Course
  <2>2. Entitled(p, records, keys') /\ Left(p, disk, keys')
    BY <1>1, <2>1 DEF Entitled, Left, Busy, Locked
  <2>3. /\ Planned(p, Without(p, disk)) /\ FromStore(p, snapshot', backups')
        /\ Kept(p, snapshot', backups') /\ Written(p, disk)
    BY <2>1 DEF Planned, FromStore, Kept, Written, Midst
  <2> QED
    BY <1>1, <2>1, <2>2, <2>3 DEF MeantOf
<1>5. CASE ReadBack(r) \/ WriteRecords(r) \/ Refuse(r) \/ Crash(r)
  <2>1. p.pc \in Ended
    BY <1>1, <1>5 DEF ReadBack, WriteRecords, Refuse, Crash, Req, Ended
  <2> QED
    BY <1>2, <2>1
<1> QED
  BY <1>2, <1>3, <1>4, <1>5

\* Every step keeps to what is meant: the call under way by the lemmas above, the others being at rest.
LEMMA StepMeant ==
    Calm /\ ~Overlapping /\ TypeOK /\ Alone /\ Solo /\ Work /\ Meant /\ Next => Meant'
<1> SUFFICES ASSUME Calm, ~Overlapping, TypeOK, Alone, Solo, Work, Meant, Next
             PROVE  Meant'
  OBVIOUS
<1>1. ASSUME NEW r \in Requests, Step(r)
      PROVE  Meant'
  <2>1. ASSUME NEW x \in Requests, x # r
        PROVE  MeantOf(req'[x], disk', snapshot', backups', records', keys')
    BY <1>1, <2>1, OthersRest, NothingMeant
  <2>2. MeantOf(req[r], disk, snapshot, backups, records, keys) /\ Exact(req[r], disk)
    BY DEF Meant, Work
  <2>3. MeantOf(req'[r], disk', snapshot', backups', records', keys')
    <3>1. CASE Start(r) \/ Cycle(r) \/ CheckKeys(r) \/ PlanSwitch(r) \/ PlanRemoval(r)
      <4>1. Planned(req'[r], Without(req'[r], disk')) /\ Entitled(req'[r], records', keys')
        BY <3>1, PlanningPlanned
      <4>2. req'[r].pc \in {"cycle", "check", "plan", "lock", "refused"}
        <5>1. \A a : Called(a).pc \in {"cycle", "check", "plan", "lock", "refused"}
          BY DEF Called, Idle
        <5>2. req \in [Requests -> Req] /\ req[r] \in Req
          BY DEF TypeOK
        <5>3. CASE Start(r)
          BY <5>1, <5>2, <5>3 DEF Start
        <5>4. CASE Cycle(r)
          BY <5>1, <5>2, <5>4 DEF Cycle, Req, Goto
        <5>5. CASE CheckKeys(r) \/ PlanSwitch(r) \/ PlanRemoval(r)
          BY <5>2, <5>5 DEF CheckKeys, PlanSwitch, PlanRemoval, Req, Goto
        <5> QED
          BY <3>1, <5>3, <5>4, <5>5
      <4>3. CASE req'[r].pc = "refused"
        BY <4>3, NothingMeant DEF Busy, Planning, Locked
      <4> QED
        BY <4>1, <4>2, <4>3, LittleMeant DEF MeantOf
    <3>2. CASE \/ TakeLock(r) \/ Contended(r) \/ ReadStored(r) \/ Capture(r) \/ TakeSnapshot(r)
               \/ TakeBackup(r) \/ ReadBefore(r)
      BY <2>2, <3>2, PreparingMeant
    <3>3. CASE ApplyOne(r) \/ ApplyRefused(r) \/ UndoOne(r) \/ UndoRefused(r) \/ RollBack(r) \/ Applied(r)
      BY <2>2, <3>3, ChangingMeant
    <3>4. CASE \/ Record(r) \/ AcceptDrift(r) \/ ReadBack(r) \/ Forget(r) \/ WriteRecords(r)
               \/ Refuse(r) \/ Crash(r)
      BY <2>2, <3>4, AfterMeant
    <3> QED
      BY <1>1, <3>1, <3>2, <3>3, <3>4 DEF Step, Progress, Fault
  <2> QED
    BY <2>1, <2>3 DEF Meant
<1>2. CASE Edit
  <2>1. \A x \in Requests : req'[x] = req[x] /\ req[x].pc \notin Busy
    BY <1>2, NoEditMeanwhile DEF Edit
  <2> QED
    BY <2>1, NothingMeant DEF Meant
<1> QED
  BY <1>1, <1>2 DEF Next, Step
-----------------------------------------------------------------------------
\* What is seen of the files is the one call's doing.
SeenAsLeft ==
    \A r \in Requests :
        TypeOK /\ Alone /\ (\A x \in Requests : x # r => req[x].pc \notin Busy)
            => Seen = Without(req[r], disk)

\* So it is in every state.
LEMMA SeenOf == SeenAsLeft
<1> SUFFICES ASSUME NEW r \in Requests, TypeOK, Alone,
                    \A x \in Requests : x # r => req[x].pc \notin Busy
             PROVE  Seen = Without(req[r], disk)
  BY DEF SeenAsLeft
<1>1. r # None /\ lock \in Requests \cup {None}
  BY TapkeyAssumption DEF TypeOK
<1>2. \A x \in Requests : Midst(req[x]) => x = r
  BY DEF Midst, Busy, Locked
<1>3. Midst(req[r]) => lock = r
  BY DEF Alone, Midst, Locked
<1> QED
  BY <1>1, <1>2, <1>3 DEF Seen, Without, Midst

\* What a call is about to make of the files is something that may be done to them, and there is a way
\* back from it.
LEMMA IsTarget ==
    ASSUME TypeOK, Work, Meant, NEW r \in Requests, Midst(req[r]), Seen = Without(req[r], disk)
    PROVE  LET new == [t \in Tools |-> Gives(req[r], t, Seen[t])] IN
           new \in OneAfterAnother!Targets /\ OneAfterAnother!BackedUp(new)
<1> DEFINE q == req[r]
           new == [t \in Tools |-> Gives(q, t, Seen[t])]
<1>1. /\ q \in Req /\ Course(q) /\ q.pc \in {"apply", "undo"} /\ q.pc \in Busy
      /\ Planned(q, Seen) /\ FromStore(q, snapshot, backups) /\ Kept(q, snapshot, backups)
      /\ Entitled(q, records, keys) /\ Saved(q, backups) /\ Exact(q, disk)
      /\ q.ask.op = "backup" => q.ask.id \in DOMAIN backups
  BY DEF TypeOK, Placed, Meant, MeantOf, Work, Midst, Busy, Locked
<1>2. q.ask \in Ask /\ q.ask.op \in {"switch", "remove", "snapshot", "backup"}
  BY <1>1 DEF Course
<1>3. \A t \in Tools : /\ OneAfterAnother!Config(t) = AsRead(Seen[t])
                       /\ OneAfterAnother!LeftOut(t) <=> Stops(t, Seen[t])
  BY DEF OneAfterAnother!Config, AsRead, OneAfterAnother!LeftOut, Stops
<1>4. q.ask.op \in {"switch", "remove"} =>
          \A t \in Tools : /\ new[t] = Asked(q, t, Seen[t])
                           /\ q.ask.op = "remove" => AsRead(Seen[t]).sel # q.ask.provider
  BY <1>1 DEF Planned
<1> HIDE DEF q
<1>5. new \in OneAfterAnother!Targets
  <2>1. CASE q.ask.op = "switch"
    <3>1. /\ q.ask.profile \in [Tools -> (records \cap keys) \cup {None}] /\ snapshot # None
      BY <1>1, <2>1 DEF Entitled, Kept
    <3>2. \A t \in Tools : new[t] = SwitchOf(t, Seen[t], q.ask.profile[t])
      BY <1>4, <2>1 DEF Asked
    <3>3. new = OneAfterAnother!Switched(q.ask.profile)
      BY <1>3, <3>2 DEF OneAfterAnother!Switched, SwitchOf
    <3> QED
      BY <3>1, <3>3 DEF OneAfterAnother!Targets
  <2>2. CASE q.ask.op = "remove"
    <3>1. q.ask.provider \in records
      BY <1>1, <2>2 DEF Entitled
    <3>2. \A t \in Tools : new[t] = RemovalOf(t, Seen[t], q.ask.provider)
      BY <1>4, <2>2 DEF Asked
    <3>3. new = OneAfterAnother!Removed(q.ask.provider)
      BY <1>3, <3>2 DEF OneAfterAnother!Removed, RemovalOf
    <3>4. ~OneAfterAnother!Selected(q.ask.provider)
      BY <1>3, <1>4, <2>2 DEF OneAfterAnother!Selected
    <3> QED
      BY <3>1, <3>3, <3>4 DEF OneAfterAnother!Targets
  <2>3. CASE q.ask.op = "snapshot"
    <3>1. snapshot # None /\ q.plan = snapshot
      BY <1>1, <2>3 DEF FromStore
    <3>2. snapshot \in [Tools -> File] /\ Keep \notin File
      BY <3>1, TapkeyAssumption DEF TypeOK
    <3>3. new = snapshot
      BY <3>1, <3>2 DEF Gives
    <3> QED
      BY <3>1, <3>3 DEF OneAfterAnother!Targets
  <2>4. CASE q.ask.op = "backup"
    <3>1. q.plan = backups[q.ask.id] /\ q.ask.id \in DOMAIN backups
      BY <1>1, <2>4 DEF FromStore
    <3>2. new = OneAfterAnother!Returned(backups[q.ask.id])
      BY <3>1 DEF Gives, OneAfterAnother!Returned
    <3> QED
      BY <3>1, <3>2 DEF OneAfterAnother!Targets
  <2> QED
    BY <1>2, <2>1, <2>2, <2>3, <2>4
<1>6. OneAfterAnother!BackedUp(new)
  <2>1. /\ Len(backups) \in DOMAIN backups /\ backups[Len(backups)] = q.before
    BY <1>1, <1>2 DEF Saved, Kept, Changing
  <2>2. backups # << >>
    BY <2>1
  <2>3. ASSUME NEW t \in Tools, new[t] # Seen[t]
        PROVE  q.before[t] = Seen[t]
    <3>1. t \in Named(q.plan)
      BY <2>3 DEF Gives, Named
    <3>2. Seen[t] = IF t \in q.done \cup q.lost THEN q.before[t] ELSE disk[t]
      BY DEF Without, q
    <3>3. t \notin q.done \cup q.lost => disk[t] = q.before[t]
      BY <1>1, <3>1 DEF Exact
    <3> QED
      BY <3>2, <3>3
  <2> HIDE DEF new
  <2> QED
    BY <2>1, <2>2, <2>3 DEF OneAfterAnother!BackedUp
<1> QED
  BY <1>5, <1>6 DEF q

\* A call that is not changing the files, before and after: what is seen is what there is.
LEMMA NotMidst ==
    ASSUME TypeOK, NEW r \in Requests, Seen = Without(req[r], disk), Seen' = Without(req'[r], disk')
    PROVE  /\ ~Midst(req[r]) => Seen = disk
           /\ ~Midst(req'[r]) => Seen' = disk'
BY DEF Without

\* The steps of a call that nobody sees.
LEMMA Unseen ==
    ASSUME TypeOK, Work, Meant, NEW r \in Requests,
           Seen = Without(req[r], disk), Seen' = Without(req'[r], disk'), Mishaps' = Mishaps,
           \/ Start(r) \/ Cycle(r) \/ CheckKeys(r) \/ PlanSwitch(r) \/ PlanRemoval(r)
           \/ TakeLock(r) \/ Contended(r) \/ ReadStored(r) \/ Capture(r) \/ ReadBefore(r)
           \/ ApplyOne(r) \/ ApplyRefused(r) \/ UndoOne(r) \/ UndoRefused(r)
           \/ RollBack(r) /\ req[r].lost = {}
           \/ ReadBack(r) \/ Refuse(r)
    PROVE  UNCHANGED OneAfterAnother!vars
<1> USE DEF At, Goto, Answer
<1>1. req \in [Requests -> Req] /\ req[r] \in Req /\ Course(req[r]) /\ disk \in [Tools -> File]
      /\ Exact(req[r], disk) /\ Written(req[r], disk)
  BY DEF TypeOK, Placed, Work, Meant, MeantOf
<1>2. UNCHANGED <<snapshot, backups, state, records, keys>>
  BY DEF Start, Cycle, CheckKeys, PlanSwitch, PlanRemoval, TakeLock, Contended, ReadStored, Capture, ReadBefore,
         ApplyOne, ApplyRefused, UndoOne, UndoRefused, RollBack, ReadBack, Refuse, store
<1>3. Seen' = Seen
  <2>1. CASE Start(r) \/ Cycle(r) \/ CheckKeys(r) \/ PlanSwitch(r) \/ PlanRemoval(r) \/ TakeLock(r) \/ Contended(r)
    <3>1. disk' = disk /\ ~Midst(req[r])
      BY <2>1 DEF Start, Cycle, CheckKeys, PlanSwitch, PlanRemoval, TakeLock, Contended, Midst
    <3>2. ~Midst(req'[r])
      <4>1. \A a : Called(a).pc \in {"cycle", "check", "plan", "lock", "refused"}
        BY DEF Called, Idle
      <4>2. CASE Start(r)
        BY <1>1, <4>1, <4>2 DEF Start, Midst
      <4>3. CASE Cycle(r)
        BY <1>1, <4>1, <4>3 DEF Cycle, Req, Midst
      <4>4. CASE CheckKeys(r) \/ PlanSwitch(r) \/ PlanRemoval(r) \/ TakeLock(r) \/ Contended(r)
        BY <1>1, <4>4 DEF CheckKeys, PlanSwitch, PlanRemoval, TakeLock, FirstLocked, Contended, Req, Midst
      <4> QED
        BY <2>1, <4>2, <4>3, <4>4
    <3> QED
      BY <3>1, <3>2, NotMidst
  <2>2. CASE ReadStored(r) \/ Capture(r) \/ ReadBack(r) \/ Refuse(r)
    <3>1. disk' = disk /\ req[r].pc \notin {"apply", "undo"} /\ req'[r].pc \notin {"apply", "undo"}
      BY <1>1, <2>2 DEF ReadStored, Capture, ReadBack, Refuse, Req
    <3> QED
      BY <3>1, NotMidst DEF Midst
  <2>3. CASE ReadBefore(r)
    <3>1. /\ disk' = disk /\ ~Midst(req[r]) /\ Midst(req'[r])
          /\ req'[r].done = {} /\ req'[r].lost = {}
      BY <1>1, <2>3 DEF ReadBefore, Req, Midst, Course
    <3>2. Without(req'[r], disk') = disk
      BY <1>1, <3>1 DEF Without
    <3> QED
      BY <3>1, <3>2, NotMidst
  <2>4. CASE ApplyOne(r) \/ ApplyRefused(r) \/ UndoOne(r) \/ UndoRefused(r)
    BY <1>1, <2>4, MidstStays
  <2>5. CASE RollBack(r) /\ req[r].lost = {}
    <3>1. disk' = disk /\ Midst(req[r]) /\ req[r].done = {} /\ ~Midst(req'[r])
      BY <1>1, <2>5 DEF RollBack, Req, Midst
    <3>2. Without(req[r], disk) = disk
      BY <1>1, <2>5, <3>1 DEF Without
    <3> QED
      BY <3>1, <3>2, NotMidst
  <2> QED
    BY <2>1, <2>2, <2>3, <2>4, <2>5
<1> QED
  BY <1>2, <1>3 DEF OneAfterAnother!vars

\* The steps that keep a way back.
LEMMA WayBackKept ==
    ASSUME TypeOK, Work, NEW r \in Requests,
           Seen = Without(req[r], disk), Seen' = Without(req'[r], disk'), Mishaps' = Mishaps,
           TakeSnapshot(r) \/ TakeBackup(r)
    PROVE  [OneAfterAnother!Next]_OneAfterAnother!vars
<1> USE DEF At, Goto, Answer
<1>1. req \in [Requests -> Req] /\ req[r] \in Req /\ Ready(req[r], disk, backups)
  BY DEF TypeOK, Work
<1>2. Seen = disk /\ Seen' = disk /\ UNCHANGED <<state, records, keys, Mishaps>>
  <2>1. ~Midst(req[r]) /\ ~Midst(req'[r]) /\ disk' = disk /\ UNCHANGED <<state, records, keys>>
    BY <1>1 DEF TakeSnapshot, TakeBackup, Req, Midst
  <2> QED
    BY <2>1, NotMidst
<1>3. CASE TakeSnapshot(r)
  <2>1. backups' = backups /\ snapshot' = IF snapshot = None THEN disk ELSE snapshot
    BY <1>3 DEF TakeSnapshot
  <2>2. CASE snapshot = None
    BY <1>2, <2>1, <2>2 DEF OneAfterAnother!Next, OneAfterAnother!TakeSnapshot
  <2>3. CASE snapshot # None
    BY <1>2, <2>1, <2>3 DEF OneAfterAnother!vars
  <2> QED
    BY <2>2, <2>3
<1>4. CASE TakeBackup(r)
  <2>1. snapshot' = snapshot /\ backups' = Append(backups, Only(req[r].plan, disk))
    BY <1>1, <1>4 DEF TakeBackup, Ready
  <2>2. Only(req[r].plan, disk) =
            [t \in Tools |-> IF t \in Named(req[r].plan) THEN Seen[t] ELSE Keep]
    BY <1>2 DEF Only, Named
  <2>3. Named(req[r].plan) \in SUBSET Tools
    BY DEF Named
  <2>4. OneAfterAnother!TakeBackup
    BY <1>2, <2>1, <2>2, <2>3 DEF OneAfterAnother!TakeBackup
  <2> QED
    BY <2>4 DEF OneAfterAnother!Next
<1> QED
  BY <1>3, <1>4

\* The moment of the change.
LEMMA ChangedAtOnce ==
    ASSUME TypeOK, Work, Meant, NEW r \in Requests,
           Seen = Without(req[r], disk), Seen' = Without(req'[r], disk'), Mishaps' = Mishaps,
           Applied(r)
    PROVE  [OneAfterAnother!Next]_OneAfterAnother!vars
<1> USE DEF At, Goto
<1> DEFINE q == req[r]
           new == [t \in Tools |-> Gives(q, t, Seen[t])]
<1>1. /\ req \in [Requests -> Req] /\ q \in Req /\ Exact(q, disk) /\ Midst(q)
      /\ MeantOf(q, disk, snapshot, backups, records, keys)
      /\ disk' = disk /\ UNCHANGED <<snapshot, backups, state, records, keys>>
  BY DEF TypeOK, Work, Meant, Applied, store, Midst
<1>2. Seen' = disk
  <2>1. ~Midst(req'[r])
    BY <1>1 DEF Applied, Req, Midst
  <2> QED
    BY <1>1, <2>1, NotMidst
<1>3. new \in OneAfterAnother!Targets /\ OneAfterAnother!BackedUp(new)
  BY <1>1, IsTarget
<1>4. \A t \in Tools : disk[t] = new[t]
  BY <1>1, AsAsked
<1>5. disk = new
  BY <1>4 DEF TypeOK
<1> HIDE DEF new
<1>6. CASE Seen' # Seen
  <2>1. OneAfterAnother!Change
    BY <1>1, <1>2, <1>3, <1>5, <1>6 DEF OneAfterAnother!Change
  <2> QED
    BY <2>1 DEF OneAfterAnother!Next
<1>7. CASE Seen' = Seen
  BY <1>1, <1>7 DEF OneAfterAnother!vars
<1> QED
  BY <1>6, <1>7

\* A call that dies, or whose rollback is refused a file, has its mishap then; no other step is one.
LEMMA WhenMishaps ==
    ASSUME TypeOK, NEW r \in Requests, Step(r), \A x \in Requests : x # r => req'[x] = req[x]
    PROVE  IF Crash(r) \/ (RollBack(r) /\ req[r].lost # {})
           THEN r \notin Mishaps /\ Mishaps' = Mishaps \cup {r}
           ELSE Mishaps' = Mishaps
<1> USE DEF At, Goto, Answer
<1> DEFINE Bad(q) == q.pc = "dead" \/ (q.pc = "rolled_back" /\ q.lost # {})
<1>1. req \in [Requests -> Req] /\ req[r] \in Req
  BY DEF TypeOK
<1>2. req[r].pc \notin {"dead", "rolled_back"}
  BY DEF Step, Progress, Fault, Start, Cycle, CheckKeys, PlanSwitch, PlanRemoval, TakeLock, Contended,
         ReadStored, Capture, TakeSnapshot, TakeBackup, ReadBefore, ApplyOne, ApplyRefused, UndoOne,
         UndoRefused, RollBack, Applied, Record, AcceptDrift, ReadBack, Forget, WriteRecords, Refuse,
         Crash, Busy, Planning, Locked
<1>3. CASE Crash(r) \/ RollBack(r)
  <2>1. /\ Crash(r) => req'[r].pc = "dead"
        /\ RollBack(r) => req'[r].pc = "rolled_back" /\ req'[r].lost = req[r].lost
        /\ Crash(r) => ~RollBack(r) \/ req'[r].pc = "dead"
    BY <1>1 DEF Crash, RollBack, Req
  <2> QED
    BY <1>2, <1>3, <2>1 DEF Mishaps
<1>4. CASE ~Crash(r) /\ ~RollBack(r)
  <2>1. \A a : Called(a).pc \notin {"dead", "rolled_back"}
    BY DEF Called, Idle
  <2>2. req'[r].pc \notin {"dead", "rolled_back"}
    <3>1. CASE Start(r) \/ Cycle(r)
      BY <1>1, <2>1, <3>1 DEF Start, Cycle, Req
    <3>2. CASE \/ CheckKeys(r) \/ PlanSwitch(r) \/ PlanRemoval(r) \/ TakeLock(r) \/ Contended(r)
               \/ ReadStored(r) \/ Capture(r) \/ TakeSnapshot(r) \/ TakeBackup(r) \/ ReadBefore(r)
      BY <1>1, <3>2 DEF CheckKeys, PlanSwitch, PlanRemoval, TakeLock, FirstLocked, Contended, ReadStored,
                        Capture, TakeSnapshot, TakeBackup, ReadBefore, Req
    <3>3. CASE \/ ApplyOne(r) \/ ApplyRefused(r) \/ UndoOne(r) \/ UndoRefused(r) \/ Applied(r)
               \/ Record(r) \/ AcceptDrift(r) \/ ReadBack(r) \/ Forget(r) \/ WriteRecords(r)
               \/ Refuse(r)
      BY <1>1, <3>3 DEF ApplyOne, ApplyRefused, UndoOne, UndoRefused, Applied, Record, AcceptDrift,
                        ReadBack, Forget, WriteRecords, Refuse, Req
    <3> QED
      BY <1>4, <3>1, <3>2, <3>3 DEF Step, Progress, Fault
  <2> QED
    BY <1>2, <1>4, <2>2 DEF Mishaps
<1> QED
  BY <1>3, <1>4

\* A mishap.
LEMMA Torn ==
    ASSUME TypeOK, Work, Meant, NEW r \in Requests,
           Seen = Without(req[r], disk), Seen' = Without(req'[r], disk'),
           r \notin Mishaps, Mishaps' = Mishaps \cup {r},
           Crash(r) \/ RollBack(r)
    PROVE  [OneAfterAnother!Next]_OneAfterAnother!vars
<1> USE DEF At, Goto, Answer
<1> DEFINE q == req[r]
           new == [t \in Tools |-> Gives(q, t, Seen[t])]
<1>1. /\ req \in [Requests -> Req] /\ q \in Req /\ Course(q) /\ Exact(q, disk)
      /\ disk' = disk /\ UNCHANGED <<snapshot, backups, state, records, keys>>
  BY DEF TypeOK, Placed, Work, Crash, RollBack, store
<1>2. Seen' = disk
  <2>1. ~Midst(req'[r])
    BY <1>1 DEF Crash, RollBack, Req, Midst
  <2> QED
    BY <1>1, <2>1, NotMidst
<1>3. OneAfterAnother!Mishap
  BY DEF OneAfterAnother!Mishap
<1>4. CASE ~Midst(q)
  <2>1. Seen = disk
    BY <1>4, NotMidst
  <2>2. OneAfterAnother!Die
    BY <1>1, <1>2, <1>3, <2>1 DEF OneAfterAnother!Die
  <2> QED
    BY <2>2 DEF OneAfterAnother!Next
<1>5. CASE Midst(q)
  <2>1. new \in OneAfterAnother!Targets /\ OneAfterAnother!BackedUp(new)
    BY <1>5, IsTarget
  <2>2. ASSUME NEW t \in Tools
        PROVE  disk[t] \in {Seen[t], new[t]}
    <3>1. CASE t \in q.done \cup q.lost
      <4>1. t \in Named(q.plan) /\ Seen[t] = q.before[t]
        BY <1>1, <1>5, <3>1 DEF Course, Midst, Without
      <4>2. new[t] = q.plan[t]
        BY <4>1 DEF Named, Gives
      <4>3. disk[t] = q.before[t] \/ disk[t] = q.plan[t]
        BY <1>1, <1>5, <4>1 DEF Exact, Midst
      <4> QED
        BY <4>1, <4>2, <4>3
    <3>2. CASE t \notin q.done \cup q.lost
      BY <1>5, <3>2 DEF Without
    <3> QED
      BY <3>1, <3>2
  <2>3. DOMAIN disk = Tools
    BY DEF TypeOK
  <2> HIDE DEF new
  <2>4. OneAfterAnother!Tear
    BY <1>1, <1>2, <1>3, <2>1, <2>2, <2>3 DEF OneAfterAnother!Tear
  <2> QED
    BY <2>4 DEF OneAfterAnother!Next
<1> QED
  BY <1>4, <1>5

\* What is remembered after the change.
LEMMA Remembered ==
    ASSUME TypeOK, Work, Meant, NEW r \in Requests,
           Seen = Without(req[r], disk), Seen' = Without(req'[r], disk'), Mishaps' = Mishaps,
           Record(r) \/ AcceptDrift(r) \/ Forget(r) \/ WriteRecords(r)
    PROVE  [OneAfterAnother!Next]_OneAfterAnother!vars
<1> USE DEF At, Goto, Answer
<1> DEFINE q == req[r]
<1>1. /\ req \in [Requests -> Req] /\ q \in Req /\ Course(q) /\ Exact(q, disk) /\ q.pc \in Busy
      /\ FromStore(q, snapshot, backups) /\ Entitled(q, records, keys) /\ Left(q, disk, keys)
      /\ disk' = disk /\ UNCHANGED <<snapshot, backups, Mishaps>>
  BY DEF TypeOK, Placed, Work, Meant, MeantOf, Record, AcceptDrift, Forget, WriteRecords, store, Busy,
         Locked
<1>2. Seen = disk /\ Seen' = disk
  <2>1. ~Midst(q) /\ ~Midst(req'[r])
    BY <1>1 DEF Record, AcceptDrift, Forget, WriteRecords, Req, Midst
  <2> QED
    BY <1>1, <2>1, NotMidst
<1>3. \A t \in Tools : /\ OneAfterAnother!Config(t) = AsRead(disk[t])
                       /\ OneAfterAnother!LeftOut(t) <=> Stops(t, disk[t])
  BY <1>2 DEF OneAfterAnother!Config, AsRead, OneAfterAnother!LeftOut, Stops
<1>4. q.ask \in Ask /\ (q.ask.op = "accept" => q.ask.tool \in Tools)
  BY <1>1, AskType DEF Course
<1>5. CASE UNCHANGED <<state, records, keys>>
  BY <1>1, <1>2, <1>5 DEF OneAfterAnother!vars
<1>6. CASE Record(r) /\ state' # state
  <2>1. q.pc = "record" /\ state' = Fingerprints(q.ask) /\ UNCHANGED <<records, keys>>
    BY <1>6 DEF Record
  <2>2. CASE q.ask.op = "switch"
    <3>1. state' = q.ask.profile
      BY <2>1, <2>2 DEF Fingerprints
    <3>2. /\ q.ask.profile \in [Tools -> (records \cap keys) \cup {None}]
          /\ \E t \in Tools : q.ask.profile[t] # None
      BY <1>1, <2>1, <2>2 DEF Entitled
    <3>3. q.ask.profile \in OneAfterAnother!Profiles
      BY <3>2 DEF OneAfterAnother!Profiles, TypeOK
    <3>4. \A t \in Tools : \/ q.ask.profile[t] = None \/ OneAfterAnother!LeftOut(t)
                           \/ OneAfterAnother!Config(t).sel = q.ask.profile[t]
      BY <1>1, <1>3, <2>1, <2>2 DEF Left
    <3> HIDE DEF q
    <3>5. OneAfterAnother!Own
      BY <1>1, <1>2, <2>1, <3>1, <3>2, <3>3, <3>4 DEF OneAfterAnother!Own
    <3> QED
      BY <3>5 DEF OneAfterAnother!Next
  <2>3. CASE q.ask.op = "snapshot"
    <3>1. snapshot # None /\ q.plan = snapshot
      BY <1>1, <2>1, <2>3 DEF FromStore
    <3>2. snapshot \in [Tools -> File] /\ Keep \notin File
      BY <3>1, TapkeyAssumption DEF TypeOK
    <3>3. \A t \in Tools : disk[t] = snapshot[t]
      BY <1>1, <2>1, <3>1, <3>2 DEF Exact, Named
    <3>4. disk = snapshot
      BY <3>2, <3>3 DEF TypeOK
    <3>5. OneAfterAnother!Disown
      BY <1>1, <1>2, <2>1, <2>3, <3>4 DEF OneAfterAnother!Disown, Fingerprints
    <3> QED
      BY <3>5 DEF OneAfterAnother!Next
  <2>4. q.ask.op \in {"switch", "snapshot"}
    BY <1>6, <2>1 DEF Fingerprints
  <2> QED
    BY <2>2, <2>3, <2>4
<1>7. CASE AcceptDrift(r) /\ state' # state
  <2> DEFINE t == q.ask.tool
  <2>1. /\ q.pc = "accept" /\ state[t] # None /\ Live(t).sel # Nobody
        /\ state' = [state EXCEPT ![t] = Live(t).sel] /\ UNCHANGED <<records, keys>>
    BY <1>7 DEF AcceptDrift
  <2>2. t \in Tools
    BY <1>1, <1>4, <2>1 DEF Course
  <2>3. Live(t) = OneAfterAnother!Config(t)
    BY <1>3, <2>2 DEF Live, AsRead
  <2> HIDE DEF t
  <2>4. OneAfterAnother!Accept
    BY <1>1, <1>2, <2>1, <2>2, <2>3 DEF OneAfterAnother!Accept
  <2> QED
    BY <2>4 DEF OneAfterAnother!Next
<1>8. CASE Forget(r) /\ keys' # keys
  <2> DEFINE p == q.ask.provider
  <2>1. q.pc = "forget" /\ keys' = keys \ {p} /\ UNCHANGED <<state, records>>
    BY <1>8 DEF Forget, store
  <2>2. p \in records /\ q.ask.op = "remove"
    BY <1>1, <2>1 DEF Entitled, Course
  <2>3. ~OneAfterAnother!Selected(p) /\ ~OneAfterAnother!Registered(p)
    BY <1>1, <1>3, <2>1, TapkeyAssumption DEF Left, OneAfterAnother!Selected, OneAfterAnother!Registered
  <2> HIDE DEF p
  <2>4. OneAfterAnother!ForgetKey
    BY <1>1, <1>2, <2>1, <2>2, <2>3 DEF OneAfterAnother!ForgetKey
  <2> QED
    BY <2>4 DEF OneAfterAnother!Next
<1>9. CASE WriteRecords(r) /\ records' # records
  <2> DEFINE p == q.ask.provider
  <2>1. q.pc = "records" /\ records' = q.doc \ {p} /\ UNCHANGED <<state, keys>>
    BY <1>9 DEF WriteRecords, store
  <2>2. p \in records /\ q.doc = records /\ p \notin keys
    BY <1>1, <2>1 DEF Entitled, Course, Left
  <2>3. ~OneAfterAnother!Selected(p) /\ ~OneAfterAnother!Registered(p)
    BY <1>1, <1>3, <2>1, TapkeyAssumption DEF Left, OneAfterAnother!Selected, OneAfterAnother!Registered
  <2> HIDE DEF p
  <2>4. OneAfterAnother!DropRecord
    BY <1>1, <1>2, <2>1, <2>2, <2>3 DEF OneAfterAnother!DropRecord
  <2> QED
    BY <2>4 DEF OneAfterAnother!Next
<1>10. \/ Record(r) /\ UNCHANGED <<records, keys>>
       \/ AcceptDrift(r) /\ UNCHANGED <<records, keys>>
       \/ Forget(r) /\ UNCHANGED <<state, records>>
       \/ WriteRecords(r) /\ UNCHANGED <<state, keys>>
  BY DEF Record, AcceptDrift, Forget, WriteRecords, store
<1> QED
  BY <1>5, <1>6, <1>7, <1>8, <1>9, <1>10

\* Every step does what Calls allows, or is not seen.
LEMMA StepCalls ==
    Calm /\ ~Overlapping /\ TypeOK /\ TypeOK' /\ Alone /\ Alone' /\ Solo /\ Work /\ Meant /\ Next
        => [OneAfterAnother!Next]_OneAfterAnother!vars
<1> SUFFICES ASSUME Calm, ~Overlapping, TypeOK, TypeOK', Alone, Alone', Solo, Work, Meant, Next
             PROVE  [OneAfterAnother!Next]_OneAfterAnother!vars
  OBVIOUS
<1>1. ASSUME NEW r \in Requests, Step(r)
      PROVE  [OneAfterAnother!Next]_OneAfterAnother!vars
  <2>1. \A x \in Requests : x # r => req'[x] = req[x] /\ req[x].pc \notin Busy
    BY <1>1, OthersRest
  <2>2. Seen = Without(req[r], disk)
    BY <2>1, SeenOf DEF SeenAsLeft
  <2>3. Seen' = Without(req'[r], disk')
    <3>1. \A x \in Requests : x # r => req'[x].pc \notin Busy
      BY <2>1
    <3>2. SeenAsLeft'
      BY SeenOf, PTL
    <3> QED
      BY <3>1, <3>2 DEF SeenAsLeft
  <2>4. IF Crash(r) \/ (RollBack(r) /\ req[r].lost # {})
        THEN r \notin Mishaps /\ Mishaps' = Mishaps \cup {r}
        ELSE Mishaps' = Mishaps
    BY <1>1, <2>1, WhenMishaps
  <2>5. CASE Crash(r) \/ (RollBack(r) /\ req[r].lost # {})
    BY <2>2, <2>3, <2>4, <2>5, Torn
  <2>6. CASE ~(Crash(r) \/ (RollBack(r) /\ req[r].lost # {}))
    <3>1. Mishaps' = Mishaps
      BY <2>4, <2>6
    <3>2. CASE \/ Start(r) \/ Cycle(r) \/ CheckKeys(r) \/ PlanSwitch(r) \/ PlanRemoval(r)
               \/ TakeLock(r) \/ Contended(r) \/ ReadStored(r) \/ Capture(r) \/ ReadBefore(r)
               \/ ApplyOne(r) \/ ApplyRefused(r) \/ UndoOne(r) \/ UndoRefused(r)
               \/ RollBack(r) /\ req[r].lost = {}
               \/ ReadBack(r) \/ Refuse(r)
      BY <2>2, <2>3, <3>1, <3>2, Unseen
    <3>3. CASE TakeSnapshot(r) \/ TakeBackup(r)
      BY <2>2, <2>3, <3>1, <3>3, WayBackKept
    <3>4. CASE Applied(r)
      BY <2>2, <2>3, <3>1, <3>4, ChangedAtOnce
    <3>5. CASE Record(r) \/ AcceptDrift(r) \/ Forget(r) \/ WriteRecords(r)
      BY <2>2, <2>3, <3>1, <3>5, Remembered
    <3> QED
      BY <1>1, <2>6, <3>2, <3>3, <3>4, <3>5 DEF Step, Progress, Fault
  <2> QED
    BY <2>5, <2>6
<1>2. CASE Edit
  <2>1. (\A x \in Requests : req[x].pc \notin Busy) /\ req' = req /\ lock' = lock
    BY <1>2, NoEditMeanwhile DEF Edit
  <2>2. Seen = disk /\ Seen' = disk' /\ Mishaps' = Mishaps
    BY <2>1 DEF Seen, Mishaps, TypeOK, Busy, Locked
  <2>3. OneAfterAnother!Edit
    BY <1>2, <2>2 DEF Edit, OneAfterAnother!Edit, store
  <2> QED
    BY <2>3 DEF OneAfterAnother!Next
<1> QED
  BY <1>1, <1>2 DEF Next, Step

\* One call after another, and nobody else writing meanwhile: whatever is refused on the way, each call
\* does all of what was asked to the files at one moment, from what they hold then and after a way back
\* was kept, or does nothing to them, and remembers only what is so.  Only a call that dies, or whose
\* rollback is refused a file, may leave some files old and some new, and it does so once.
THEOREM CallsDoAsAsked ==
    ASSUME Calm, ~Overlapping
    PROVE  Spec => DoesAsAsked
<1>1. Init => Meant /\ OneAfterAnother!Init
  <2> SUFFICES ASSUME Init
               PROVE  Meant /\ OneAfterAnother!Init
    OBVIOUS
  <2>1. Meant
    BY NothingMeant DEF Init, Meant, Idle, Busy, Planning, Locked
  <2>2. Seen = disk /\ Mishaps = {}
    BY DEF Init, Seen, Mishaps, Idle
  <2>3. disk \in [Tools -> OneAfterAnother!File]
    BY TapkeyAssumption DEF Init, OneAfterAnother!File, File, Config
  <2> QED
    BY <2>1, <2>2, <2>3 DEF Init, OneAfterAnother!Init
<1>2. TypeOK /\ Alone /\ Solo /\ Work /\ Meant /\ [Next]_vars => Meant'
  <2>1. Meant /\ UNCHANGED vars => Meant'
    BY DEF vars, store, Meant
  <2> QED
    BY <2>1, StepMeant
<1>3. TypeOK /\ TypeOK' /\ Alone /\ Alone' /\ Solo /\ Work /\ Meant /\ [Next]_vars
          => [OneAfterAnother!Next]_OneAfterAnother!vars
  <2>1. UNCHANGED vars => UNCHANGED OneAfterAnother!vars
    BY DEF vars, store, OneAfterAnother!vars, Seen, Mishaps
  <2> QED
    BY <2>1, StepCalls
<1> QED
  BY <1>1, <1>2, <1>3, SoloHolds, PTL DEF Spec, DoesAsAsked, OneAfterAnother!Spec
=============================================================================
