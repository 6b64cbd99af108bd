---------------------------- MODULE HelperProofs ----------------------------
(***************************************************************************)
(* What holds of the helper and of its replacement for any number of       *)
(* launches and of calls, any versions and keys, and whatever is refused.  *)
(***************************************************************************)
EXTENDS Helper, TLAPS

\* A launch's record and a call's.
Progressed == Launching \cup Launched \cup {"idle"}
Launchers == [pc : Progressed, want : Versions \cup {None}, file : Files \cup {None}, lax : BOOLEAN]
Calls ==
    [pc : Running \cup Answers \cup {"idle"}, op : Operations \cup {None}, key : Keys \cup {NoKey},
     stdin : {"ended", "open"}, seen : SUBSET (Keys \cup {NoKey})]

\* The type of the two halves of the state.
SwapTypeOK ==
    /\ bin \in [{"exe", "new"} -> Files \cup {None}]
    /\ image \in [Files -> [bytes : Versions \cup {Torn}, exec : BOOLEAN]]
    /\ launch \in [Launches -> Launchers]
    /\ met \subseteq Launches
    /\ \A l \in Launches : launch[l].pc \in Launching => launch[l].want \in Versions

VaultTypeOK ==
    /\ kind \in {"platform", "files"}
    /\ secrets \in [Places -> Keys \cup {NoKey}]
    /\ call \in [Callers -> Calls]
    /\ \A c \in Callers : call[c].pc \in Running => call[c].op \in Operations

\* A launch's own file is not there before the launch has made it.
Fresh ==
    \A l \in Launches : launch[l].pc \in {"idle", "compare", "open"} =>
        /\ bin["exe"] # l /\ bin["new"] # l
        /\ \A k \in Launches : launch[k].file # l

\* The helper and the file staged are two files.
Apart == bin["exe"] # None => bin["exe"] # bin["new"]

\* Two launches at once know of each other.
Overlapping ==
    \A l, k \in Launches : l # k /\ launch[l].pc \in Launching /\ launch[k].pc \in Launching => l \in met

\* What a launch that met no other has staged.
Staged ==
    \A l \in Launches \ met :
        /\ launch[l].pc = "fill" =>
              /\ launch[l].file # None /\ bin["new"] = launch[l].file
              /\ image[launch[l].file].bytes = Torn
        /\ launch[l].pc \in {"chmod", "aside", "swap"} =>
              /\ bin["new"] # None /\ image[bin["new"]].bytes = launch[l].want
        /\ launch[l].pc \in {"aside", "swap"} /\ ~launch[l].lax => image[bin["new"]].exec

\* A helper that is gone is gone for a launch that stands between its renames, or fell there.
Whole ==
    met = {} =>
        /\ bin["exe"] # None => image[bin["exe"]].bytes \in Versions
        /\ bin["exe"] = None => \A l \in Launches : launch[l].pc = "done" =>
              \E k \in Launches : launch[k].pc \in {"swap", "cut_off"}

\* A call has seen every key its place has held.
Seeing == \A c \in Callers : call[c].pc \in Running => secrets[Place(call[c].op)] \in call[c].seen

\* Only forget comes to remove.
Removing == \A c \in Callers : call[c].pc = "remove" => call[c].op = "forget"

IInv ==
    /\ SwapTypeOK /\ VaultTypeOK
    /\ Fresh /\ Apart /\ Overlapping /\ Staged /\ Whole
    /\ Seeing /\ Removing
-----------------------------------------------------------------------------
(* The two halves of the state have nothing to do with each other but that a call runs the helper. *)

\* None is no launch and no file.
LEMMA NoneIsNone == None \notin Launches /\ None \notin Files /\ Launches \subseteq Files
  BY HelperAssumption DEF Files

\* A call changes no file and no launch.
LEMMA CallsKeepSwap ==
    ASSUME NEW c \in Callers, Ask(c) \/ EndStdin(c) \/ CallRefused(c) \/ Progress(c)
    PROVE  UNCHANGED swap
  BY DEF Ask, EndStdin, CallRefused, Progress, Spawn, ReadStdin, Look, Store, LookToForget, Remove

\* A launch changes no key and no call.
LEMMA LaunchesKeepVault ==
    ASSUME NEW l \in Launches,
           \/ Launch(l) \/ Compare(l) \/ OpenStaging(l) \/ Fill(l) \/ Chmod(l) \/ Aside(l) \/ Swap(l)
           \/ CutOff(l)
    PROVE  UNCHANGED vault
  BY DEF Launch, Compare, OpenStaging, Fill, Chmod, Aside, Swap, CutOff

\* One launch's record is replaced by another.
LEMMA Moved ==
    ASSUME IInv, NEW l \in Launches, NEW n, launch' = [launch EXCEPT ![l] = n],
           n \in Launchers, n.pc \in Launching => n.want \in Versions
    PROVE  /\ launch' \in [Launches -> Launchers]
           /\ \A k \in Launches : launch'[k].pc \in Launching => launch'[k].want \in Versions
           /\ launch'[l] = n /\ \A k \in Launches \ {l} : launch'[k] = launch[k]
  BY DEF IInv, SwapTypeOK

\* A launch goes on.
LEMMA Stepped ==
    ASSUME IInv, NEW l \in Launches, NEW from \in Launching, NEW to \in Launching, Step(l, from, to)
    PROVE  /\ launch' \in [Launches -> Launchers]
           /\ \A k \in Launches : launch'[k].pc \in Launching => launch'[k].want \in Versions
           /\ launch'[l] = [launch[l] EXCEPT !.pc = to]
           /\ \A k \in Launches \ {l} : launch'[k] = launch[k]
<1>1. launch[l] \in Launchers /\ launch[l].want \in Versions
  BY DEF IInv, SwapTypeOK, Step
<1>2. [launch[l] EXCEPT !.pc = to] \in Launchers
  BY <1>1 DEF Launchers, Progressed
<1>3. [launch[l] EXCEPT !.pc = to].want \in Versions
  BY <1>1 DEF Launchers
<1>4. launch' = [launch EXCEPT ![l] = [launch[l] EXCEPT !.pc = to]]
  BY DEF Step, IInv, SwapTypeOK
<1> QED
  BY <1>2, <1>3, <1>4, Moved

\* A launch ends.
LEMMA Ended ==
    ASSUME IInv, NEW l \in Launches, NEW from, NEW how \in Launched, End(l, from, how)
    PROVE  /\ launch' \in [Launches -> Launchers]
           /\ \A k \in Launches : launch'[k].pc \in Launching => launch'[k].want \in Versions
           /\ launch'[l] = [pc |-> how, want |-> None, file |-> None, lax |-> FALSE]
           /\ \A k \in Launches \ {l} : launch'[k] = launch[k]
<1>1. NotLaunching(how) \in Launchers /\ NotLaunching(how).pc \notin Launching
  BY DEF NotLaunching, Launchers, Progressed, Launched, Launching
<1>2. launch' = [launch EXCEPT ![l] = NotLaunching(how)]
  BY DEF End
<1> QED
  BY <1>1, <1>2, Moved DEF NotLaunching
-----------------------------------------------------------------------------
(* One lemma for each part of the invariant, one step for each action. *)

\* The types of the files and the launches are kept.
LEMMA StepSwapTypeOK ==
    ASSUME IInv, [Next]_vars
    PROVE  SwapTypeOK'
<1> USE HelperAssumption, NoneIsNone
<1>1. CASE UNCHANGED vars
  BY <1>1 DEF vars, swap, vault, IInv, SwapTypeOK, Launchers, Progressed, Launching, Launched
<1>2. ASSUME NEW l \in Launches, Launch(l) PROVE SwapTypeOK'
  <2>1. PICK v \in Versions : launch' = [launch EXCEPT ![l].pc = "compare", ![l].want = v]
    BY <1>2 DEF Launch
  <2>2. launch[l] \in Launchers
    BY DEF IInv, SwapTypeOK
  <2>3. PICK n : n = [launch[l] EXCEPT !.pc = "compare", !.want = v]
    OBVIOUS
  <2>4. n \in Launchers /\ n.want \in Versions
    BY <2>2, <2>3 DEF Launchers, Progressed, Launching
  <2>5. launch' = [launch EXCEPT ![l] = n]
    BY <2>1, <2>3 DEF IInv, SwapTypeOK
  <2>6. /\ launch' \in [Launches -> Launchers]
        /\ \A k \in Launches : launch'[k].pc \in Launching => launch'[k].want \in Versions
    BY <2>4, <2>5, Moved
  <2>7. met' \subseteq Launches
    BY <1>2 DEF Launch, IInv, SwapTypeOK
  <2> QED
    BY <1>2, <2>6, <2>7 DEF Launch, IInv, SwapTypeOK
<1>3. ASSUME NEW l \in Launches, Compare(l) PROVE SwapTypeOK'
  <2>1. /\ launch' \in [Launches -> Launchers]
        /\ \A k \in Launches : launch'[k].pc \in Launching => launch'[k].want \in Versions
    BY <1>3, Stepped, Ended DEF Compare, Launching, Launched
  <2> QED
    BY <1>3, <2>1 DEF Compare, IInv, SwapTypeOK
<1>4. ASSUME NEW l \in Launches, OpenStaging(l) PROVE SwapTypeOK'
  <2>1. PICK f \in Files :
            /\ bin' = [bin EXCEPT !["new"] = f]
            /\ image' = [image EXCEPT ![f].bytes = Torn]
            /\ launch' = [launch EXCEPT ![l].pc = "fill", ![l].file = f]
    BY <1>4 DEF OpenStaging, IInv, SwapTypeOK
  <2>2. launch[l] \in Launchers /\ launch[l].want \in Versions
    BY <1>4 DEF OpenStaging, IInv, SwapTypeOK, Launching
  <2>3. PICK n : n = [launch[l] EXCEPT !.pc = "fill", !.file = f]
    OBVIOUS
  <2>4. n \in Launchers /\ n.want \in Versions
    BY <2>2, <2>3 DEF Launchers, Progressed, Launching
  <2>5. launch' = [launch EXCEPT ![l] = n]
    BY <2>1, <2>3 DEF IInv, SwapTypeOK
  <2>6. /\ launch' \in [Launches -> Launchers]
        /\ \A k \in Launches : launch'[k].pc \in Launching => launch'[k].want \in Versions
    BY <2>4, <2>5, Moved
  <2>7. image' \in [Files -> [bytes : Versions \cup {Torn}, exec : BOOLEAN]]
    BY <2>1 DEF IInv, SwapTypeOK
  <2>8. bin' \in [{"exe", "new"} -> Files \cup {None}]
    BY <2>1 DEF IInv, SwapTypeOK
  <2> QED
    BY <1>4, <2>6, <2>7, <2>8 DEF OpenStaging, IInv, SwapTypeOK
<1>5. ASSUME NEW l \in Launches, Fill(l) PROVE SwapTypeOK'
  <2>1. /\ launch' \in [Launches -> Launchers]
        /\ \A k \in Launches : launch'[k].pc \in Launching => launch'[k].want \in Versions
    BY <1>5, Stepped DEF Fill, Launching
  <2>2. launch[l].want \in Versions
    BY <1>5 DEF Fill, Step, IInv, SwapTypeOK, Launching
  <2>3. PICK b \in Versions \cup {Torn} : image' = [image EXCEPT ![launch[l].file].bytes = b]
    BY <1>5, <2>2 DEF Fill
  <2>4. image' \in [Files -> [bytes : Versions \cup {Torn}, exec : BOOLEAN]]
    BY <2>3 DEF IInv, SwapTypeOK
  <2> QED
    BY <1>5, <2>1, <2>4 DEF Fill, IInv, SwapTypeOK
<1>6. ASSUME NEW l \in Launches, Chmod(l) PROVE SwapTypeOK'
  <2>1. PICK made \in BOOLEAN :
            /\ launch' = [launch EXCEPT ![l].pc = "aside", ![l].lax = ~made]
            /\ image' = IF made /\ bin["new"] # None
                        THEN [image EXCEPT ![bin["new"]].exec = TRUE] ELSE image
    BY <1>6 DEF Chmod
  <2>2. launch[l] \in Launchers /\ launch[l].want \in Versions
    BY <1>6 DEF Chmod, IInv, SwapTypeOK, Launching
  <2>3. PICK n : n = [launch[l] EXCEPT !.pc = "aside", !.lax = ~made]
    OBVIOUS
  <2>4. n \in Launchers /\ n.want \in Versions
    BY <2>2, <2>3 DEF Launchers, Progressed, Launching
  <2>5. launch' = [launch EXCEPT ![l] = n]
    BY <2>1, <2>3 DEF IInv, SwapTypeOK
  <2>6. /\ launch' \in [Launches -> Launchers]
        /\ \A k \in Launches : launch'[k].pc \in Launching => launch'[k].want \in Versions
    BY <2>4, <2>5, Moved
  <2>7. image' \in [Files -> [bytes : Versions \cup {Torn}, exec : BOOLEAN]]
    BY <2>1 DEF IInv, SwapTypeOK
  <2> QED
    BY <1>6, <2>6, <2>7 DEF Chmod, IInv, SwapTypeOK
<1>7. ASSUME NEW l \in Launches, Aside(l) PROVE SwapTypeOK'
  BY <1>7 DEF Aside, Step, End, NotLaunching, Launching, vault, IInv, SwapTypeOK, Launchers,
     Progressed, Launching, Launched
<1>8. ASSUME NEW l \in Launches, Swap(l) PROVE SwapTypeOK'
  <2>1. /\ launch' \in [Launches -> Launchers]
        /\ \A k \in Launches : launch'[k].pc \in Launching => launch'[k].want \in Versions
    BY <1>8, Ended DEF Swap, Launched
  <2>2. bin' \in [{"exe", "new"} -> Files \cup {None}]
    BY <1>8 DEF Swap, IInv, SwapTypeOK
  <2> QED
    BY <1>8, <2>1, <2>2 DEF Swap, IInv, SwapTypeOK
<1>9. ASSUME NEW l \in Launches, CutOff(l) PROVE SwapTypeOK'
  BY <1>9 DEF CutOff, Step, End, NotLaunching, Launching, vault, IInv, SwapTypeOK, Launchers,
     Progressed, Launching, Launched
<1>10. CASE UNCHANGED swap
  BY <1>10 DEF swap, IInv, SwapTypeOK, Launchers, Progressed, Launching, Launched
<1> QED
  BY <1>1, <1>2, <1>3, <1>4, <1>5, <1>6, <1>7, <1>8, <1>9, <1>10, CallsKeepSwap DEF Next

\* The types of the keys and the calls are kept.
LEMMA StepVaultTypeOK ==
    ASSUME IInv, [Next]_vars
    PROVE  VaultTypeOK'
<1> USE HelperAssumption, NoneIsNone
<1>1. CASE UNCHANGED vars
  BY <1>1 DEF vars, swap, vault, IInv, VaultTypeOK, Calls, Running, Answers, Witnessed, Said,
     Verdict, Place, Places, Operations
<1>2. ASSUME NEW c \in Callers, Ask(c) PROVE VaultTypeOK'
  BY <1>2 DEF Ask, Exit, NotAsking, Running, Answers, IInv, VaultTypeOK, Calls, Running, Answers,
     Witnessed, Said, Verdict, Place, Places, Operations
<1>3. ASSUME NEW c \in Callers, EndStdin(c) PROVE VaultTypeOK'
  BY <1>3 DEF EndStdin, Exit, NotAsking, Running, Answers, IInv, VaultTypeOK, Calls, Running,
     Answers, Witnessed, Said, Verdict, Place, Places, Operations
<1>4. ASSUME NEW c \in Callers, CallRefused(c) PROVE VaultTypeOK'
  BY <1>4 DEF CallRefused, Exit, NotAsking, Running, Answers, IInv, VaultTypeOK, Calls, Running,
     Answers, Witnessed, Said, Verdict, Place, Places, Operations
<1>5. ASSUME NEW c \in Callers, Spawn(c) PROVE VaultTypeOK'
  BY <1>5 DEF Spawn, Exit, NotAsking, Running, Answers, IInv, VaultTypeOK, Calls, Running, Answers,
     Witnessed, Said, Verdict, Place, Places, Operations
<1>6. ASSUME NEW c \in Callers, ReadStdin(c) PROVE VaultTypeOK'
  BY <1>6 DEF ReadStdin, Exit, NotAsking, Running, Answers, IInv, VaultTypeOK, Calls, Running,
     Answers, Witnessed, Said, Verdict, Place, Places, Operations
<1>7. ASSUME NEW c \in Callers, Look(c) PROVE VaultTypeOK'
  BY <1>7 DEF Look, Exit, NotAsking, Running, Answers, IInv, VaultTypeOK, Calls, Running, Answers,
     Witnessed, Said, Verdict, Place, Places, Operations
<1>8. ASSUME NEW c \in Callers, Store(c) PROVE VaultTypeOK'
  BY <1>8 DEF Store, Exit, NotAsking, Running, Answers, IInv, VaultTypeOK, Calls, Running, Answers,
     Witnessed, Said, Verdict, Place, Places, Operations
<1>9. ASSUME NEW c \in Callers, LookToForget(c) PROVE VaultTypeOK'
  BY <1>9 DEF LookToForget, Exit, NotAsking, Running, Answers, IInv, VaultTypeOK, Calls, Running,
     Answers, Witnessed, Said, Verdict, Place, Places, Operations
<1>10. ASSUME NEW c \in Callers, Remove(c) PROVE VaultTypeOK'
  BY <1>10 DEF Remove, Exit, NotAsking, Running, Answers, IInv, VaultTypeOK, Calls, Running,
     Answers, Witnessed, Said, Verdict, Place, Places, Operations
<1>11. CASE UNCHANGED vault
  BY <1>11 DEF vault, IInv, VaultTypeOK, Calls, Running, Answers, Witnessed, Said, Verdict, Place,
     Places, Operations
<1> QED
  BY <1>1, <1>2, <1>3, <1>4, <1>5, <1>6, <1>7, <1>8, <1>9, <1>10, <1>11, LaunchesKeepVault DEF Next,
     Progress

\* A launch makes its own file and no other's.
LEMMA StepFresh ==
    ASSUME IInv, [Next]_vars
    PROVE  Fresh'
<1> USE HelperAssumption, NoneIsNone
<1>1. CASE UNCHANGED vars
  BY <1>1 DEF vars, swap, vault, IInv, SwapTypeOK, Launchers, Progressed, Launching, Launched, Fresh
<1>2. ASSUME NEW l \in Launches, Launch(l) PROVE Fresh'
  <2>1. /\ launch[l].pc = "idle" /\ launch'[l].pc = "compare" /\ launch'[l].file = launch[l].file
        /\ \A k \in Launches \ {l} : launch'[k] = launch[k]
    BY <1>2 DEF Launch, MayStart, Started, IInv, SwapTypeOK, Launchers
  <2>2. bin' = bin
    BY <1>2 DEF Launch
  <2> QED
    BY <2>1, <2>2 DEF IInv, Fresh
<1>3. ASSUME NEW l \in Launches, Compare(l) PROVE Fresh'
  <2>1. /\ launch[l].pc = "compare" /\ launch'[l].file \in {launch[l].file, None}
        /\ \A k \in Launches \ {l} : launch'[k] = launch[k]
    BY <1>3 DEF Compare, Step, End, NotLaunching, IInv, SwapTypeOK, Launchers
  <2>2. bin' = bin
    BY <1>3 DEF Compare
  <2> QED
    BY <2>1, <2>2 DEF IInv, Fresh
<1>4. ASSUME NEW l \in Launches, OpenStaging(l) PROVE Fresh'
  BY <1>4 DEF OpenStaging, Step, End, NotLaunching, Launching, vault, IInv, SwapTypeOK, Launchers,
     Progressed, Launching, Launched, Fresh
<1>5. ASSUME NEW l \in Launches, Fill(l) PROVE Fresh'
  BY <1>5 DEF Fill, Step, End, NotLaunching, Launching, vault, IInv, SwapTypeOK, Launchers,
     Progressed, Launching, Launched, Fresh
<1>6. ASSUME NEW l \in Launches, Chmod(l) PROVE Fresh'
  BY <1>6 DEF Chmod, Step, End, NotLaunching, Launching, vault, IInv, SwapTypeOK, Launchers,
     Progressed, Launching, Launched, Fresh
<1>7. ASSUME NEW l \in Launches, Aside(l) PROVE Fresh'
  BY <1>7 DEF Aside, Step, End, NotLaunching, Launching, vault, IInv, SwapTypeOK, Launchers,
     Progressed, Launching, Launched, Fresh
<1>8. ASSUME NEW l \in Launches, Swap(l) PROVE Fresh'
  <2>1. /\ launch[l].pc = "swap" /\ launch'[l].pc \in Launched /\ launch'[l].file = None
        /\ \A k \in Launches \ {l} : launch'[k] = launch[k]
    BY <1>8 DEF Swap, End, NotLaunching, IInv, SwapTypeOK, Launched
  <2>2. /\ bin'["exe"] \in {bin["exe"], bin["new"], None}
        /\ bin'["new"] \in {bin["new"], None}
    BY <1>8 DEF Swap, IInv, SwapTypeOK
  <2> QED
    BY <2>1, <2>2 DEF IInv, Fresh, Launched
<1>9. ASSUME NEW l \in Launches, CutOff(l) PROVE Fresh'
  BY <1>9 DEF CutOff, Step, End, NotLaunching, Launching, vault, IInv, SwapTypeOK, Launchers,
     Progressed, Launching, Launched, Fresh
<1>10. CASE UNCHANGED swap
  BY <1>10 DEF swap, IInv, SwapTypeOK, Launchers, Progressed, Launching, Launched, Fresh
<1> QED
  BY <1>1, <1>2, <1>3, <1>4, <1>5, <1>6, <1>7, <1>8, <1>9, <1>10, CallsKeepSwap DEF Next

\* The staged file is a new one or the one staged before.
LEMMA StepApart ==
    ASSUME IInv, [Next]_vars
    PROVE  Apart'
<1> USE HelperAssumption, NoneIsNone
<1>1. CASE UNCHANGED vars
  BY <1>1 DEF vars, swap, vault, IInv, SwapTypeOK, Launchers, Progressed, Launching, Launched,
     Apart, Fresh
<1>2. ASSUME NEW l \in Launches, Launch(l) PROVE Apart'
  BY <1>2 DEF Launch, Step, End, NotLaunching, Launching, vault, IInv, SwapTypeOK, Launchers,
     Progressed, Launching, Launched, Apart, Fresh
<1>3. ASSUME NEW l \in Launches, Compare(l) PROVE Apart'
  BY <1>3 DEF Compare, Step, End, NotLaunching, Launching, vault, IInv, SwapTypeOK, Launchers,
     Progressed, Launching, Launched, Apart, Fresh
<1>4. ASSUME NEW l \in Launches, OpenStaging(l) PROVE Apart'
  BY <1>4 DEF OpenStaging, Step, End, NotLaunching, Launching, vault, IInv, SwapTypeOK, Launchers,
     Progressed, Launching, Launched, Apart, Fresh
<1>5. ASSUME NEW l \in Launches, Fill(l) PROVE Apart'
  BY <1>5 DEF Fill, Step, End, NotLaunching, Launching, vault, IInv, SwapTypeOK, Launchers,
     Progressed, Launching, Launched, Apart, Fresh
<1>6. ASSUME NEW l \in Launches, Chmod(l) PROVE Apart'
  BY <1>6 DEF Chmod, Step, End, NotLaunching, Launching, vault, IInv, SwapTypeOK, Launchers,
     Progressed, Launching, Launched, Apart, Fresh
<1>7. ASSUME NEW l \in Launches, Aside(l) PROVE Apart'
  BY <1>7 DEF Aside, Step, End, NotLaunching, Launching, vault, IInv, SwapTypeOK, Launchers,
     Progressed, Launching, Launched, Apart, Fresh
<1>8. ASSUME NEW l \in Launches, Swap(l) PROVE Apart'
  BY <1>8 DEF Swap, Step, End, NotLaunching, Launching, vault, IInv, SwapTypeOK, Launchers,
     Progressed, Launching, Launched, Apart, Fresh
<1>9. ASSUME NEW l \in Launches, CutOff(l) PROVE Apart'
  BY <1>9 DEF CutOff, Step, End, NotLaunching, Launching, vault, IInv, SwapTypeOK, Launchers,
     Progressed, Launching, Launched, Apart, Fresh
<1>10. CASE UNCHANGED swap
  BY <1>10 DEF swap, IInv, SwapTypeOK, Launchers, Progressed, Launching, Launched, Apart, Fresh
<1> QED
  BY <1>1, <1>2, <1>3, <1>4, <1>5, <1>6, <1>7, <1>8, <1>9, <1>10, CallsKeepSwap DEF Next

\* A launch that begins while another runs is noted with it.
LEMMA StepOverlapping ==
    ASSUME IInv, [Next]_vars
    PROVE  Overlapping'
<1> USE HelperAssumption, NoneIsNone
<1>1. CASE UNCHANGED vars
  BY <1>1 DEF vars, swap, vault, IInv, SwapTypeOK, Launchers, Progressed, Launching, Launched,
     Overlapping
<1>2. ASSUME NEW l \in Launches, Launch(l) PROVE Overlapping'
  BY <1>2 DEF Launch, Step, End, NotLaunching, Launching, vault, IInv, SwapTypeOK, Launchers,
     Progressed, Launching, Launched, Overlapping
<1>3. ASSUME NEW l \in Launches, Compare(l) PROVE Overlapping'
  BY <1>3 DEF Compare, Step, End, NotLaunching, Launching, vault, IInv, SwapTypeOK, Launchers,
     Progressed, Launching, Launched, Overlapping
<1>4. ASSUME NEW l \in Launches, OpenStaging(l) PROVE Overlapping'
  BY <1>4 DEF OpenStaging, Step, End, NotLaunching, Launching, vault, IInv, SwapTypeOK, Launchers,
     Progressed, Launching, Launched, Overlapping
<1>5. ASSUME NEW l \in Launches, Fill(l) PROVE Overlapping'
  BY <1>5 DEF Fill, Step, End, NotLaunching, Launching, vault, IInv, SwapTypeOK, Launchers,
     Progressed, Launching, Launched, Overlapping
<1>6. ASSUME NEW l \in Launches, Chmod(l) PROVE Overlapping'
  BY <1>6 DEF Chmod, Step, End, NotLaunching, Launching, vault, IInv, SwapTypeOK, Launchers,
     Progressed, Launching, Launched, Overlapping
<1>7. ASSUME NEW l \in Launches, Aside(l) PROVE Overlapping'
  BY <1>7 DEF Aside, Step, End, NotLaunching, Launching, vault, IInv, SwapTypeOK, Launchers,
     Progressed, Launching, Launched, Overlapping
<1>8. ASSUME NEW l \in Launches, Swap(l) PROVE Overlapping'
  BY <1>8 DEF Swap, Step, End, NotLaunching, Launching, vault, IInv, SwapTypeOK, Launchers,
     Progressed, Launching, Launched, Overlapping
<1>9. ASSUME NEW l \in Launches, CutOff(l) PROVE Overlapping'
  BY <1>9 DEF CutOff, Step, End, NotLaunching, Launching, vault, IInv, SwapTypeOK, Launchers,
     Progressed, Launching, Launched, Overlapping
<1>10. CASE UNCHANGED swap
  BY <1>10 DEF swap, IInv, SwapTypeOK, Launchers, Progressed, Launching, Launched, Overlapping
<1> QED
  BY <1>1, <1>2, <1>3, <1>4, <1>5, <1>6, <1>7, <1>8, <1>9, <1>10, CallsKeepSwap DEF Next

\* Nobody touches what a launch that meets no other has staged.
LEMMA StepStaged ==
    ASSUME IInv, [Next]_vars
    PROVE  Staged'
<1> USE HelperAssumption, NoneIsNone
<1>1. CASE UNCHANGED vars
  BY <1>1 DEF vars, swap, vault, IInv, SwapTypeOK, Launchers, Progressed, Launching, Launched,
     Staged, Overlapping, Fresh
<1>2. ASSUME NEW l \in Launches, Launch(l) PROVE Staged'
  BY <1>2 DEF Launch, Step, End, NotLaunching, Launching, vault, IInv, SwapTypeOK, Launchers,
     Progressed, Launching, Launched, Staged, Overlapping, Fresh
<1>3. ASSUME NEW l \in Launches, Compare(l) PROVE Staged'
  BY <1>3 DEF Compare, Step, End, NotLaunching, Launching, vault, IInv, SwapTypeOK, Launchers,
     Progressed, Launching, Launched, Staged, Overlapping, Fresh
<1>4. ASSUME NEW l \in Launches, OpenStaging(l) PROVE Staged'
  BY <1>4 DEF OpenStaging, Step, End, NotLaunching, Launching, vault, IInv, SwapTypeOK, Launchers,
     Progressed, Launching, Launched, Staged, Overlapping, Fresh
<1>5. ASSUME NEW l \in Launches, Fill(l) PROVE Staged'
  BY <1>5 DEF Fill, Step, End, NotLaunching, Launching, vault, IInv, SwapTypeOK, Launchers,
     Progressed, Launching, Launched, Staged, Overlapping, Fresh
<1>6. ASSUME NEW l \in Launches, Chmod(l) PROVE Staged'
  BY <1>6 DEF Chmod, Step, End, NotLaunching, Launching, vault, IInv, SwapTypeOK, Launchers,
     Progressed, Launching, Launched, Staged, Overlapping, Fresh
<1>7. ASSUME NEW l \in Launches, Aside(l) PROVE Staged'
  BY <1>7 DEF Aside, Step, End, NotLaunching, Launching, vault, IInv, SwapTypeOK, Launchers,
     Progressed, Launching, Launched, Staged, Overlapping, Fresh
<1>8. ASSUME NEW l \in Launches, Swap(l) PROVE Staged'
  BY <1>8 DEF Swap, Step, End, NotLaunching, Launching, vault, IInv, SwapTypeOK, Launchers,
     Progressed, Launching, Launched, Staged, Overlapping, Fresh
<1>9. ASSUME NEW l \in Launches, CutOff(l) PROVE Staged'
  BY <1>9 DEF CutOff, Step, End, NotLaunching, Launching, vault, IInv, SwapTypeOK, Launchers,
     Progressed, Launching, Launched, Staged, Overlapping, Fresh
<1>10. CASE UNCHANGED swap
  BY <1>10 DEF swap, IInv, SwapTypeOK, Launchers, Progressed, Launching, Launched, Staged,
     Overlapping, Fresh
<1> QED
  BY <1>1, <1>2, <1>3, <1>4, <1>5, <1>6, <1>7, <1>8, <1>9, <1>10, CallsKeepSwap DEF Next

\* The name leads from one whole helper to another.
LEMMA StepWhole ==
    ASSUME IInv, [Next]_vars
    PROVE  Whole'
<1> USE HelperAssumption, NoneIsNone
<1>1. CASE UNCHANGED vars
  BY <1>1 DEF vars, swap, vault, IInv, SwapTypeOK, Launchers, Progressed, Launching, Launched,
     Whole, Staged, Overlapping, Fresh, Apart
<1>2. ASSUME NEW l \in Launches, Launch(l) PROVE Whole'
  <2>1. /\ launch[l].pc = "idle" /\ launch'[l].pc = "compare"
        /\ \A k \in Launches \ {l} : launch'[k] = launch[k]
    BY <1>2 DEF Launch, MayStart, Started, IInv, SwapTypeOK, Launchers
  <2>2. bin' = bin /\ image' = image /\ (met' = {} => met = {})
    BY <1>2 DEF Launch
  <2> QED
    BY <2>1, <2>2 DEF IInv, Whole
<1>3. ASSUME NEW l \in Launches, Compare(l) PROVE Whole'
  <2>1. /\ launch[l].pc = "compare"
        /\ launch'[l].pc = "open" \/ (launch'[l].pc = "done" /\ bin["exe"] # None)
        /\ \A k \in Launches \ {l} : launch'[k] = launch[k]
    BY <1>3 DEF Compare, UpToDate, Step, End, NotLaunching, IInv, SwapTypeOK, Launchers
  <2>2. bin' = bin /\ image' = image /\ met' = met
    BY <1>3 DEF Compare
  <2> QED
    BY <2>1, <2>2 DEF IInv, Whole
<1>4. ASSUME NEW l \in Launches, OpenStaging(l) PROVE Whole'
  BY <1>4 DEF OpenStaging, Step, End, NotLaunching, Launching, vault, IInv, SwapTypeOK, Launchers,
     Progressed, Launching, Launched, Whole, Staged, Overlapping, Fresh, Apart
<1>5. ASSUME NEW l \in Launches, Fill(l) PROVE Whole'
  BY <1>5 DEF Fill, Step, End, NotLaunching, Launching, vault, IInv, SwapTypeOK, Launchers,
     Progressed, Launching, Launched, Whole, Staged, Overlapping, Fresh, Apart
<1>6. ASSUME NEW l \in Launches, Chmod(l) PROVE Whole'
  BY <1>6 DEF Chmod, Step, End, NotLaunching, Launching, vault, IInv, SwapTypeOK, Launchers,
     Progressed, Launching, Launched, Whole, Staged, Overlapping, Fresh, Apart
<1>7. ASSUME NEW l \in Launches, Aside(l) PROVE Whole'
  BY <1>7 DEF Aside, Step, End, NotLaunching, Launching, vault, IInv, SwapTypeOK, Launchers,
     Progressed, Launching, Launched, Whole, Staged, Overlapping, Fresh, Apart
<1>8. ASSUME NEW l \in Launches, Swap(l) PROVE Whole'
  BY <1>8 DEF Swap, Step, End, NotLaunching, Launching, vault, IInv, SwapTypeOK, Launchers,
     Progressed, Launching, Launched, Whole, Staged, Overlapping, Fresh, Apart
<1>9. ASSUME NEW l \in Launches, CutOff(l) PROVE Whole'
  BY <1>9 DEF CutOff, Step, End, NotLaunching, Launching, vault, IInv, SwapTypeOK, Launchers,
     Progressed, Launching, Launched, Whole, Staged, Overlapping, Fresh, Apart
<1>10. CASE UNCHANGED swap
  BY <1>10 DEF swap, IInv, SwapTypeOK, Launchers, Progressed, Launching, Launched, Whole, Staged,
     Overlapping, Fresh, Apart
<1> QED
  BY <1>1, <1>2, <1>3, <1>4, <1>5, <1>6, <1>7, <1>8, <1>9, <1>10, CallsKeepSwap DEF Next

\* Whoever writes a key shows it to those who look.
LEMMA StepSeeing ==
    ASSUME IInv, [Next]_vars
    PROVE  Seeing'
<1> USE HelperAssumption, NoneIsNone
<1>1. CASE UNCHANGED vars
  BY <1>1 DEF vars, swap, vault, IInv, VaultTypeOK, Calls, Running, Answers, Seeing, Witnessed,
     Said, Verdict, Place, Places, Operations
<1>2. ASSUME NEW c \in Callers, Ask(c) PROVE Seeing'
  BY <1>2 DEF Ask, Exit, NotAsking, Running, Answers, IInv, VaultTypeOK, Calls, Running, Answers,
     Seeing, Witnessed, Said, Verdict, Place, Places, Operations
<1>3. ASSUME NEW c \in Callers, EndStdin(c) PROVE Seeing'
  BY <1>3 DEF EndStdin, Exit, NotAsking, Running, Answers, IInv, VaultTypeOK, Calls, Running,
     Answers, Seeing, Witnessed, Said, Verdict, Place, Places, Operations
<1>4. ASSUME NEW c \in Callers, CallRefused(c) PROVE Seeing'
  BY <1>4 DEF CallRefused, Exit, NotAsking, Running, Answers, IInv, VaultTypeOK, Calls, Running,
     Answers, Seeing, Witnessed, Said, Verdict, Place, Places, Operations
<1>5. ASSUME NEW c \in Callers, Spawn(c) PROVE Seeing'
  BY <1>5 DEF Spawn, Exit, NotAsking, Running, Answers, IInv, VaultTypeOK, Calls, Running, Answers,
     Seeing, Witnessed, Said, Verdict, Place, Places, Operations
<1>6. ASSUME NEW c \in Callers, ReadStdin(c) PROVE Seeing'
  BY <1>6 DEF ReadStdin, Exit, NotAsking, Running, Answers, IInv, VaultTypeOK, Calls, Running,
     Answers, Seeing, Witnessed, Said, Verdict, Place, Places, Operations
<1>7. ASSUME NEW c \in Callers, Look(c) PROVE Seeing'
  BY <1>7 DEF Look, Exit, NotAsking, Running, Answers, IInv, VaultTypeOK, Calls, Running, Answers,
     Seeing, Witnessed, Said, Verdict, Place, Places, Operations
<1>8. ASSUME NEW c \in Callers, Store(c) PROVE Seeing'
  BY <1>8 DEF Store, Exit, NotAsking, Running, Answers, IInv, VaultTypeOK, Calls, Running, Answers,
     Seeing, Witnessed, Said, Verdict, Place, Places, Operations
<1>9. ASSUME NEW c \in Callers, LookToForget(c) PROVE Seeing'
  BY <1>9 DEF LookToForget, Exit, NotAsking, Running, Answers, IInv, VaultTypeOK, Calls, Running,
     Answers, Seeing, Witnessed, Said, Verdict, Place, Places, Operations
<1>10. ASSUME NEW c \in Callers, Remove(c) PROVE Seeing'
  BY <1>10 DEF Remove, Exit, NotAsking, Running, Answers, IInv, VaultTypeOK, Calls, Running,
     Answers, Seeing, Witnessed, Said, Verdict, Place, Places, Operations
<1>11. CASE UNCHANGED vault
  BY <1>11 DEF vault, IInv, VaultTypeOK, Calls, Running, Answers, Seeing, Witnessed, Said, Verdict,
     Place, Places, Operations
<1> QED
  BY <1>1, <1>2, <1>3, <1>4, <1>5, <1>6, <1>7, <1>8, <1>9, <1>10, <1>11, LaunchesKeepVault DEF Next,
     Progress

\* Only a call of forget comes to remove a key.
LEMMA StepRemoving ==
    ASSUME IInv, [Next]_vars
    PROVE  Removing'
<1> USE HelperAssumption, NoneIsNone
<1>1. CASE UNCHANGED vars
  BY <1>1 DEF vars, swap, vault, IInv, VaultTypeOK, Calls, Running, Answers, Removing, Witnessed,
     Said, Verdict
<1>2. ASSUME NEW c \in Callers, Ask(c) PROVE Removing'
  BY <1>2 DEF Ask, Exit, NotAsking, Running, Answers, IInv, VaultTypeOK, Calls, Running, Answers,
     Removing, Witnessed, Said, Verdict
<1>3. ASSUME NEW c \in Callers, EndStdin(c) PROVE Removing'
  BY <1>3 DEF EndStdin, Exit, NotAsking, Running, Answers, IInv, VaultTypeOK, Calls, Running,
     Answers, Removing, Witnessed, Said, Verdict
<1>4. ASSUME NEW c \in Callers, CallRefused(c) PROVE Removing'
  BY <1>4 DEF CallRefused, Exit, NotAsking, Running, Answers, IInv, VaultTypeOK, Calls, Running,
     Answers, Removing, Witnessed, Said, Verdict
<1>5. ASSUME NEW c \in Callers, Spawn(c) PROVE Removing'
  BY <1>5 DEF Spawn, Exit, NotAsking, Running, Answers, IInv, VaultTypeOK, Calls, Running, Answers,
     Removing, Witnessed, Said, Verdict
<1>6. ASSUME NEW c \in Callers, ReadStdin(c) PROVE Removing'
  BY <1>6 DEF ReadStdin, Exit, NotAsking, Running, Answers, IInv, VaultTypeOK, Calls, Running,
     Answers, Removing, Witnessed, Said, Verdict
<1>7. ASSUME NEW c \in Callers, Look(c) PROVE Removing'
  BY <1>7 DEF Look, Exit, NotAsking, Running, Answers, IInv, VaultTypeOK, Calls, Running, Answers,
     Removing, Witnessed, Said, Verdict
<1>8. ASSUME NEW c \in Callers, Store(c) PROVE Removing'
  BY <1>8 DEF Store, Exit, NotAsking, Running, Answers, IInv, VaultTypeOK, Calls, Running, Answers,
     Removing, Witnessed, Said, Verdict
<1>9. ASSUME NEW c \in Callers, LookToForget(c) PROVE Removing'
  BY <1>9 DEF LookToForget, Exit, NotAsking, Running, Answers, IInv, VaultTypeOK, Calls, Running,
     Answers, Removing, Witnessed, Said, Verdict
<1>10. ASSUME NEW c \in Callers, Remove(c) PROVE Removing'
  BY <1>10 DEF Remove, Exit, NotAsking, Running, Answers, IInv, VaultTypeOK, Calls, Running,
     Answers, Removing, Witnessed, Said, Verdict
<1>11. CASE UNCHANGED vault
  BY <1>11 DEF vault, IInv, VaultTypeOK, Calls, Running, Answers, Removing, Witnessed, Said, Verdict
<1> QED
  BY <1>1, <1>2, <1>3, <1>4, <1>5, <1>6, <1>7, <1>8, <1>9, <1>10, <1>11, LaunchesKeepVault DEF Next,
     Progress
-----------------------------------------------------------------------------
(* The theorems. *)

\* Before the first launch and the first call.
LEMMA InitInv == Init => IInv
<1> USE HelperAssumption, NoneIsNone
<1> SUFFICES ASSUME Init PROVE IInv
  OBVIOUS
<1>1. PICK v \in Versions, there \in {Shipped, None} :
          /\ bin = [name \in {"exe", "new"} |-> IF name = "exe" THEN there ELSE None]
          /\ image = [f \in Files |-> IF f = Shipped THEN [bytes |-> v, exec |-> TRUE]
                                      ELSE [bytes |-> Torn, exec |-> FALSE]]
  BY DEF Init
<1>2. launch = [l \in Launches |-> NotLaunching("idle")] /\ met = {}
  BY DEF Init
<1>3. bin \in [{"exe", "new"} -> Files \cup {None}] /\ bin["new"] = None /\ bin["exe"] = there
  BY <1>1 DEF Files
<1>4. image \in [Files -> [bytes : Versions \cup {Torn}, exec : BOOLEAN]] /\ image[Shipped].bytes = v
  BY <1>1 DEF Files
<1>5. SwapTypeOK
  <2>1. NotLaunching("idle") \in Launchers /\ NotLaunching("idle").pc \notin Launching
    BY DEF NotLaunching, Launchers, Progressed, Launching
  <2> QED
    BY <1>2, <1>3, <1>4, <2>1 DEF SwapTypeOK
<1>6. VaultTypeOK /\ Seeing /\ Removing
  <2>1. PICK k \in Keys \cup {NoKey} : secrets = [place \in Places |-> k]
    BY DEF Init
  <2>2. call = [c \in Callers |-> NotAsking("idle")] /\ kind \in {"platform", "files"}
    BY DEF Init
  <2>3. NotAsking("idle") \in Calls /\ NotAsking("idle").pc = "idle"
    BY DEF NotAsking, Calls
  <2> QED
    BY <2>1, <2>2, <2>3 DEF VaultTypeOK, Seeing, Removing, Running
<1>7. Shipped \notin Launches
  BY DEF Shipped, Launches
<1>8. \A l \in Launches : launch[l].pc = "idle" /\ launch[l].file = None
  BY <1>2 DEF NotLaunching
<1>9. Fresh /\ Apart
  BY <1>1, <1>3, <1>7, <1>8 DEF Fresh, Apart
<1>10. Overlapping /\ Staged /\ Whole
  BY <1>3, <1>4, <1>1, <1>8 DEF Overlapping, Staged, Whole, Launching
<1> QED
  BY <1>5, <1>6, <1>9, <1>10 DEF IInv

\* The invariant holds of every behaviour.
LEMMA InvariantHolds == Spec => []IInv
<1>1. IInv /\ [Next]_vars => IInv'
  <2> SUFFICES ASSUME IInv, [Next]_vars PROVE IInv'
    OBVIOUS
  <2>1. SwapTypeOK' /\ VaultTypeOK' /\ Fresh' /\ Apart' /\ Overlapping'
    BY StepSwapTypeOK, StepVaultTypeOK, StepFresh, StepApart, StepOverlapping
  <2>2. Staged' /\ Whole' /\ Seeing' /\ Removing'
    BY StepStaged, StepWhole, StepSeeing, StepRemoving
  <2> QED
    BY <2>1, <2>2 DEF IInv
<1> QED
  BY InitInv, <1>1, PTL DEF Spec

\* app lib.rs: the helper's name leads to a whole helper at every moment, if no two launches meet.
THEOREM HelperStaysWhole == Spec => []HelperIsWhole
<1>1. ASSUME IInv PROVE HelperIsWhole
  <2>1. SUFFICES ASSUME met = {}, bin["exe"] = None, NEW l \in Launches, launch[l].pc = "done"
                 PROVE  \E k \in Launches \ {l} : launch[k].pc \in {"swap", "cut_off"}
    BY <1>1 DEF HelperIsWhole, IInv, Whole
  <2>2. PICK k \in Launches : launch[k].pc \in {"swap", "cut_off"}
    BY <1>1, <2>1 DEF IInv, Whole
  <2>3. k # l
    BY <2>1, <2>2
  <2> QED
    BY <2>2, <2>3
<1> QED
  BY <1>1, InvariantHolds, PTL

\* app lib.rs: a launch that meets no other and comes to its end leaves the bundle's helper.
THEOREM LaunchesRepair == Spec => LaunchRepairs
<1>1. ASSUME IInv, [Next]_vars PROVE [Repaired]_swap
  <2> USE HelperAssumption, NoneIsNone
  <2>1. SUFFICES ASSUME NEW l \in Launches, launch[l].pc \in Launching,
                        launch'[l].pc = "done", l \notin met'
                 PROVE  /\ bin'["exe"] # None
                        /\ image'[bin'["exe"]].bytes = launch[l].want
                        /\ (launch[l].pc = "swap" /\ ~launch[l].lax) => image'[bin'["exe"]].exec
    BY DEF Repaired
  <2>2. ASSUME NEW k \in Launches, Compare(k) PROVE k = l /\ UpToDate(l) /\ UNCHANGED <<bin, image>>
    BY <1>1, <2>1, <2>2 DEF Compare, Step, End, NotLaunching, IInv, SwapTypeOK, Launchers, Launching
  <2>3. ASSUME NEW k \in Launches, Swap(k)
        PROVE  /\ k = l /\ launch[l].pc = "swap" /\ image' = image /\ met' = met
               /\ bin["new"] # None /\ bin'["exe"] = bin["new"]
    BY <1>1, <2>1, <2>3 DEF Swap, Step, End, NotLaunching, IInv, SwapTypeOK, Launchers, Launching
  <2>4. ASSUME NEW k \in Launches,
               Launch(k) \/ OpenStaging(k) \/ Fill(k) \/ Chmod(k) \/ Aside(k) \/ CutOff(k)
        PROVE  FALSE
    <3>1. CASE Launch(k)
      BY <1>1, <2>1, <3>1 DEF Launch, IInv, SwapTypeOK, Launchers, Launching
    <3>2. CASE OpenStaging(k)
      BY <1>1, <2>1, <3>2 DEF OpenStaging, IInv, SwapTypeOK, Launchers, Launching
    <3>3. CASE Fill(k)
      BY <1>1, <2>1, <3>3 DEF Fill, Step, IInv, SwapTypeOK, Launchers, Launching
    <3>6. CASE Aside(k)
      BY <1>1, <2>1, <3>6 DEF Aside, Step, IInv, SwapTypeOK, Launchers, Launching
    <3>4. CASE Chmod(k)
      BY <1>1, <2>1, <3>4 DEF Chmod, IInv, SwapTypeOK, Launchers, Launching
    <3>5. CASE CutOff(k)
      BY <1>1, <2>1, <3>5 DEF CutOff, End, NotLaunching, IInv, SwapTypeOK, Launchers, Launching
    <3> QED
      BY <2>4, <3>1, <3>2, <3>3, <3>4, <3>5, <3>6
  <2>5. launch' # launch
    BY <2>1 DEF Launching
  <2>6. ASSUME NEW k \in Launches, Compare(k)
        PROVE  /\ bin'["exe"] # None
               /\ image'[bin'["exe"]].bytes = launch[l].want
               /\ launch[l].pc # "swap"
    BY <2>2, <2>6 DEF UpToDate, Compare, Step, End
  <2>7. ASSUME NEW k \in Launches, Swap(k)
        PROVE  /\ bin'["exe"] # None
               /\ image'[bin'["exe"]].bytes = launch[l].want
               /\ ~launch[l].lax => image'[bin'["exe"]].exec
    BY <1>1, <2>1, <2>3, <2>7 DEF IInv, Staged
  <2>8. ASSUME NEW c \in Callers, Ask(c) \/ EndStdin(c) \/ CallRefused(c) \/ Progress(c)
        PROVE  FALSE
    BY <2>5, <2>8, CallsKeepSwap DEF swap
  <2>9. CASE \E k \in Launches : Compare(k) \/ Swap(k)
    BY <2>6, <2>7, <2>9
  <2>10. ~UNCHANGED vars
    BY <2>5 DEF vars, swap
  <2> QED
    BY <1>1, <2>4, <2>8, <2>9, <2>10 DEF Next
<1> QED
  BY <1>1, InvariantHolds, PTL DEF Spec, LaunchRepairs

\* helper.rs: what a call is answered with was so while it ran.
THEOREM AnswersAreHonest == Spec => HonestAnswers
<1> DEFINE Honest ==
        \A c \in Callers : call[c].pc \in Running /\ call'[c].pc \in Answers =>
          LET op == call[c].op
              seen == call[c].seen \cup {secrets'[Place(op)]} IN
          /\ call'[c].pc = "found" => seen \cap Keys # {}
          /\ call'[c].pc = "absent" \/ (op = "forget" /\ call'[c].pc = "ok") => NoKey \in seen
<1>1. ASSUME IInv, [Next]_vars PROVE [Honest]_vault
  <2> USE HelperAssumption
  <2>1. SUFFICES ASSUME NEW c \in Callers, call[c].pc \in Running, call'[c].pc \in Answers,
                        NEW op, op = call[c].op
                 PROVE  /\ call'[c].pc = "found" =>
                              \E k \in Keys : k \in call[c].seen \cup {secrets'[Place(op)]}
                        /\ call'[c].pc = "absent" \/ (op = "forget" /\ call'[c].pc = "ok") =>
                              NoKey \in call[c].seen \cup {secrets'[Place(op)]}
    OBVIOUS
  <2>2. /\ op \in Operations /\ Held(c) \in Keys \cup {NoKey} /\ Held(c) \in call[c].seen
        /\ Held(c) = secrets[Place(op)] /\ Place(op) \in Places
    BY <1>1, <2>1 DEF IInv, VaultTypeOK, Seeing, Held, Place, Places
  <2>3. call'[c].pc # call[c].pc /\ call[c].pc \notin Answers /\ call'[c].pc \notin Running
    BY <2>1 DEF Running, Answers
  <2>4. ASSUME NEW d \in Callers, d # c,
               Ask(d) \/ EndStdin(d) \/ CallRefused(d) \/ Progress(d)
        PROVE  FALSE
    <3>1. CASE Ask(d) \/ EndStdin(d)
      BY <1>1, <2>3, <2>4, <3>1 DEF Ask, EndStdin, IInv, VaultTypeOK
    <3>2. CASE CallRefused(d) \/ Look(d)
      BY <1>1, <2>3, <2>4, <3>2 DEF CallRefused, Look, Exit, IInv, VaultTypeOK
    <3>3. CASE Spawn(d) \/ ReadStdin(d) \/ LookToForget(d)
      BY <1>1, <2>3, <2>4, <3>3 DEF Spawn, ReadStdin, LookToForget, Exit, IInv, VaultTypeOK
    <3>4. \A place, k : Witnessed(place, k)[c].pc = call[c].pc
      BY <1>1 DEF Witnessed, IInv, VaultTypeOK, Calls
    <3>5. CASE Store(d)
      <4>1. PICK w, n : w = Witnessed(Place("set"), call[d].key) /\ call' = [w EXCEPT ![d] = n]
        BY <3>5 DEF Store
      <4>2. DOMAIN w = Callers /\ w[c].pc = call[c].pc
        BY <3>4, <4>1 DEF Witnessed
      <4> QED
        BY <2>3, <2>4, <4>1, <4>2
    <3>6. CASE Remove(d)
      <4>1. PICK w, n : w = Witnessed(Place("forget"), NoKey) /\ call' = [w EXCEPT ![d] = n]
        BY <3>6 DEF Remove
      <4>2. DOMAIN w = Callers /\ w[c].pc = call[c].pc
        BY <3>4, <4>1 DEF Witnessed
      <4> QED
        BY <2>3, <2>4, <4>1, <4>2
    <3> QED
      BY <2>4, <3>1, <3>2, <3>3, <3>5, <3>6 DEF Progress
  <2>5. CASE Spawn(c) \/ CallRefused(c)
    <3>1. call'[c].pc = Verdict(op, "none")
      <4>1. call'[c].pc # "stdin"
        BY <2>1 DEF Answers
      <4>2. PICK from : Exit(c, from, "none")
        BY <1>1, <2>5, <4>1 DEF Spawn, CallRefused, IInv, VaultTypeOK, Calls
      <4> QED
        BY <1>1, <2>1, <4>2 DEF Exit, NotAsking, Said, IInv, VaultTypeOK
    <3> QED
      BY <2>2, <3>1 DEF Verdict, Operations
  <2>6. CASE Look(c)
    <3>1. /\ op \in {"has", "get"}
          /\ call'[c].pc = Verdict(op, IF Held(c) = NoKey THEN "no" ELSE "yes")
      BY <1>1, <2>1, <2>6 DEF Look, Exit, NotAsking, Said, IInv, VaultTypeOK
    <3>2. CASE Held(c) = NoKey
      BY <2>2, <3>1, <3>2 DEF Verdict
    <3>3. CASE Held(c) # NoKey
      BY <2>2, <3>1, <3>3 DEF Verdict
    <3> QED
      BY <3>2, <3>3
  <2>7. CASE Store(c)
    <3>1. op = "set" /\ call'[c].pc \in {Verdict("set", "yes"), Verdict("set", "none")}
      BY <1>1, <2>1, <2>7 DEF Store, CodesOf, NotAsking, Said, IInv, VaultTypeOK, Witnessed
    <3> QED
      BY <3>1 DEF Verdict
  <2>8. CASE LookToForget(c)
    <3>1. op = "forget" /\ Held(c) = NoKey /\ call'[c].pc = Verdict("forget", "no")
      <4>1. call'[c].pc # "remove"
        BY <2>1 DEF Answers
      <4>2. op = "forget" /\ Held(c) = NoKey /\ Exit(c, "perform", "no")
        BY <1>1, <2>1, <2>8, <4>1 DEF LookToForget, IInv, VaultTypeOK, Calls
      <4> QED
        BY <1>1, <2>1, <4>2 DEF Exit, NotAsking, Said, IInv, VaultTypeOK
    <3> QED
      BY <2>2, <3>1 DEF Verdict
  <2>9. CASE Remove(c)
    <3>1. op = "forget"
      BY <1>1, <2>1, <2>9 DEF Remove, IInv, Removing
    <3>2. secrets'[Place(op)] = NoKey
      BY <1>1, <2>2, <2>9, <3>1 DEF Remove, IInv, VaultTypeOK
    <3>3. call'[c].pc \in {"ok", "failed"}
      BY <1>1, <2>9 DEF Remove, NotAsking, Said, Verdict, IInv, VaultTypeOK, Witnessed
    <3> QED
      BY <3>2, <3>3
  <2>10. ~Ask(c) /\ ~EndStdin(c) /\ ~ReadStdin(c)
    <3>1. ~Ask(c)
      BY <1>1, <2>1 DEF Ask, MayStart, Started, IInv, VaultTypeOK, Running
    <3>2. ~EndStdin(c)
      BY <1>1, <2>3 DEF EndStdin, IInv, VaultTypeOK, Calls
    <3>3. ~ReadStdin(c)
      <4>1. call'[c].pc # "perform"
        BY <2>1 DEF Answers
      <4> QED
        BY <1>1, <4>1 DEF ReadStdin, IInv, VaultTypeOK, Calls
    <3> QED
      BY <3>1, <3>2, <3>3
  <2>11. \A l \in Launches :
            ~(\/ Launch(l) \/ Compare(l) \/ OpenStaging(l) \/ Fill(l) \/ Chmod(l) \/ Aside(l) \/ Swap(l)
              \/ CutOff(l))
    BY <2>3, LaunchesKeepVault DEF vault
  <2>12. ~UNCHANGED vars
    BY <2>3 DEF vars, vault
  <2> QED
    BY <1>1, <2>4, <2>5, <2>6, <2>7, <2>8, <2>9, <2>10, <2>11, <2>12 DEF Next, Progress
<1> QED
  BY <1>1, InvariantHolds, PTL DEF Spec, HonestAnswers
=============================================================================
