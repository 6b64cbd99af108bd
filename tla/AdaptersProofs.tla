--------------------------- MODULE AdaptersProofs ---------------------------
(***************************************************************************)
(* For any providers, models, profiles, shell exports and edits by others, *)
(* and whatever tapkey is given of the project and the shell.              *)
(***************************************************************************)
EXTENDS Adapters, SequenceTheorems, FiniteSetTheorems, WellFoundedInduction, TLAPS

-----------------------------------------------------------------------------
(* Chains. *)

\* Some numbers have a least one.
LEMMA Least ==
    ASSUME NEW S \in SUBSET Nat, S # {}
    PROVE  \E x \in S : \A y \in S : x <= y
<1>1. PICK x \in S : \A y \in S : <<y, x>> \notin OpToRel(<, Nat)
  BY NatLessThanWellFounded, WFMin
<1>2. \A y \in S : ~(y < x)
  <2>1. ASSUME NEW y \in S, y < x
        PROVE  <<y, x>> \in OpToRel(<, Nat)
    BY <2>1 DEF OpToRel
  <2> QED
    BY <1>1, <2>1
<1> QED
  BY <1>2

\* First is an element of the sequence and of the set, and nothing before it is in the set.
LEMMA FirstIs ==
    ASSUME NEW n \in Nat, NEW seq, DOMAIN seq = 1..n, NEW S, \E i \in 1..n : seq[i] \in S
    PROVE  \E i \in 1..n : /\ First(seq, S) = seq[i] /\ seq[i] \in S
                           /\ \A j \in 1..(i - 1) : seq[j] \notin S
<1> DEFINE P == {i \in 1..n : seq[i] \in S}
<1>1. \E i \in P : \A j \in P : i <= j
  <2>1. P \in SUBSET Nat /\ P # {}
    OBVIOUS
  <2> HIDE DEF P
  <2> QED
    BY <2>1, Least
<1>2. PICK i : i = CHOOSE k \in DOMAIN seq : seq[k] \in S /\ \A j \in DOMAIN seq : seq[j] \in S => k <= j
  OBVIOUS
<1>3. i \in DOMAIN seq /\ seq[i] \in S /\ \A j \in DOMAIN seq : seq[j] \in S => i <= j
  BY <1>1, <1>2
<1>4. First(seq, S) = seq[i]
  BY <1>2 DEF First
<1>5. \A j \in 1..(i - 1) : seq[j] \notin S
  BY <1>3
<1> QED
  BY <1>3, <1>4, <1>5

\* A chain: a finite sequence of cells.
IsChain(chain) == \E n \in Nat : DOMAIN chain = 1..n /\ \A i \in 1..n : chain[i] # None

\* The cells before the i-th have no value.
Silent(f, chain, i) == \A j \in 1..(i - 1) : Value(f, chain[j]) = None

\* Nothing in a chain has a value, or the first that has one wins.
LEMMA WinsIs ==
    ASSUME NEW f, NEW chain, IsChain(chain)
    PROVE  \/ /\ \A i \in DOMAIN chain : Value(f, chain[i]) = None
              /\ Wins(f, chain) = None /\ Effective(f, chain) = None
           \/ \E i \in DOMAIN chain : /\ Wins(f, chain) = chain[i] /\ Silent(f, chain, i)
                                      /\ Value(f, chain[i]) # None
                                      /\ Effective(f, chain) = Value(f, chain[i])
<1>1. PICK n \in Nat : DOMAIN chain = 1..n /\ \A i \in 1..n : chain[i] # None
  BY DEF IsChain
<1>2. CASE \A i \in DOMAIN chain : Value(f, chain[i]) = None
  <2>1. Speaking(f, chain) = {}
    BY <1>2 DEF Speaking
  <2> QED
    BY <1>2, <2>1 DEF Wins, Effective
<1>3. CASE ~ \A i \in DOMAIN chain : Value(f, chain[i]) = None
  <2>1. \E i \in 1..n : chain[i] \in Speaking(f, chain)
    BY <1>1, <1>3 DEF Speaking
  <2>2. PICK i \in 1..n : /\ First(chain, Speaking(f, chain)) = chain[i]
                          /\ chain[i] \in Speaking(f, chain)
                          /\ \A j \in 1..(i - 1) : chain[j] \notin Speaking(f, chain)
    BY <1>1, <2>1, FirstIs
  <2>3. Wins(f, chain) = chain[i] /\ Value(f, chain[i]) # None
    BY <2>2 DEF Wins, Speaking
  <2>4. Silent(f, chain, i)
    BY <1>1, <2>2 DEF Silent, Speaking
  <2> QED
    BY <1>1, <2>3, <2>4 DEF Effective
<1> QED
  BY <1>2, <1>3

\* What the first cell that has a value says is what the chain reads as.
LEMMA EffectiveIs ==
    ASSUME NEW f, NEW chain, IsChain(chain), NEW i \in DOMAIN chain,
           Silent(f, chain, i), Value(f, chain[i]) # None
    PROVE  Wins(f, chain) = chain[i] /\ Effective(f, chain) = Value(f, chain[i])
<1>1. PICK n \in Nat : DOMAIN chain = 1..n
  BY DEF IsChain
<1>2. PICK k \in DOMAIN chain : /\ Wins(f, chain) = chain[k] /\ Silent(f, chain, k)
                                /\ Value(f, chain[k]) # None
                                /\ Effective(f, chain) = Value(f, chain[k])
  BY WinsIs
<1>3. k = i
  <2>1. ~(k < i) /\ ~(i < k)
    BY <1>1, <1>2 DEF Silent
  <2> QED
    BY <1>1, <2>1
<1> QED
  BY <1>2, <1>3

\* A chain is disputed when a cell of somebody else's has nothing but silence before it.
LEMMA DisputedIs ==
    ASSUME NEW f, NEW chain, IsChain(chain), NEW T
    PROVE  UpTo(chain, Wins(f, chain)) \cap T # {} <=>
           \E i \in DOMAIN chain : chain[i] \in T /\ Silent(f, chain, i)
<1>1. PICK n \in Nat : DOMAIN chain = 1..n /\ \A i \in 1..n : chain[i] # None
  BY DEF IsChain
<1>2. ASSUME NEW i \in DOMAIN chain, chain[i] \in T, Silent(f, chain, i)
      PROVE  chain[i] \in UpTo(chain, Wins(f, chain))
  <2>1. \A k \in 1..(i - 1) : chain[k] # Wins(f, chain)
    <3> SUFFICES ASSUME NEW k \in 1..(i - 1), chain[k] = Wins(f, chain)
                 PROVE  FALSE
      OBVIOUS
    <3>1. k \in DOMAIN chain /\ chain[k] # None /\ Value(f, chain[k]) = None
      BY <1>1, <1>2 DEF Silent
    <3> QED
      BY <3>1, WinsIs
  <2> QED
    BY <1>1, <2>1 DEF UpTo
<1>3. ASSUME NEW c \in UpTo(chain, Wins(f, chain)) \cap T
      PROVE  \E i \in DOMAIN chain : chain[i] \in T /\ Silent(f, chain, i)
  <2>1. PICK i \in DOMAIN chain : c = chain[i] /\ \A k \in 1..(i - 1) : chain[k] # Wins(f, chain)
    BY DEF UpTo
  <2>2. Silent(f, chain, i)
    <3>1. CASE \A k \in DOMAIN chain : Value(f, chain[k]) = None
      BY <1>1, <3>1 DEF Silent
    <3>2. CASE \E k \in DOMAIN chain : Wins(f, chain) = chain[k] /\ Silent(f, chain, k)
      <4>1. PICK k \in DOMAIN chain : Wins(f, chain) = chain[k] /\ Silent(f, chain, k)
        BY <3>2
      <4>2. i <= k
        BY <1>1, <2>1, <4>1
      <4> QED
        BY <1>1, <4>1, <4>2 DEF Silent
    <3> QED
      BY <3>1, <3>2, WinsIs
  <2> QED
    BY <2>1, <2>2
<1> QED
  BY <1>2, <1>3

\* The layers tapkey may not see, and never writes.
Outer == {"project", "shell"}

\* Tapkey put v in a cell, and what stands above it is silent or somebody else's; so may that cell be
\* by now.
Held(f, T, chain, v) ==
    \E i \in DOMAIN chain :
        /\ chain[i][1] \notin Outer
        /\ \A j \in 1..(i - 1) : chain[j] \in T \/ Value(f, chain[j]) = None
        /\ chain[i] \in T \/ Value(f, chain[i]) = v

\* So the chain reads as v, or somebody else decides.
LEMMA HeldReads ==
    ASSUME NEW f, NEW T, NEW chain, IsChain(chain), NEW v, v # None, Held(f, T, chain, v)
    PROVE  UpTo(chain, Wins(f, chain)) \cap T # {} \/ Effective(f, chain) = v
<1>1. PICK n \in Nat : DOMAIN chain = 1..n /\ \A i \in 1..n : chain[i] # None
  BY DEF IsChain
<1>2. PICK i \in DOMAIN chain :
          /\ \A j \in 1..(i - 1) : chain[j] \in T \/ Value(f, chain[j]) = None
          /\ chain[i] \in T \/ Value(f, chain[i]) = v
  BY DEF Held
<1>3. CASE Silent(f, chain, i)
  BY <1>2, <1>3, DisputedIs, EffectiveIs
<1>4. CASE ~Silent(f, chain, i)
  <2>1. PICK k \in DOMAIN chain : /\ Wins(f, chain) = chain[k] /\ Silent(f, chain, k)
                                  /\ Value(f, chain[k]) # None
    BY <1>1, <1>4, WinsIs DEF Silent
  <2>2. k \in 1..(i - 1)
    BY <1>1, <1>4, <2>1 DEF Silent
  <2> QED
    BY <1>2, <2>1, <2>2, DisputedIs
<1> QED
  BY <1>3, <1>4

\* When somebody writes a cell of a chain in dispute, it stays in dispute; and what was held is.
LEMMA EditDisputes ==
    ASSUME NEW f, NEW g, NEW e, NEW T, NEW chain, IsChain(chain),
           \A i \in DOMAIN chain : chain[i] # e => Value(g, chain[i]) = Value(f, chain[i]),
           UpTo(chain, Wins(f, chain)) \cap T # {}
    PROVE  UpTo(chain, Wins(g, chain)) \cap (T \cup {e}) # {}
<1>1. PICK n \in Nat : DOMAIN chain = 1..n
  BY DEF IsChain
<1>2. PICK i \in DOMAIN chain : chain[i] \in T /\ Silent(f, chain, i)
  BY DisputedIs
<1>3. CASE \E k \in 1..(i - 1) : chain[k] = e
  <2> DEFINE S == {k \in 1..(i - 1) : chain[k] = e}
  <2>1. S \in SUBSET Nat /\ S # {}
    BY <1>3
  <2>2. \E k \in S : \A j \in S : k <= j
    <3> HIDE DEF S
    <3> QED
      BY <2>1, Least
  <2>3. PICK k \in 1..(i - 1) : chain[k] = e /\ \A j \in 1..(k - 1) : chain[j] # e
    BY <2>2, <1>1
  <2>4. k \in DOMAIN chain /\ Silent(g, chain, k)
    BY <1>1, <1>2, <2>3 DEF Silent
  <2> QED
    BY <2>3, <2>4, DisputedIs
<1>4. CASE ~ \E k \in 1..(i - 1) : chain[k] = e
  <2>1. Silent(g, chain, i)
    BY <1>1, <1>2, <1>4 DEF Silent
  <2> QED
    BY <1>2, <2>1, DisputedIs
<1> QED
  BY <1>3, <1>4
-----------------------------------------------------------------------------
(* Claude Code. *)

\* Two parts of a chain, one after the other.
LEMMA Joined ==
    ASSUME NEW S, NEW s \in Seq(S), NEW t \in Seq(S)
    PROVE  /\ s \o t \in Seq(S) /\ Len(s \o t) = Len(s) + Len(t)
           /\ DOMAIN (s \o t) = 1..(Len(s) + Len(t))
           /\ \A i \in 1..Len(s) : (s \o t)[i] = s[i]
           /\ \A i \in 1..Len(t) : (s \o t)[Len(s) + i] = t[i]
<1> DEFINE m == Len(s)
           n == Len(t)
<1>1. m \in Nat /\ n \in Nat
  OBVIOUS
<1>2. /\ s \o t \in Seq(S) /\ Len(s \o t) = m + n
      /\ \A i \in 1..(m + n) : (s \o t)[i] = IF i <= m THEN s[i] ELSE t[i - m]
  BY ConcatProperties
<1>3. DOMAIN (s \o t) = 1..(m + n)
  BY <1>2
<1> HIDE DEF m, n
<1>4. ASSUME NEW i \in 1..n
      PROVE  (s \o t)[m + i] = t[i]
  <2>1. m + i \in 1..(m + n) /\ ~(m + i <= m) /\ (m + i) - m = i
    BY <1>1
  <2> QED
    BY <1>2, <2>1
<1>5. \A i \in 1..m : (s \o t)[i] = s[i]
  BY <1>1, <1>2
<1> QED
  BY <1>2, <1>3, <1>4, <1>5 DEF m, n

\* Three cells and two more; three and three; three, two and three.
LEMMA Parts ==
    ASSUME NEW a, NEW b, NEW c, NEW d, NEW e, NEW x, NEW y, NEW z
    PROVE  /\ LET q == <<a, b, c>> \o <<x, y, z>>
              IN DOMAIN q = 1..6 /\ q[1] = a /\ q[2] = b /\ q[3] = c /\ q[4] = x /\ q[5] = y /\ q[6] = z
           /\ LET q == <<a, b, c>> \o <<d, e>> \o <<x, y, z>>
              IN /\ DOMAIN q = 1..8 /\ q[1] = a /\ q[2] = b /\ q[3] = c /\ q[4] = d /\ q[5] = e
                 /\ q[6] = x /\ q[7] = y /\ q[8] = z
<1> DEFINE S == {a, b, c, d, e, x, y, z}
           p == <<a, b, c>>
           r == <<d, e>>
           t == <<x, y, z>>
<1>1. p \in Seq(S) /\ r \in Seq(S) /\ t \in Seq(S) /\ Len(p) = 3 /\ Len(r) = 2 /\ Len(t) = 3
  OBVIOUS
<1>2. /\ p[1] = a /\ p[2] = b /\ p[3] = c
      /\ r[1] = d /\ r[2] = e
      /\ t[1] = x /\ t[2] = y /\ t[3] = z
  OBVIOUS
<1> HIDE DEF S, p, r, t
<1>3. /\ DOMAIN (p \o t) = 1..(3 + 3)
      /\ \A i \in 1..3 : (p \o t)[i] = p[i]
      /\ \A i \in 1..3 : (p \o t)[3 + i] = t[i]
  <2>1. DOMAIN (p \o t) = 1..(Len(p) + Len(t))
    BY <1>1, Joined
  <2>2. \A i \in 1..Len(p) : (p \o t)[i] = p[i]
    BY <1>1, Joined
  <2>3. \A i \in 1..Len(t) : (p \o t)[Len(p) + i] = t[i]
    BY <1>1, Joined
  <2> QED
    BY <1>1, <2>1, <2>2, <2>3
<1>4. /\ p \o r \in Seq(S) /\ Len(p \o r) = 3 + 2
      /\ \A i \in 1..3 : (p \o r)[i] = p[i]
      /\ \A i \in 1..2 : (p \o r)[3 + i] = r[i]
  BY <1>1, Joined
<1>5. /\ DOMAIN ((p \o r) \o t) = 1..(5 + 3)
      /\ \A i \in 1..5 : ((p \o r) \o t)[i] = (p \o r)[i]
      /\ \A i \in 1..3 : ((p \o r) \o t)[5 + i] = t[i]
  BY <1>1, <1>4, Joined
<1>6. LET q == p \o t
      IN DOMAIN q = 1..6 /\ q[1] = a /\ q[2] = b /\ q[3] = c /\ q[4] = x /\ q[5] = y /\ q[6] = z
  BY <1>2, <1>3
<1>7. LET q == (p \o r) \o t
      IN /\ DOMAIN q = 1..8 /\ q[1] = a /\ q[2] = b /\ q[3] = c /\ q[4] = d /\ q[5] = e
         /\ q[6] = x /\ q[7] = y /\ q[8] = z
  BY <1>2, <1>4, <1>5
<1> QED
  BY <1>6, <1>7 DEF p, r, t

\* The keys of Claude Code's slots, and of what else has one.
LEMMA ClaudeKeys ==
    /\ CL!Slots = {"main", "utility", "subagent", "opus", "sonnet", "fable"}
    /\ CL!OWNED["main"] = "ANTHROPIC_MODEL" /\ CL!OWNED["utility"] = "ANTHROPIC_DEFAULT_HAIKU_MODEL"
    /\ CL!OWNED["subagent"] = "CLAUDE_CODE_SUBAGENT_MODEL"
    /\ CL!OWNED["opus"] = "ANTHROPIC_DEFAULT_OPUS_MODEL"
    /\ CL!OWNED["sonnet"] = "ANTHROPIC_DEFAULT_SONNET_MODEL"
    /\ CL!OWNED["fable"] = "ANTHROPIC_DEFAULT_FABLE_MODEL"
    /\ DOMAIN CL!Companion = {"opus", "sonnet", "fable"}
    /\ CL!Companion["opus"] = "ANTHROPIC_DEFAULT_OPUS_MODEL_NAME"
    /\ CL!Companion["sonnet"] = "ANTHROPIC_DEFAULT_SONNET_MODEL_NAME"
    /\ CL!Companion["fable"] = "ANTHROPIC_DEFAULT_FABLE_MODEL_NAME"
BY DEF CL!Slots, CL!OWNED, CL!Companion

\* Each variable of a slot is that slot's alone, and none is the endpoint's or the deprecated one.
LEMMA ClaudeSlots ==
    ASSUME NEW s \in CL!Slots
    PROVE  /\ CL!OWNED[s] \in CL!Keys \cap CL!OwnedPaths
           /\ CL!OWNED[s] \notin {CL!ENDPOINT_VAR, CL!DEPRECATED_UTILITY, "model", "ANTHROPIC_DEFAULT_MODEL"}
           /\ CL!SlotsOf(CL!OWNED[s]) = {s}
<1>1. CL!OWNED[s] \in CL!Keys
  BY DEF CL!Keys
<1>2. CL!OWNED[s] \notin {CL!ENDPOINT_VAR, CL!DEPRECATED_UTILITY, "model", "ANTHROPIC_DEFAULT_MODEL"}
                            \cup CL!KeyVars
  BY ClaudeKeys DEF CL!ENDPOINT_VAR, CL!DEPRECATED_UTILITY, CL!KeyVars, CL!KeyCells
<1>3. CL!OWNED[s] \in CL!OwnedPaths
  BY <1>1, <1>2 DEF CL!OwnedPaths
<1>4. \A x \in CL!Slots : CL!OWNED[x] = CL!OWNED[s] => x = s
  BY ClaudeKeys
<1>5. \A x \in DOMAIN CL!Companion : CL!Companion[x] # CL!OWNED[s]
  BY ClaudeKeys
<1>6. CL!SlotsOf(CL!OWNED[s]) = {s}
  BY <1>4, <1>5 DEF CL!SlotsOf
<1> QED
  BY <1>1, <1>2, <1>3, <1>6

\* The cells of a slot's one chain.
LEMMA ClaudeChain ==
    ASSUME NEW f, NEW s \in CL!Slots
    PROVE  /\ DOMAIN CL!Chains(f, s) = {1}
           /\ LET c == CL!Chains(f, s)[1]
                  own == CL!OWNED[s]
                  dep == CL!DEPRECATED_UTILITY
                  def == "ANTHROPIC_DEFAULT_MODEL"
              IN \/ /\ s = "main" /\ DOMAIN c = 1..8
                    /\ c[1] = <<"project", own>> /\ c[2] = <<"user", own>> /\ c[3] = <<"shell", own>>
                    /\ c[4] = <<"project", "model">> /\ c[5] = <<"user", "model">>
                    /\ c[6] = <<"project", def>> /\ c[7] = <<"user", def>> /\ c[8] = <<"shell", def>>
                 \/ /\ s = "utility" /\ DOMAIN c = 1..6
                    /\ c[1] = <<"project", dep>> /\ c[2] = <<"user", dep>> /\ c[3] = <<"shell", dep>>
                    /\ c[4] = <<"project", own>> /\ c[5] = <<"user", own>> /\ c[6] = <<"shell", own>>
                 \/ /\ s \notin {"main", "utility"} /\ DOMAIN c = 1..3
                    /\ c[1] = <<"project", own>> /\ c[2] = <<"user", own>> /\ c[3] = <<"shell", own>>
<1>1. CASE s = "main"
  <2> DEFINE q == CL!Var(CL!OWNED.main) \o CL!Key("model") \o CL!Var("ANTHROPIC_DEFAULT_MODEL")
             own == CL!OWNED[s]
  <2>1. CL!Chains(f, s) = <<q>>
    BY <1>1 DEF CL!Chains
  <2>2. CL!OWNED.main = CL!OWNED[s]
    BY <1>1
  <2>3. /\ DOMAIN q = 1..8
        /\ q[1] = <<"project", own>> /\ q[2] = <<"user", own>> /\ q[3] = <<"shell", own>>
        /\ q[4] = <<"project", "model">> /\ q[5] = <<"user", "model">>
        /\ q[6] = <<"project", "ANTHROPIC_DEFAULT_MODEL">> /\ q[7] = <<"user", "ANTHROPIC_DEFAULT_MODEL">>
        /\ q[8] = <<"shell", "ANTHROPIC_DEFAULT_MODEL">>
    BY <2>2, Parts DEF CL!Var, CL!Key
  <2> HIDE DEF q
  <2> QED
    BY <1>1, <2>1, <2>3
<1>2. CASE s = "utility"
  <2> DEFINE q == CL!Var(CL!DEPRECATED_UTILITY) \o CL!Var(CL!OWNED.utility)
             own == CL!OWNED[s]
             dep == CL!DEPRECATED_UTILITY
  <2>1. CL!Chains(f, s) = <<q>>
    BY <1>2 DEF CL!Chains
  <2>2. CL!OWNED.utility = CL!OWNED[s]
    BY <1>2
  <2>3. /\ DOMAIN q = 1..6
        /\ q[1] = <<"project", dep>> /\ q[2] = <<"user", dep>> /\ q[3] = <<"shell", dep>>
        /\ q[4] = <<"project", own>> /\ q[5] = <<"user", own>> /\ q[6] = <<"shell", own>>
    BY <2>2, Parts DEF CL!Var
  <2> HIDE DEF q
  <2> QED
    BY <1>2, <2>1, <2>3
<1>3. CASE s \notin {"main", "utility"}
  <2>1. CL!Chains(f, s) = <<CL!Var(CL!OWNED[s])>>
    BY <1>3 DEF CL!Chains
  <2> QED
    BY <1>3, <2>1 DEF CL!Var
<1> QED
  BY <1>1, <1>2, <1>3

\* A switch writes the user's file of Claude Code alone, and there only what tapkey owns.
LEMMA ClaudeFiles ==
    ASSUME NEW f, DOMAIN f = CL!Layers, NEW a, NEW g, g = CL!Planned(f, a)
    PROVE  /\ DOMAIN g = CL!Layers /\ DOMAIN g["user"] = CL!Keys
           /\ g["project"] = f["project"] /\ g["shell"] = f["shell"]
           /\ \A k \in CL!Keys \ CL!OwnedPaths : g["user"][k] = f["user"][k]
<1> DEFINE written(key) ==
            IF key = CL!ENDPOINT_VAR THEN CL!Put(f, key, a.provider)
            ELSE IF key = CL!DEPRECATED_UTILITY THEN CL!Mirrored(f, a)
            ELSE IF CL!SlotsOf(key) # {}
                 THEN CL!Put(f, key, CL!Model(a, CHOOSE s \in CL!SlotsOf(key) : TRUE))
            ELSE f["user"][key]
<1>1. g = [f EXCEPT !["user"] = [key \in CL!Keys |-> written(key)]]
  BY DEF CL!Planned
<1>2. /\ DOMAIN g = CL!Layers /\ g["user"] = [key \in CL!Keys |-> written(key)]
      /\ g["project"] = f["project"] /\ g["shell"] = f["shell"]
  <2> HIDE DEF written
  <2> QED
    BY <1>1 DEF CL!Layers
<1>3. ASSUME NEW k \in CL!Keys \ CL!OwnedPaths
      PROVE  g["user"][k] = f["user"][k]
  <2>1. k \in {"model", "ANTHROPIC_DEFAULT_MODEL"} \cup CL!KeyVars
    BY DEF CL!OwnedPaths
  <2>2. k \in {"model", "ANTHROPIC_DEFAULT_MODEL", "ANTHROPIC_AUTH_TOKEN", "ANTHROPIC_API_KEY"}
    BY <2>1 DEF CL!KeyVars, CL!KeyCells
  <2>3. k # CL!ENDPOINT_VAR /\ k # CL!DEPRECATED_UTILITY /\ CL!SlotsOf(k) = {}
    BY <2>2, ClaudeKeys DEF CL!ENDPOINT_VAR, CL!DEPRECATED_UTILITY, CL!SlotsOf
  <2> QED
    BY <1>2, <2>3
<1> QED
  BY <1>2, <1>3

\* What it writes there for the endpoint and for the slots.
LEMMA ClaudePlanned ==
    ASSUME NEW f, DOMAIN f = CL!Layers, NEW a, NEW g, g = CL!Planned(f, a)
    PROVE  /\ g["user"][CL!ENDPOINT_VAR] = CL!Put(f, CL!ENDPOINT_VAR, a.provider)
           /\ g["user"][CL!DEPRECATED_UTILITY] = CL!Mirrored(f, a)
           /\ \A s \in CL!Slots : g["user"][CL!OWNED[s]] = CL!Put(f, CL!OWNED[s], CL!Model(a, s))
<1> DEFINE written(key) ==
            IF key = CL!ENDPOINT_VAR THEN CL!Put(f, key, a.provider)
            ELSE IF key = CL!DEPRECATED_UTILITY THEN CL!Mirrored(f, a)
            ELSE IF CL!SlotsOf(key) # {}
                 THEN CL!Put(f, key, CL!Model(a, CHOOSE s \in CL!SlotsOf(key) : TRUE))
            ELSE f["user"][key]
<1>1. g = [f EXCEPT !["user"] = [key \in CL!Keys |-> written(key)]]
  BY DEF CL!Planned
<1>2. g["user"] = [key \in CL!Keys |-> written(key)]
  <2> HIDE DEF written
  <2> QED
    BY <1>1 DEF CL!Layers
<1>3. /\ CL!ENDPOINT_VAR \in CL!Keys /\ CL!DEPRECATED_UTILITY \in CL!Keys
      /\ CL!ENDPOINT_VAR # CL!DEPRECATED_UTILITY
  BY DEF CL!Keys, CL!ENDPOINT_VAR, CL!DEPRECATED_UTILITY
<1>4. g["user"][CL!ENDPOINT_VAR] = CL!Put(f, CL!ENDPOINT_VAR, a.provider)
  BY <1>2, <1>3
<1>5. g["user"][CL!DEPRECATED_UTILITY] = CL!Mirrored(f, a)
  BY <1>2, <1>3
<1>6. ASSUME NEW s \in CL!Slots
      PROVE  g["user"][CL!OWNED[s]] = CL!Put(f, CL!OWNED[s], CL!Model(a, s))
  <2>1. /\ CL!OWNED[s] \in CL!Keys /\ CL!SlotsOf(CL!OWNED[s]) = {s}
        /\ CL!OWNED[s] # CL!ENDPOINT_VAR /\ CL!OWNED[s] # CL!DEPRECATED_UTILITY
    BY ClaudeSlots
  <2>2. (CHOOSE x \in CL!SlotsOf(CL!OWNED[s]) : TRUE) = s
    BY <2>1
  <2> QED
    BY <1>2, <2>1, <2>2
<1> QED
  BY <1>4, <1>5, <1>6
-----------------------------------------------------------------------------
(* Codex. *)

\* Codex's slots and the keys they are reached through.
LEMMA CodexPaths ==
    /\ CX!Slots = {"main", "review", "subagent", "utility", "effort"}
    /\ CX!Paths["main"] = <<"model">> /\ CX!Paths["review"] = <<"review_model">>
    /\ CX!Paths["subagent"] = <<"default_subagent_model">>
    /\ CX!Paths["utility"] = <<"extract_model", "consolidation_model">>
    /\ CX!Paths["effort"] = <<"model_reasoning_effort">>
BY DEF CX!Slots, CX!Paths

\* Each of those keys is one slot's.
LEMMA CodexSlots ==
    ASSUME NEW s \in CX!Slots
    PROVE  /\ DOMAIN CX!Paths[s] \in {1..1, 1..2}
           /\ \A i \in DOMAIN CX!Paths[s] :
                 /\ CX!Paths[s][i] \in CX!SlotKeys /\ CX!SlotOf(CX!Paths[s][i]) = s
                 /\ CX!Paths[s][i] \notin {"profile", "model_provider", "trust_level"}
<1> DEFINE path(x) == {CX!Paths[x][i] : i \in DOMAIN CX!Paths[x]}
<1>1. /\ path("main") = {"model"} /\ path("review") = {"review_model"}
      /\ path("subagent") = {"default_subagent_model"} /\ path("effort") = {"model_reasoning_effort"}
      /\ path("utility") = {"extract_model", "consolidation_model"}
  BY CodexPaths
<1>2. \A x \in CX!Slots : CX!ToSet(CX!Paths[x]) = path(x)
  BY DEF CX!ToSet
<1>3. DOMAIN CX!Paths[s] \in {1..1, 1..2}
  BY CodexPaths
<1> HIDE DEF path
<1>4. ASSUME NEW k \in path(s)
      PROVE  /\ k \in CX!SlotKeys /\ CX!SlotOf(k) = s
             /\ k \notin {"profile", "model_provider", "trust_level"}
  <2>1. \A x \in CX!Slots : k \in path(x) => x = s
    BY <1>1, CodexPaths
  <2>2. CX!SlotOf(k) = s
    BY <1>2, <2>1 DEF CX!SlotOf
  <2>3. k \in CX!SlotKeys
    BY <1>2 DEF CX!SlotKeys
  <2>4. k \notin {"profile", "model_provider", "trust_level"}
    BY <1>1, CodexPaths
  <2> QED
    BY <2>2, <2>3, <2>4
<1> QED
  BY <1>3, <1>4 DEF path

\* What Codex consults for a key: the user's file last, the project's before it if at all.
LEMMA CodexConsulted ==
    ASSUME NEW f, NEW k
    PROVE  LET c == CX!Consulted(f, k)
           IN \/ DOMAIN c = 1..1 /\ c[1] = <<"user", k>>
                  /\ ~(CX!Trusted(f) /\ k \notin CX!PROJECT_DENYLIST)
              \/ /\ DOMAIN c = 1..2 /\ c[1] = <<"project", k>> /\ c[2] = <<"user", k>>
                 /\ CX!Trusted(f) /\ k \notin CX!PROJECT_DENYLIST
<1> DEFINE S == {<<"project", k>>, <<"user", k>>}
           u == << <<"user", k>> >>
           p == << <<"project", k>> >>
           e == << >>
<1>1. u \in Seq(S) /\ p \in Seq(S) /\ e \in Seq(S) /\ Len(u) = 1 /\ Len(p) = 1 /\ Len(e) = 0
  OBVIOUS
<1>2. u[1] = <<"user", k>> /\ p[1] = <<"project", k>>
  OBVIOUS
<1>3. CX!Consulted(f, k) = (IF CX!Trusted(f) /\ k \notin CX!PROJECT_DENYLIST THEN p ELSE e) \o u
  BY DEF CX!Consulted
<1> HIDE DEF S, u, p, e
<1>4. DOMAIN (p \o u) = 1..2 /\ (p \o u)[1] = <<"project", k>> /\ (p \o u)[2] = <<"user", k>>
  <2>1. DOMAIN (p \o u) = 1..(Len(p) + Len(u))
    BY <1>1, Joined
  <2>2. \A i \in 1..Len(p) : (p \o u)[i] = p[i]
    BY <1>1, Joined
  <2>3. \A i \in 1..Len(u) : (p \o u)[Len(p) + i] = u[i]
    BY <1>1, Joined
  <2> QED
    BY <1>1, <1>2, <2>1, <2>2, <2>3
<1>5. DOMAIN (e \o u) = 1..1 /\ (e \o u)[1] = <<"user", k>>
  <2>1. DOMAIN (e \o u) = 1..(Len(e) + Len(u))
    BY <1>1, Joined
  <2>2. \A i \in 1..Len(u) : (e \o u)[Len(e) + i] = u[i]
    BY <1>1, Joined
  <2> QED
    BY <1>1, <1>2, <2>1, <2>2
<1> QED
  BY <1>3, <1>4, <1>5

\* The keys of Codex's files are of different kinds.
LEMMA CodexKeys ==
    /\ CX!SlotKeys \cap ({"profile", "model_provider", "trust_level", Own} \cup Providers) = {}
    /\ {"profile", "model_provider", "trust_level"} \cap ({Own} \cup Providers) = {}
    /\ CX!Keys = CX!SlotKeys \cup {"profile", "model_provider", "trust_level", Own} \cup Providers
<1>1. CX!SlotKeys \cap {"profile", "model_provider", "trust_level"} = {}
  BY CodexSlots DEF CX!SlotKeys, CX!ToSet
<1> QED
  BY <1>1, AdaptersAssumption DEF CX!Keys, CX!Settings

\* What a switch makes of Codex's files, key by key.
LEMMA CodexPlanned ==
    ASSUME NEW f, DOMAIN f = CX!Layers, NEW a, a.provider \in Providers \cup {None},
           NEW g, g = CX!Planned(f, a)
    PROVE  /\ DOMAIN g = CX!Layers /\ DOMAIN g["user"] = CX!Keys /\ g["project"] = f["project"]
           /\ \A s \in CX!Slots : \A i \in DOMAIN CX!Paths[s] :
                 g["user"][CX!Paths[s][i]] =
                     IF s \in DOMAIN a.slots THEN a.slots[s].model ELSE f["user"][CX!Paths[s][i]]
           /\ \A k \in CX!Keys \ CX!SlotKeys :
                 g["user"][k] = IF a.provider # None /\ k \in {"model_provider", a.provider}
                                THEN a.provider ELSE f["user"][k]
<1> DEFINE spoken == {k \in CX!SlotKeys : CX!SlotOf(k) \in DOMAIN a.slots}
           written(key) ==
            IF key \in spoken THEN a.slots[CX!SlotOf(key)].model
            ELSE IF a.provider # None /\ key \in {"model_provider", a.provider} THEN a.provider
            ELSE f["user"][key]
<1>1. g = [f EXCEPT !["user"] = [key \in CX!Keys |-> written(key)]]
  BY DEF CX!Planned
<1>2. /\ DOMAIN g = CX!Layers /\ g["user"] = [key \in CX!Keys |-> written(key)]
      /\ g["project"] = f["project"]
  <2> HIDE DEF written
  <2> QED
    BY <1>1 DEF CX!Layers
<1>3. ASSUME NEW k \in CX!Keys \ CX!SlotKeys
      PROVE  g["user"][k] = IF a.provider # None /\ k \in {"model_provider", a.provider}
                            THEN a.provider ELSE f["user"][k]
  BY <1>2
<1>4. ASSUME NEW s \in CX!Slots, NEW i \in DOMAIN CX!Paths[s]
      PROVE  g["user"][CX!Paths[s][i]] =
                 IF s \in DOMAIN a.slots THEN a.slots[s].model ELSE f["user"][CX!Paths[s][i]]
  <2>1. PICK k : k = CX!Paths[s][i]
    OBVIOUS
  <2>2. k \in CX!SlotKeys /\ CX!SlotOf(k) = s
    BY <2>1, CodexSlots
  <2>3. k \in CX!Keys /\ k # "model_provider" /\ k \notin Providers
    BY <2>2, CodexKeys
  <2>4. s \notin DOMAIN a.slots => ~(a.provider # None /\ k \in {"model_provider", a.provider})
    BY <2>3
  <2> QED
    BY <1>2, <2>1, <2>2, <2>3, <2>4
<1> QED
  BY <1>2, <1>3, <1>4

\* What a removal makes of them.
LEMMA CodexRemoved ==
    ASSUME NEW f, DOMAIN f = CX!Layers, NEW p, NEW g, g = CX!Removed(f, p)
    PROVE  /\ DOMAIN g = CX!Layers /\ g["project"] = f["project"]
           /\ DOMAIN g["user"] = DOMAIN f["user"]
           /\ \A k \in DOMAIN f["user"] : g["user"][k] = IF k = p THEN None ELSE f["user"][k]
BY DEF CX!Removed, CX!Layers
-----------------------------------------------------------------------------
(* OpenCode. *)

\* The keys of OpenCode's slots.
LEMMA OpenPaths ==
    /\ OC!Slots = {"main", "utility"}
    /\ OC!Path["main"] = "model" /\ OC!Path["utility"] = "small_model"
    /\ OC!Layers = {"project", "install", "jsonc", "json"}
    /\ OC!ToSet(OC!UserFiles) = {"jsonc", "json"}
    /\ OC!Settings = {"model", "small_model", "$schema", "enabled_providers", "rest"}
    /\ \A s \in OC!Slots : OC!SlotsOf(OC!Path[s]) = {s}
<1>1. OC!Slots = {"main", "utility"} /\ OC!Path["main"] = "model" /\ OC!Path["utility"] = "small_model"
  BY DEF OC!Slots, OC!Path
<1>2. OC!Layers = {"project", "install", "jsonc", "json"} /\ OC!ToSet(OC!UserFiles) = {"jsonc", "json"}
  BY DEF OC!Layers, OC!Order, OC!ToSet, OC!UserFiles
<1>3. OC!Settings = {"model", "small_model", "$schema", "enabled_providers", "rest"}
  BY <1>1 DEF OC!Settings
<1>4. \A s \in OC!Slots : OC!SlotsOf(OC!Path[s]) = {s}
  BY <1>1 DEF OC!SlotsOf
<1> QED
  BY <1>1, <1>2, <1>3, <1>4

\* The chain of a key is that key in each file.
LEMMA OpenConsulted ==
    ASSUME NEW k
    PROVE  LET c == OC!Consulted(k)
           IN /\ DOMAIN c = 1..4 /\ c[1] = <<"project", k>> /\ c[2] = <<"install", k>>
              /\ c[3] = <<"jsonc", k>> /\ c[4] = <<"json", k>>
<1>1. /\ DOMAIN OC!Order = 1..4 /\ OC!Order[1] = "project" /\ OC!Order[2] = "install"
      /\ OC!Order[3] = "jsonc" /\ OC!Order[4] = "json"
  BY DEF OC!Order
<1> QED
  BY <1>1 DEF OC!Consulted

\* The file that is written.
LEMMA OpenWritten ==
    ASSUME NEW f
    PROVE  OC!Written(f) = IF ~OC!Exists(f, "jsonc") /\ OC!Exists(f, "json") THEN "json" ELSE "jsonc"
<1> DEFINE there == {l \in OC!ToSet(OC!UserFiles) : OC!Exists(f, l)}
           u == OC!UserFiles
<1>1. DOMAIN u = 1..2 /\ u[1] = "jsonc" /\ u[2] = "json"
  BY DEF OC!UserFiles
<1>2. OC!Written(f) = IF there = {} THEN u[1] ELSE OC!First(u, there)
  BY DEF OC!Written
<1>3. there \subseteq {"jsonc", "json"}
      /\ ("jsonc" \in there <=> OC!Exists(f, "jsonc")) /\ ("json" \in there <=> OC!Exists(f, "json"))
  BY OpenPaths
<1> HIDE DEF there, u
<1>4. OC!First(u, there) = First(u, there)
  BY DEF OC!First, First
<1>5. CASE there # {}
  <2>1. \E i \in 1..2 : u[i] \in there
    <3>1. "jsonc" \in there \/ "json" \in there
      BY <1>3, <1>5
    <3>2. 1 \in 1..2 /\ 2 \in 1..2
      OBVIOUS
    <3> QED
      BY <1>1, <3>1, <3>2
  <2>2. PICK i \in 1..2 : First(u, there) = u[i] /\ u[i] \in there
                          /\ \A j \in 1..(i - 1) : u[j] \notin there
    BY <1>1, <2>1, FirstIs
  <2>3. CASE i = 1
    BY <1>1, <1>2, <1>3, <1>4, <1>5, <2>2, <2>3
  <2>4. CASE i = 2
    <3>1. u[1] \notin there
      BY <2>2, <2>4
    <3> QED
      BY <1>1, <1>2, <1>3, <1>4, <1>5, <2>2, <2>4, <3>1
  <2> QED
    BY <2>2, <2>3, <2>4
<1> QED
  BY <1>1, <1>2, <1>3, <1>5

\* What a switch makes of OpenCode's files, key by key.
LEMMA OpenPlanned ==
    ASSUME NEW f, DOMAIN f = OC!Layers, \A l \in OC!Layers : DOMAIN f[l] = OC!Keys,
           NEW a, a.provider \in Providers \cup {None}, NEW g, g = OC!Planned(f, a)
    PROVE  LET w == OC!Written(f)
           IN /\ DOMAIN g = OC!Layers /\ \A l \in OC!Layers : DOMAIN g[l] = OC!Keys
              /\ \A l \in OC!Layers : l # w => g[l] = f[l]
              /\ g[w]["$schema"] = "schema"
              /\ a.provider # None => g[w][a.provider] = a.provider
              /\ \A s \in OC!Slots :
                    g[w][OC!Path[s]] = IF a.provider # None /\ s \in OC!Assigned(a)
                                       THEN OC!Namespaced(a, s) ELSE f[w][OC!Path[s]]
<1> DEFINE w == OC!Written(f)
           written(key) ==
            IF key = "$schema" THEN "schema"
            ELSE IF a.provider = None THEN f[w][key]
            ELSE IF key \in Providers THEN OC!Entry(f, a, key)
            ELSE IF key = "enabled_providers" /\ f[w][key] # None
                 THEN f[w][key] \cup {a.provider}
            ELSE IF OC!SlotsOf(key) \cap OC!Assigned(a) # {}
                 THEN OC!Namespaced(a, CHOOSE s \in OC!SlotsOf(key) : TRUE)
            ELSE f[w][key]
<1>1. g = [f EXCEPT ![w] = [key \in OC!Keys |-> written(key)]]
  BY DEF OC!Planned
<1>2. w \in OC!Layers
  BY OpenWritten, OpenPaths
<1>3. /\ DOMAIN g = OC!Layers /\ g[w] = [key \in OC!Keys |-> written(key)]
      /\ \A l \in OC!Layers : l # w => g[l] = f[l]
  <2> HIDE DEF written, w
  <2> QED
    BY <1>1, <1>2
<1> HIDE DEF w
<1>4. \A l \in OC!Layers : DOMAIN g[l] = OC!Keys
  <2> HIDE DEF written
  <2> QED
    BY <1>3
<1>5. Providers \cap {"model", "small_model", "$schema", "enabled_providers", "rest"} = {}
  BY OpenPaths, AdaptersAssumption
<1>6. {"model", "small_model", "$schema", "enabled_providers", "rest"} \cup Providers \subseteq OC!Keys
  BY OpenPaths DEF OC!Keys
<1>7. g[w]["$schema"] = "schema"
  BY <1>3, <1>6
<1>8. ASSUME a.provider # None
      PROVE  g[w][a.provider] = a.provider
  <2>1. a.provider \in Providers /\ a.provider \in OC!Keys /\ a.provider # "$schema"
    BY <1>5, <1>6, <1>8
  <2>2. OC!Entry(f, a, a.provider) = a.provider
    BY DEF OC!Entry
  <2>3. g[w][a.provider] = written(a.provider)
    <3> HIDE DEF written
    <3> QED
      BY <1>3, <2>1
  <2> QED
    BY <1>8, <2>1, <2>2, <2>3
<1>9. ASSUME NEW s \in OC!Slots
      PROVE  g[w][OC!Path[s]] = IF a.provider # None /\ s \in OC!Assigned(a)
                                THEN OC!Namespaced(a, s) ELSE f[w][OC!Path[s]]
  <2>1. PICK k : k = OC!Path[s]
    OBVIOUS
  <2>2. k \in {"model", "small_model"} /\ k \in OC!Keys /\ k \notin Providers
    BY <1>5, <1>6, <2>1, OpenPaths
  <2>3. OC!SlotsOf(k) = {s} /\ (CHOOSE x \in OC!SlotsOf(k) : TRUE) = s
    BY <2>1, OpenPaths
  <2>4. g[w][k] = written(k)
    <3> HIDE DEF written
    <3> QED
      BY <1>3, <2>2
  <2>5. OC!SlotsOf(k) \cap OC!Assigned(a) # {} <=> s \in OC!Assigned(a)
    BY <2>3
  <2> QED
    BY <2>1, <2>2, <2>3, <2>4, <2>5
<1> QED
  BY <1>3, <1>4, <1>7, <1>8, <1>9 DEF w

\* What a removal makes of them.
LEMMA OpenRemoved ==
    ASSUME NEW f, DOMAIN f = OC!Layers, \A l \in OC!Layers : DOMAIN f[l] = OC!Keys,
           NEW p \in Providers, NEW g, g = OC!Removed(f, p)
    PROVE  LET w == OC!Written(f)
           IN /\ DOMAIN g = OC!Layers /\ \A l \in OC!Layers : DOMAIN g[l] = OC!Keys
              /\ \A l \in OC!Layers : l # w => g[l] = f[l]
              /\ g[w]["rest"] # None
              /\ \A k \in OC!Keys \ {p, "enabled_providers", "rest"} : g[w][k] = f[w][k]
<1> DEFINE w == OC!Written(f)
           list == f[w]["enabled_providers"]
<1>1. w \in OC!Layers
  BY OpenWritten, OpenPaths
<1>2. {"enabled_providers", "rest", p} \subseteq OC!Keys /\ p # "rest"
  BY OpenPaths, AdaptersAssumption DEF OC!Keys
<1>3. g = [f EXCEPT ![w][p] = None,
                    ![w]["enabled_providers"] = IF list = None THEN None ELSE list \ {p},
                    ![w]["rest"] = IF @ = None THEN "empty" ELSE @]
  BY DEF OC!Removed
<1> HIDE DEF w, list
<1>4. /\ DOMAIN g = OC!Layers /\ \A l \in OC!Layers : DOMAIN g[l] = OC!Keys
      /\ \A l \in OC!Layers : l # w => g[l] = f[l]
  BY <1>1, <1>2, <1>3
<1>5. g[w]["rest"] = IF f[w]["rest"] = None THEN "empty" ELSE f[w]["rest"]
  BY <1>1, <1>2, <1>3
<1>6. \A k \in OC!Keys \ {p, "enabled_providers", "rest"} : g[w][k] = f[w][k]
  BY <1>1, <1>2, <1>3
<1> QED
  BY <1>4, <1>5, <1>6, AdaptersAssumption DEF w
-----------------------------------------------------------------------------
(* The three tools. *)

Filed(t, f) == DOMAIN f = Layers(t) /\ \A l \in Layers(t) : DOMAIN f[l] = Keys(t)

TypeOK ==
    /\ tool \in Tools /\ given \subseteq Outer /\ Filed(tool, files)
    /\ DOMAIN owned \subseteq Slots(tool)
    /\ removed \subseteq Providers
    /\ last \in Asks[tool] \cup {None}
    /\ edits \in Nat

\* Each tool by itself.
LEMMA ToolsAre ==
    /\ Tools = {"claude", "codex", "opencode"}
    /\ Slots("claude") = CL!Slots /\ Layers("claude") = CL!Layers /\ Keys("claude") = CL!Keys
    /\ Slots("codex") = CX!Slots /\ Layers("codex") = CX!Layers /\ Keys("codex") = CX!Keys
    /\ Slots("opencode") = OC!Slots /\ Layers("opencode") = OC!Layers /\ Keys("opencode") = OC!Keys
    /\ CL!Layers = {"project", "user", "shell"} /\ CX!Layers = {"project", "user"}
    /\ OC!Layers = {"project", "install", "jsonc", "json"}
BY OpenPaths DEF Tools, Slots, Layers, Keys, CL!Layers, CX!Layers

\* What a profile says of a tool.
LEMMA AskIs ==
    ASSUME NEW t \in Tools, NEW a \in Asks[t]
    PROVE  /\ a # None /\ a.provider \in Providers \cup {None} /\ DOMAIN a.slots \subseteq Slots(t)
           /\ \A s \in DOMAIN a.slots : /\ a.slots[s].provider \in Providers \cup {None}
                                        /\ a.slots[s].model \in Models \cup {None}
<1>1. a # None
  BY AdaptersAssumption
<1>2. /\ a.provider \in Providers \cup {None} /\ DOMAIN a.slots \subseteq Slots(t)
      /\ \A s \in DOMAIN a.slots : a.slots[s] \in SlotAssignment
  BY AdaptersAssumption
<1> QED
  BY <1>1, <1>2 DEF SlotAssignment

\* The chains of a slot, by the tool and its files.
ChainsOf(t, f, s) ==
    CASE t = "claude" -> CL!Chains(f, s)
      [] t = "codex" -> CX!Chains(f, s)
      [] OTHER -> OC!Chains(f, s)

\* They are the chains the model asks for.
LEMMA ChainsAre ==
    ASSUME NEW s
    PROVE  Chains(s) = ChainsOf(tool, files, s)
BY DEF Chains, ChainsOf

\* A slot has a chain or two, and they are chains of its tool's cells.
LEMMA ChainShape ==
    ASSUME NEW t \in Tools, NEW f, NEW s \in Slots(t)
    PROVE  /\ DOMAIN ChainsOf(t, f, s) \in {{1}, 1..1, 1..2}
           /\ 1 \in DOMAIN ChainsOf(t, f, s)
           /\ \A i \in DOMAIN ChainsOf(t, f, s) :
                 LET c == ChainsOf(t, f, s)[i]
                 IN IsChain(c) /\ \A j \in DOMAIN c : c[j] \in Layers(t) \X Keys(t)
<1>1. \A c : (\E n \in Nat : DOMAIN c = 1..n) /\ (\A j \in DOMAIN c : c[j] \in Layers(t) \X Keys(t))
                => IsChain(c)
  BY AdaptersAssumption DEF IsChain
<1>2. CASE t = "claude"
  <2> DEFINE c == CL!Chains(f, s)[1]
  <2>1. s \in CL!Slots
    BY <1>2, ToolsAre
  <2>2. ChainsOf(t, f, s) = CL!Chains(f, s) /\ DOMAIN CL!Chains(f, s) = {1}
    BY <1>2, <2>1, ClaudeChain DEF ChainsOf
  <2>3. {CL!OWNED[s], CL!DEPRECATED_UTILITY, "model", "ANTHROPIC_DEFAULT_MODEL"} \subseteq CL!Keys
    BY <2>1 DEF CL!Keys
  <2>4. (\E n \in Nat : DOMAIN c = 1..n) /\ \A j \in DOMAIN c : c[j] \in CL!Layers \X CL!Keys
    <3> HIDE DEF c
    <3>1. CASE s = "main"
      <4>1. DOMAIN c = 1..8 /\ \A j \in 1..8 : c[j] \in CL!Layers \X CL!Keys
        BY <2>1, <2>3, <3>1, ClaudeChain, ToolsAre DEF c
      <4> QED
        BY <4>1
    <3>2. CASE s = "utility"
      <4>1. DOMAIN c = 1..6 /\ \A j \in 1..6 : c[j] \in CL!Layers \X CL!Keys
        BY <2>1, <2>3, <3>2, ClaudeChain, ToolsAre DEF c
      <4> QED
        BY <4>1
    <3>3. CASE s \notin {"main", "utility"}
      <4>1. DOMAIN c = 1..3 /\ \A j \in 1..3 : c[j] \in CL!Layers \X CL!Keys
        BY <2>1, <2>3, <3>3, ClaudeChain, ToolsAre DEF c
      <4> QED
        BY <4>1
    <3> QED
      BY <3>1, <3>2, <3>3
  <2> HIDE DEF c
  <2>5. IsChain(c) /\ \A j \in DOMAIN c : c[j] \in Layers(t) \X Keys(t)
    BY <1>1, <1>2, <2>4, ToolsAre
  <2> QED
    BY <2>2, <2>5 DEF c
<1>3. CASE t = "codex"
  <2>1. s \in CX!Slots
    BY <1>3, ToolsAre
  <2>2. /\ DOMAIN ChainsOf(t, f, s) = DOMAIN CX!Paths[s]
        /\ \A i \in DOMAIN CX!Paths[s] : ChainsOf(t, f, s)[i] = CX!Consulted(f, CX!Paths[s][i])
    BY <1>3 DEF ChainsOf, CX!Chains
  <2>3. ASSUME NEW i \in DOMAIN CX!Paths[s]
        PROVE  LET c == ChainsOf(t, f, s)[i]
               IN IsChain(c) /\ \A j \in DOMAIN c : c[j] \in Layers(t) \X Keys(t)
    <3> DEFINE c == ChainsOf(t, f, s)[i]
               k == CX!Paths[s][i]
    <3>1. k \in CX!Keys
      BY <2>1, CodexSlots, CodexKeys
    <3>2. c = CX!Consulted(f, k)
      BY <2>2
    <3> HIDE DEF c, k
    <3>3. (\E n \in Nat : DOMAIN c = 1..n) /\ \A j \in DOMAIN c : c[j] \in CX!Layers \X CX!Keys
      <4>1. CASE DOMAIN c = 1..1 /\ c[1] = <<"user", k>>
        BY <3>1, <4>1, ToolsAre
      <4>2. CASE DOMAIN c = 1..2 /\ c[1] = <<"project", k>> /\ c[2] = <<"user", k>>
        BY <3>1, <4>2, ToolsAre
      <4> QED
        BY <3>2, <4>1, <4>2, CodexConsulted
    <3>4. IsChain(c) /\ \A j \in DOMAIN c : c[j] \in Layers(t) \X Keys(t)
      BY <1>1, <1>3, <3>3, ToolsAre
    <3> QED
      BY <3>4 DEF c
  <2> QED
    BY <2>1, <2>2, <2>3, CodexSlots
<1>4. CASE t = "opencode"
  <2> DEFINE c == OC!Consulted(OC!Path[s])
  <2>1. s \in OC!Slots
    BY <1>4, ToolsAre
  <2>2. ChainsOf(t, f, s) = <<c>>
    BY <1>4 DEF ChainsOf, OC!Chains
  <2>3. OC!Path[s] \in OC!Keys
    BY <2>1, OpenPaths DEF OC!Keys
  <2>4. (\E n \in Nat : DOMAIN c = 1..n) /\ \A j \in DOMAIN c : c[j] \in OC!Layers \X OC!Keys
    <3>1. DOMAIN c = 1..4 /\ \A j \in 1..4 : c[j] \in OC!Layers \X OC!Keys
      BY <2>3, OpenConsulted, ToolsAre
    <3> QED
      BY <3>1
  <2> HIDE DEF c
  <2>5. IsChain(c) /\ \A j \in DOMAIN c : c[j] \in Layers(t) \X Keys(t)
    BY <1>1, <1>4, <2>4, ToolsAre
  <2> QED
    BY <2>2, <2>5
<1> QED
  BY <1>2, <1>3, <1>4, ToolsAre

\* Only Codex's trust changes which cells a chain is made of.
LEMMA SameChains ==
    ASSUME NEW t \in Tools, NEW f, NEW g, NEW s \in Slots(t),
           t = "codex" => f["user"]["trust_level"] = g["user"]["trust_level"]
    PROVE  ChainsOf(t, g, s) = ChainsOf(t, f, s)
<1>1. CASE t = "claude"
  BY <1>1 DEF ChainsOf, CL!Chains
<1>2. CASE t = "codex"
  <2>1. \A k : CX!Consulted(g, k) = CX!Consulted(f, k)
    BY <1>2 DEF CX!Consulted, CX!Trusted
  <2> QED
    BY <1>2, <2>1 DEF ChainsOf, CX!Chains
<1>3. CASE t = "opencode"
  BY <1>3 DEF ChainsOf, OC!Chains
<1> QED
  BY <1>1, <1>2, <1>3, ToolsAre
-----------------------------------------------------------------------------
(* What tapkey writes, and what it leaves alone. *)

\* The cells tapkey may write.
Writes(t, l, k) ==
    \/ t = "claude" /\ l = "user" /\ k \in CL!OwnedPaths
    \/ t = "codex" /\ l = "user" /\ k \notin {"trust_level", "profile"}
    \/ t = "opencode" /\ l \in {"jsonc", "json"}

\* What a removal of a provider cannot touch.
Kept(t, k) == t = "claude" \/ k \notin Providers \cup {"enabled_providers", "rest"}

\* Every other cell is empty or somebody else's.
Foreign ==
    \A l \in Layers(tool), k \in Keys(tool) :
        ~Writes(tool, l, k) => files[l][k] = None \/ <<l, k>> \in theirs

\* What tapkey sees has the cells the files have; those of a layer it does not see are empty.
LEMMA ViewIs ==
    ASSUME TypeOK
    PROVE  /\ DOMAIN View = Layers(tool)
           /\ \A l \in Layers(tool), k \in Keys(tool) :
                 View[l][k] = IF l \in Hidden THEN None ELSE files[l][k]
           /\ \A l \in Layers(tool) : l \notin Hidden => View[l] = files[l]
           /\ Hidden \subseteq Outer
BY DEF View, TypeOK, Filed, Hidden, Outer

\* What a switch of Claude Code writes: what tapkey owns in the user's file, by what tapkey sees.
LEMMA ClaudePlan ==
    ASSUME TypeOK, tool = "claude", NEW a, NEW g, g = Planned(a)
    PROVE  /\ DOMAIN g = CL!Layers /\ DOMAIN g["user"] = CL!Keys
           /\ g["project"] = files["project"] /\ g["shell"] = files["shell"]
           /\ \A k \in CL!Keys \ CL!OwnedPaths : g["user"][k] = files["user"][k]
           /\ g["user"][CL!ENDPOINT_VAR] = CL!Put(View, CL!ENDPOINT_VAR, a.provider)
           /\ g["user"][CL!DEPRECATED_UTILITY] = CL!Mirrored(files, a)
           /\ \A s \in CL!Slots : g["user"][CL!OWNED[s]] = CL!Put(View, CL!OWNED[s], CL!Model(a, s))
<1>1. DOMAIN View = CL!Layers /\ DOMAIN files = CL!Layers /\ View["user"] = files["user"]
  BY ViewIs, ToolsAre DEF TypeOK, Filed, Outer
<1>2. PICK h : h = CL!Planned(View, a)
  OBVIOUS
<1>3. /\ DOMAIN h["user"] = CL!Keys
      /\ \A k \in CL!Keys \ CL!OwnedPaths : h["user"][k] = View["user"][k]
  BY <1>1, <1>2, ClaudeFiles
<1>4. /\ h["user"][CL!ENDPOINT_VAR] = CL!Put(View, CL!ENDPOINT_VAR, a.provider)
      /\ h["user"][CL!DEPRECATED_UTILITY] = CL!Mirrored(View, a)
      /\ \A s \in CL!Slots : h["user"][CL!OWNED[s]] = CL!Put(View, CL!OWNED[s], CL!Model(a, s))
  BY <1>1, <1>2, ClaudePlanned
<1>5. CL!Mirrored(View, a) = CL!Mirrored(files, a)
  BY <1>1 DEF CL!Mirrored
<1>6. g = [files EXCEPT !["user"] = h["user"]]
  BY <1>2 DEF Planned
<1>7. /\ DOMAIN g = CL!Layers /\ g["user"] = h["user"]
      /\ g["project"] = files["project"] /\ g["shell"] = files["shell"]
  BY <1>1, <1>6, ToolsAre
<1> QED
  BY <1>1, <1>3, <1>4, <1>5, <1>7

\* A written file has the cells it had, and the cells tapkey does not write have what they had.
LEMMA PlannedFiles ==
    ASSUME TypeOK, NEW a \in Asks[tool], NEW g, g = Planned(a)
    PROVE  /\ Filed(tool, g)
           /\ \A l \in Layers(tool), k \in Keys(tool) : ~Writes(tool, l, k) => g[l][k] = files[l][k]
<1>1. tool \in Tools /\ Filed(tool, files) /\ a.provider \in Providers \cup {None}
  BY AskIs DEF TypeOK
<1>2. CASE tool = "claude"
  <2>1. /\ DOMAIN g = CL!Layers /\ DOMAIN g["user"] = CL!Keys
        /\ g["project"] = files["project"] /\ g["shell"] = files["shell"]
        /\ \A k \in CL!Keys \ CL!OwnedPaths : g["user"][k] = files["user"][k]
    BY <1>2, ClaudePlan
  <2> QED
    BY <1>1, <1>2, <2>1, ToolsAre DEF Filed, Writes
<1>3. CASE tool = "codex"
  <2>1. DOMAIN files = CX!Layers /\ g = CX!Planned(files, a)
    BY <1>1, <1>3, ToolsAre DEF Filed, Planned
  <2>2. /\ DOMAIN g = CX!Layers /\ DOMAIN g["user"] = CX!Keys /\ g["project"] = files["project"]
        /\ \A k \in CX!Keys \ CX!SlotKeys :
              g["user"][k] = IF a.provider # None /\ k \in {"model_provider", a.provider}
                             THEN a.provider ELSE files["user"][k]
    BY <1>1, <2>1, CodexPlanned
  <2>3. \A k \in {"trust_level", "profile"} :
           k \in CX!Keys \ CX!SlotKeys /\ g["user"][k] = files["user"][k]
    BY <1>1, <2>2, CodexKeys
  <2> QED
    BY <1>1, <1>3, <2>2, <2>3, ToolsAre DEF Filed, Writes
<1>4. CASE tool = "opencode"
  <2>1. DOMAIN files = OC!Layers /\ (\A l \in OC!Layers : DOMAIN files[l] = OC!Keys)
        /\ g = OC!Planned(files, a)
    BY <1>1, <1>4, ToolsAre DEF Filed, Planned
  <2>2. /\ DOMAIN g = OC!Layers /\ \A l \in OC!Layers : DOMAIN g[l] = OC!Keys
        /\ \A l \in OC!Layers : l # OC!Written(files) => g[l] = files[l]
    BY <1>1, <2>1, OpenPlanned
  <2>3. OC!Written(files) \in {"jsonc", "json"}
    BY OpenWritten
  <2> QED
    BY <1>4, <2>2, <2>3, ToolsAre DEF Filed, Writes
<1> QED
  BY <1>1, <1>2, <1>3, <1>4, ToolsAre

\* So it is with a removal, which leaves the cells of the slots as well.
LEMMA RemovedFiles ==
    ASSUME TypeOK, NEW p \in Providers, NEW g, g = Removal(p)
    PROVE  /\ Filed(tool, g)
           /\ \A l \in Layers(tool), k \in Keys(tool) :
                 ~Writes(tool, l, k) \/ Kept(tool, k) => g[l][k] = files[l][k]
<1>1. tool \in Tools /\ Filed(tool, files)
  BY DEF TypeOK
<1>2. CASE tool = "claude"
  BY <1>1, <1>2 DEF Removal
<1>3. CASE tool = "codex"
  <2>1. DOMAIN files = CX!Layers /\ DOMAIN files["user"] = CX!Keys /\ g = CX!Removed(files, p)
    BY <1>1, <1>3, ToolsAre DEF Filed, Removal
  <2>2. /\ DOMAIN g = CX!Layers /\ g["project"] = files["project"] /\ DOMAIN g["user"] = CX!Keys
        /\ \A k \in CX!Keys : g["user"][k] = IF k = p THEN None ELSE files["user"][k]
    BY <2>1, CodexRemoved
  <2>3. p \notin {"trust_level", "profile"}
    BY CodexKeys
  <2> QED
    BY <1>1, <1>3, <2>2, <2>3, ToolsAre DEF Filed, Writes, Kept
<1>4. CASE tool = "opencode"
  <2>1. DOMAIN files = OC!Layers /\ (\A l \in OC!Layers : DOMAIN files[l] = OC!Keys)
        /\ g = OC!Removed(files, p)
    BY <1>1, <1>4, ToolsAre DEF Filed, Removal
  <2>2. /\ DOMAIN g = OC!Layers /\ \A l \in OC!Layers : DOMAIN g[l] = OC!Keys
        /\ \A l \in OC!Layers : l # OC!Written(files) => g[l] = files[l]
        /\ \A k \in OC!Keys \ {p, "enabled_providers", "rest"} :
              g[OC!Written(files)][k] = files[OC!Written(files)][k]
    BY <1>1, <2>1, OpenRemoved
  <2>3. OC!Written(files) \in {"jsonc", "json"}
    BY OpenWritten
  <2> QED
    BY <1>4, <2>2, <2>3, ToolsAre DEF Filed, Writes, Kept
<1> QED
  BY <1>1, <1>2, <1>3, <1>4, ToolsAre

\* What is recorded of a profile is of the tool's slots.
LEMMA FingerprintOf ==
    ASSUME TypeOK, NEW a \in Asks[tool]
    PROVE  DOMAIN Fingerprint(a) \subseteq Slots(tool)
<1>1. CASE tool = "claude"
  BY <1>1, ToolsAre DEF Fingerprint, CL!Fingerprint
<1>2. CASE tool = "codex"
  BY <1>2, ToolsAre DEF Fingerprint, CX!Fingerprint
<1>3. CASE tool = "opencode"
  BY <1>3, ToolsAre DEF Fingerprint, OC!Fingerprint, OC!Assigned
<1> QED
  BY <1>1, <1>2, <1>3, ToolsAre DEF TypeOK

\* A cell somebody else wrote stays theirs until tapkey gives it another value, or speaks for it.
LEMMA StillTheirs ==
    ASSUME NEW l, NEW k, <<l, k>> \in theirs, files'[l][k] = files[l][k]
    PROVE  <<l, k>> \in Unclaimed
BY DEF Unclaimed, Value

\* The kinds of step there are.
LEMMA NextIs ==
    ASSUME [Next]_vars
    PROVE  \/ \E a \in Asks[tool] : Switch(a)
           \/ \E p \in Providers : RemoveProvider(p)
           \/ \E e \in Edits[tool] : Edit(e)
           \/ AcceptDrift
           \/ SwitchOthers \/ UNCHANGED vars
BY DEF Next

\* Every step keeps the types.
LEMMA StepTypeOK ==
    ASSUME TypeOK, [Next]_vars
    PROVE  TypeOK'
<1>1. ASSUME NEW a \in Asks[tool], Switch(a)
      PROVE  TypeOK'
  <2>1. Filed(tool, files')
    BY <1>1, PlannedFiles DEF Switch, TypeOK
  <2>2. DOMAIN owned' \subseteq Slots(tool)
    BY <1>1, FingerprintOf DEF Switch
  <2>3. /\ tool' = tool /\ given' = given /\ last' \in Asks[tool] \cup {None}
        /\ removed' = removed /\ edits' = edits
    BY <1>1 DEF Switch
  <2> QED
    BY <2>1, <2>2, <2>3 DEF TypeOK
<1>2. ASSUME NEW p \in Providers, RemoveProvider(p)
      PROVE  TypeOK'
  <2>1. Filed(tool, files')
    BY <1>2, RemovedFiles DEF RemoveProvider
  <2>2. /\ tool' = tool /\ given' = given /\ last' = last /\ owned' = owned
        /\ removed' = removed \cup {p} /\ edits' = edits
    BY <1>2 DEF RemoveProvider
  <2> QED
    BY <2>1, <2>2 DEF TypeOK
<1>3. ASSUME NEW e \in Edits[tool], Edit(e)
      PROVE  TypeOK'
  <2>1. files' = [files EXCEPT ![e[1]][e[2]] = e[3]]
    BY <1>3 DEF Edit
  <2>2. Filed(tool, files')
    BY <2>1 DEF TypeOK, Filed
  <2>3. /\ tool' = tool /\ given' = given /\ last' = last /\ owned' = owned
        /\ removed' = removed /\ edits' = edits + 1
    BY <1>3 DEF Edit
  <2> QED
    BY <2>2, <2>3 DEF TypeOK
<1>4. CASE AcceptDrift
  BY <1>4 DEF AcceptDrift, TypeOK
<1>5. CASE SwitchOthers \/ UNCHANGED vars
  BY <1>5 DEF SwitchOthers, Nothing, vars, TypeOK
<1> QED
  BY <1>1, <1>2, <1>3, <1>4, <1>5, NextIs

\* What an edit does, cell by cell.
LEMMA EditIs ==
    ASSUME TypeOK, NEW e \in Edits[tool], Edit(e)
    PROVE  /\ tool' = tool /\ given' = given /\ last' = last /\ owned' = owned /\ removed' = removed
           /\ theirs' = theirs \cup {<<e[1], e[2]>>}
           /\ \A l \in Layers(tool), k \in Keys(tool) :
                 files'[l][k] = IF <<l, k>> = <<e[1], e[2]>> THEN e[3] ELSE files[l][k]
<1>1. files' = [files EXCEPT ![e[1]][e[2]] = e[3]]
  BY DEF Edit
<1>2. e[1] \in Layers(tool) /\ e[2] \in Keys(tool)
  BY AdaptersAssumption DEF TypeOK
<1>3. \A l \in Layers(tool), k \in Keys(tool) :
          files'[l][k] = IF l = e[1] /\ k = e[2] THEN e[3] ELSE files[l][k]
  BY <1>1, <1>2 DEF TypeOK, Filed
<1> QED
  BY <1>3 DEF Edit

\* Nothing comes to stand in a cell tapkey does not write but what somebody else puts there.
LEMMA StepForeign ==
    ASSUME TypeOK, Foreign, [Next]_vars
    PROVE  Foreign'
<1> SUFFICES ASSUME NEW l \in Layers(tool'), NEW k \in Keys(tool'), ~Writes(tool', l, k),
                    files'[l][k] # None
             PROVE  <<l, k>> \in theirs'
  BY DEF Foreign
<1>1. ASSUME NEW a \in Asks[tool], Switch(a)
      PROVE  <<l, k>> \in theirs'
  <2>1. tool' = tool /\ files'[l][k] = files[l][k]
    BY <1>1, PlannedFiles DEF Switch
  <2>2. <<l, k>> \in Unclaimed
    BY <2>1, StillTheirs DEF Foreign
  <2>3. <<l, k>> \notin Spoken
    BY <2>1 DEF Spoken, Writes
  <2> QED
    BY <1>1, <2>2, <2>3 DEF Switch
<1>2. ASSUME NEW p \in Providers, RemoveProvider(p)
      PROVE  <<l, k>> \in theirs'
  <2>1. tool' = tool /\ files'[l][k] = files[l][k]
    BY <1>2, RemovedFiles DEF RemoveProvider
  <2>2. <<l, k>> \in Unclaimed
    BY <2>1, StillTheirs DEF Foreign
  <2> QED
    BY <1>2, <2>2 DEF RemoveProvider
<1>3. ASSUME NEW e \in Edits[tool], Edit(e)
      PROVE  <<l, k>> \in theirs'
  BY <1>3, EditIs DEF Foreign
<1>4. CASE AcceptDrift \/ SwitchOthers \/ UNCHANGED vars
  BY <1>4 DEF AcceptDrift, SwitchOthers, vars, Foreign
<1> QED
  BY <1>1, <1>2, <1>3, <1>4, NextIs

\* At first there is what the shell exports and nothing else.
LEMMA InitTypes ==
    ASSUME Init
    PROVE  TypeOK /\ Foreign
<1>1. PICK exports \in SUBSET (IF tool = "claude" THEN Exports ELSE {}) :
          /\ files = [l \in Layers(tool) |-> [k \in Keys(tool) |->
                        IF l = "shell" /\ k \in exports THEN Exported ELSE None]]
          /\ theirs = {"shell"} \X exports
  BY DEF Init
<1>2. TypeOK
  BY <1>1, AdaptersAssumption DEF Init, TypeOK, Filed, Nothing, Outer
<1>3. Foreign
  BY <1>1 DEF Foreign
<1> QED
  BY <1>2, <1>3
-----------------------------------------------------------------------------
(* What a switch wrote is held. *)

\* The keys of the slots are not a provider's.
LEMMA ChainKept ==
    ASSUME NEW t \in Tools, NEW f, NEW s \in Slots(t), NEW i \in DOMAIN ChainsOf(t, f, s),
           NEW j \in DOMAIN ChainsOf(t, f, s)[i]
    PROVE  Kept(t, ChainsOf(t, f, s)[i][j][2])
<1>1. CASE t = "claude"
  BY <1>1 DEF Kept
<1>2. CASE t = "codex"
  <2>1. s \in CX!Slots /\ i \in DOMAIN CX!Paths[s]
    BY <1>2, ToolsAre DEF ChainsOf, CX!Chains
  <2>2. ChainsOf(t, f, s)[i] = CX!Consulted(f, CX!Paths[s][i])
    BY <1>2, <2>1 DEF ChainsOf, CX!Chains
  <2>3. ChainsOf(t, f, s)[i][j][2] = CX!Paths[s][i]
    <3> DEFINE c == ChainsOf(t, f, s)[i]
               k == CX!Paths[s][i]
    <3> HIDE DEF c, k
    <3>1. CASE DOMAIN c = 1..1 /\ c[1] = <<"user", k>>
      BY <3>1 DEF c, k
    <3>2. CASE DOMAIN c = 1..2 /\ c[1] = <<"project", k>> /\ c[2] = <<"user", k>>
      BY <3>2 DEF c, k
    <3> QED
      BY <2>2, <3>1, <3>2, CodexConsulted DEF c, k
  <2>4. CX!Paths[s][i] \notin Providers
    BY <2>1, CodexSlots, CodexKeys
  <2>5. CX!Paths[s][i] \notin {"enabled_providers", "rest"}
    BY <2>1, CodexPaths
  <2> QED
    BY <2>3, <2>4, <2>5 DEF Kept
<1>3. CASE t = "opencode"
  <2>1. s \in OC!Slots /\ i = 1 /\ ChainsOf(t, f, s)[i] = OC!Consulted(OC!Path[s])
    BY <1>3, ToolsAre DEF ChainsOf, OC!Chains
  <2>2. ChainsOf(t, f, s)[i][j][2] = OC!Path[s]
    BY <2>1, OpenConsulted
  <2>3. OC!Path[s] \in {"model", "small_model"}
    BY <2>1, OpenPaths
  <2>4. OC!Path[s] \notin Providers
    BY <2>3, OpenPaths, AdaptersAssumption
  <2> QED
    BY <2>2, <2>3, <2>4 DEF Kept
<1> QED
  BY <1>1, <1>2, <1>3, ToolsAre

\* What is held is held as long as each cell is as it was, or somebody else's.
LEMMA HeldStays ==
    ASSUME NEW f, NEW g, NEW T, NEW U, NEW chain, IsChain(chain), NEW v, Held(f, T, chain, v),
           \A i \in DOMAIN chain :
               chain[i] \in U \/ (chain[i] \notin T /\ Value(g, chain[i]) = Value(f, chain[i]))
    PROVE  Held(g, U, chain, v)
<1>1. PICK n \in Nat : DOMAIN chain = 1..n
  BY DEF IsChain
<1>2. PICK i \in DOMAIN chain :
          /\ chain[i][1] \notin Outer
          /\ \A j \in 1..(i - 1) : chain[j] \in T \/ Value(f, chain[j]) = None
          /\ chain[i] \in T \/ Value(f, chain[i]) = v
  BY DEF Held
<1>3. \A j \in 1..(i - 1) : j \in DOMAIN chain
  BY <1>1, <1>2
<1>4. \A j \in 1..(i - 1) : chain[j] \in U \/ Value(g, chain[j]) = None
  BY <1>2, <1>3
<1>5. chain[i] \in U \/ Value(g, chain[i]) = v
  BY <1>2
<1> QED
  BY <1>2, <1>4, <1>5 DEF Held

Trust == <<"user", "trust_level">>

HeldSlots ==
    \A s \in WantedSlots : \A i \in DOMAIN Chains(s) :
        Held(files, theirs, Chains(s)[i], Wanted(s)) \/ (tool = "codex" /\ Trust \in theirs)

\* What a profile wants of a slot is a model, one of the tool's slots.
LEMMA WantedIs ==
    ASSUME TypeOK, NEW s \in WantedSlots
    PROVE  /\ last \in Asks[tool] /\ last # None /\ s \in Slots(tool) /\ s \in DOMAIN last.slots
           /\ last.slots[s].model # None /\ Wanted(s) # None
           /\ tool = "opencode" => last.provider \in Providers
<1>1. /\ last \in Asks[tool] /\ last # None /\ tool \in Tools /\ s \in DOMAIN last.slots
      /\ last.slots[s].model # None /\ (tool = "opencode" => last.provider # None)
  BY DEF WantedSlots, TypeOK
<1>2. /\ s \in Slots(tool) /\ last.provider \in Providers \cup {None}
      /\ last.slots[s].provider \in Providers \cup {None} /\ last.slots[s].model \in Models \cup {None}
  BY <1>1, AskIs
<1>3. CASE tool # "opencode"
  BY <1>1, <1>2, <1>3 DEF Wanted
<1>4. CASE tool = "opencode"
  <2>1. Wanted(s) \in Providers \X Models
    BY <1>1, <1>2, <1>4 DEF Wanted
  <2> QED
    BY <1>1, <1>2, <1>4, <2>1, AdaptersAssumption
<1> QED
  BY <1>3, <1>4

\* A step that keeps what was wanted keeps it held, when each cell of the slots is as it was or is
\* somebody else's, and so is the key of trust.
LEMMA HeldKept ==
    ASSUME TypeOK, HeldSlots, tool' = tool, last' = last,
           tool = "codex" =>
               \/ Trust \in theirs'
               \/ Trust \notin theirs /\ files'["user"]["trust_level"] = files["user"]["trust_level"],
           \A s \in Slots(tool) : \A i \in DOMAIN Chains(s) : \A j \in DOMAIN Chains(s)[i] :
               LET c == Chains(s)[i][j]
               IN c \in theirs' \/ (c \notin theirs /\ Value(files', c) = Value(files, c))
    PROVE  HeldSlots'
<1> SUFFICES ASSUME NEW s \in WantedSlots', NEW i \in DOMAIN Chains(s)',
                    ~(tool = "codex" /\ Trust \in theirs')
             PROVE  Held(files', theirs', Chains(s)'[i], Wanted(s)')
  BY DEF HeldSlots
<1>1. s \in WantedSlots /\ Wanted(s)' = Wanted(s)
  BY DEF WantedSlots, Wanted
<1>2. s \in Slots(tool) /\ tool \in Tools
  BY <1>1, WantedIs DEF TypeOK
<1>3. Chains(s)' = Chains(s)
  <2>1. Chains(s)' = ChainsOf(tool, files', s)
    BY DEF Chains, ChainsOf
  <2>2. ChainsOf(tool, files', s) = ChainsOf(tool, files, s)
    BY <1>2, SameChains
  <2> QED
    BY <2>1, <2>2, ChainsAre
<1>4. IsChain(Chains(s)[i])
  BY <1>2, <1>3, ChainsAre, ChainShape
<1>5. Held(files, theirs, Chains(s)[i], Wanted(s))
  BY <1>1, <1>3 DEF HeldSlots
<1>6. \A j \in DOMAIN Chains(s)[i] :
          Chains(s)[i][j] \in theirs'
          \/ (Chains(s)[i][j] \notin theirs /\ Value(files', Chains(s)[i][j]) = Value(files, Chains(s)[i][j]))
  BY <1>2, <1>3
<1>7. Held(files', theirs', Chains(s)[i], Wanted(s))
  BY <1>4, <1>5, <1>6, HeldStays
<1> QED
  BY <1>1, <1>3, <1>7

\* A switch of Claude Code leaves each slot's model in the user's file: for the utility slot under
\* the variable that lost its name where that is there, under the new one where it is not.
LEMMA ClaudeSwitchHeld ==
    ASSUME TypeOK, Foreign', tool = "claude", NEW a \in Asks[tool],
           tool' = tool, files' = Planned(a), NEW s \in DOMAIN a.slots, a.slots[s].model # None
    PROVE  Held(files', theirs', CL!Chains(files', s)[1], a.slots[s].model)
<1> DEFINE c == CL!Chains(files', s)[1]
           own == CL!OWNED[s]
           dep == CL!DEPRECATED_UTILITY
           m == a.slots[s].model
<1>1. s \in CL!Slots /\ Filed(tool, files')
  BY AskIs, ToolsAre, PlannedFiles DEF TypeOK
<1>2. CL!Model(a, s) = m
  BY DEF CL!Model
<1>3. files'["user"][own] = m
  <2>1. files'["user"][own] = CL!Put(View, own, CL!Model(a, s))
    BY <1>1, ClaudePlan
  <2> QED
    BY <1>2, <2>1 DEF CL!Put
<1>4. files'["user"][dep] \in {None, m} \/ s # "utility"
  <2>1. files'["user"][dep] = CL!Mirrored(files, a)
    BY ClaudePlan
  <2> QED
    BY <1>2, <2>1 DEF CL!Mirrored
<1>5. \A l \in {"project", "shell"}, k \in CL!Keys : <<l, k>> \in theirs' \/ Value(files', <<l, k>>) = None
  BY ToolsAre DEF Foreign, Writes, Value
<1>6. own \in CL!Keys /\ dep \in CL!Keys
  BY <1>1, ClaudeSlots DEF CL!Keys
<1>7. \/ s = "utility" /\ DOMAIN c = 1..6
         /\ c[1] = <<"project", dep>> /\ c[2] = <<"user", dep>> /\ c[3] = <<"shell", dep>>
         /\ c[4] = <<"project", own>> /\ c[5] = <<"user", own>>
      \/ s # "utility" /\ 2 \in DOMAIN c /\ c[1] = <<"project", own>> /\ c[2] = <<"user", own>>
  <2>1. PICK f : f = files'
    OBVIOUS
  <2> QED
    BY <1>1, <2>1, ClaudeChain
<1>8. Value(files', <<"user", own>>) = m /\ Value(files', <<"user", dep>>) = files'["user"][dep]
  BY <1>3 DEF Value
<1> HIDE DEF c, own, dep, m
<1>9. CASE s # "utility"
  <2>1. \A j \in 1..(2 - 1) : c[j] \in theirs' \/ Value(files', c[j]) = None
    BY <1>5, <1>6, <1>7, <1>9
  <2>2. 2 \in DOMAIN c /\ c[2][1] = "user" /\ Value(files', c[2]) = m
    BY <1>7, <1>8, <1>9
  <2> QED
    BY <2>1, <2>2 DEF Held, Outer, c, m
<1>10. CASE s = "utility" /\ files'["user"][dep] = m
  <2>1. \A j \in 1..(2 - 1) : c[j] \in theirs' \/ Value(files', c[j]) = None
    BY <1>5, <1>6, <1>7, <1>10
  <2>2. 2 \in DOMAIN c /\ c[2][1] = "user" /\ Value(files', c[2]) = m
    BY <1>7, <1>8, <1>10
  <2> QED
    BY <2>1, <2>2 DEF Held, Outer, c, m
<1>11. CASE s = "utility" /\ files'["user"][dep] = None
  <2>1. \A j \in 1..(5 - 1) : c[j] \in theirs' \/ Value(files', c[j]) = None
    <3>1. \A j \in {1, 2, 3, 4} : c[j] \in theirs' \/ Value(files', c[j]) = None
      BY <1>5, <1>6, <1>7, <1>8, <1>11
    <3> QED
      BY <3>1
  <2>2. 5 \in DOMAIN c /\ c[5][1] = "user" /\ Value(files', c[5]) = m
    BY <1>7, <1>8, <1>11
  <2> QED
    BY <2>1, <2>2 DEF Held, Outer, c, m
<1> QED
  BY <1>4, <1>9, <1>10, <1>11 DEF c, m

\* A switch of Codex leaves the model under each key of the slot.
LEMMA CodexSwitchHeld ==
    ASSUME TypeOK, Foreign', tool = "codex", NEW a \in Asks[tool],
           tool' = tool, files' = Planned(a), NEW s \in DOMAIN a.slots, a.slots[s].model # None,
           NEW i \in DOMAIN CX!Chains(files', s)
    PROVE  Held(files', theirs', CX!Chains(files', s)[i], a.slots[s].model)
<1> DEFINE k == CX!Paths[s][i]
           c == CX!Consulted(files', k)
           m == a.slots[s].model
<1>1. /\ s \in CX!Slots /\ DOMAIN files = CX!Layers /\ files' = CX!Planned(files, a)
      /\ a.provider \in Providers \cup {None}
  BY AskIs, ToolsAre DEF TypeOK, Filed, Planned
<1>2. i \in DOMAIN CX!Paths[s] /\ CX!Chains(files', s)[i] = c
  BY DEF CX!Chains
<1>3. files'["user"][k] = m
  BY <1>1, <1>2, CodexPlanned
<1>4. k \in CX!Keys
  BY <1>1, <1>2, CodexSlots, CodexKeys
<1>5. <<"project", k>> \in theirs' \/ Value(files', <<"project", k>>) = None
  BY <1>4, ToolsAre DEF Foreign, Writes, Value
<1>6. Value(files', <<"user", k>>) = m
  BY <1>3 DEF Value
<1>7. \/ DOMAIN c = 1..1 /\ c[1] = <<"user", k>>
      \/ DOMAIN c = 1..2 /\ c[1] = <<"project", k>> /\ c[2] = <<"user", k>>
  <2>1. PICK f : f = files'
    OBVIOUS
  <2> QED
    BY <2>1, CodexConsulted
<1> HIDE DEF c, k, m
<1>8. CASE DOMAIN c = 1..1 /\ c[1] = <<"user", k>>
  <2>1. 1 \in DOMAIN c /\ (\A j \in 1..(1 - 1) : c[j] \in theirs' \/ Value(files', c[j]) = None)
        /\ c[1][1] = "user" /\ Value(files', c[1]) = m
    BY <1>6, <1>8
  <2> QED
    BY <1>2, <2>1 DEF Held, Outer, m
<1>9. CASE DOMAIN c = 1..2 /\ c[1] = <<"project", k>> /\ c[2] = <<"user", k>>
  <2>1. 2 \in DOMAIN c /\ (\A j \in 1..(2 - 1) : c[j] \in theirs' \/ Value(files', c[j]) = None)
        /\ c[2][1] = "user" /\ Value(files', c[2]) = m
    BY <1>5, <1>6, <1>9
  <2> QED
    BY <1>2, <2>1 DEF Held, Outer, m
<1> QED
  BY <1>7, <1>8, <1>9

\* What stands in the user's files before the one that is written is nothing.
LEMMA WrittenFirst ==
    ASSUME TypeOK, tool = "opencode", OC!Written(files) = "json", NEW k \in OC!Keys
    PROVE  files["jsonc"][k] = None
BY OpenWritten DEF OC!Exists

\* A switch of OpenCode leaves each slot's model in the file it writes.
LEMMA OpenSwitchHeld ==
    ASSUME TypeOK, Foreign', tool = "opencode", NEW a \in Asks[tool], a.provider # None,
           tool' = tool, files' = Planned(a), NEW s \in OC!Assigned(a)
    PROVE  Held(files', theirs', OC!Chains(files', s)[1], OC!Namespaced(a, s))
<1> DEFINE k == OC!Path[s]
           c == OC!Consulted(k)
           m == OC!Namespaced(a, s)
           w == OC!Written(files)
<1>1. /\ s \in OC!Slots /\ DOMAIN files = OC!Layers /\ (\A l \in OC!Layers : DOMAIN files[l] = OC!Keys)
      /\ files' = OC!Planned(files, a) /\ a.provider \in Providers \cup {None}
  BY AskIs, ToolsAre DEF TypeOK, Filed, Planned, OC!Assigned
<1>2. OC!Chains(files', s)[1] = c
  BY DEF OC!Chains
<1>3. files'[w][k] = m /\ \A l \in OC!Layers : l # w => files'[l] = files[l]
  BY <1>1, OpenPlanned
<1>4. k \in OC!Keys
  BY <1>1, OpenPaths DEF OC!Keys
<1>5. \A l \in {"project", "install"} : <<l, k>> \in theirs' \/ Value(files', <<l, k>>) = None
  BY <1>4, ToolsAre DEF Foreign, Writes, Value
<1>6. /\ DOMAIN c = 1..4 /\ c[1] = <<"project", k>> /\ c[2] = <<"install", k>>
      /\ c[3] = <<"jsonc", k>> /\ c[4] = <<"json", k>>
  BY OpenConsulted
<1>7. w \in {"jsonc", "json"}
  BY OpenWritten
<1>8. Value(files', <<w, k>>) = m
  BY <1>3 DEF Value
<1>9. w = "json" => Value(files', <<"jsonc", k>>) = None
  <2>1. w = "json" => files["jsonc"][k] = None /\ files'["jsonc"] = files["jsonc"]
    BY <1>3, <1>4, WrittenFirst, ToolsAre
  <2> QED
    BY <2>1 DEF Value
<1> HIDE DEF c, k, m, w
<1>10. CASE w = "jsonc"
  <2>1. 3 \in DOMAIN c /\ c[3][1] = "jsonc" /\ Value(files', c[3]) = m
    BY <1>6, <1>8, <1>10
  <2>2. \A j \in 1..(3 - 1) : c[j] \in theirs' \/ Value(files', c[j]) = None
    <3>1. \A j \in {1, 2} : c[j] \in theirs' \/ Value(files', c[j]) = None
      BY <1>5, <1>6
    <3> QED
      BY <3>1
  <2> QED
    BY <1>2, <2>1, <2>2 DEF Held, Outer, m
<1>11. CASE w = "json"
  <2>1. 4 \in DOMAIN c /\ c[4][1] = "json" /\ Value(files', c[4]) = m
    BY <1>6, <1>8, <1>11
  <2>2. \A j \in 1..(4 - 1) : c[j] \in theirs' \/ Value(files', c[j]) = None
    <3>1. \A j \in {1, 2, 3} : c[j] \in theirs' \/ Value(files', c[j]) = None
      BY <1>5, <1>6, <1>9, <1>11
    <3> QED
      BY <3>1
  <2> QED
    BY <1>2, <2>1, <2>2 DEF Held, Outer, m
<1> QED
  BY <1>7, <1>10, <1>11

\* The cells of a slot's chains are cells of the tool's files.
LEMMA CellOf ==
    ASSUME TypeOK, NEW s \in Slots(tool), NEW i \in DOMAIN Chains(s), NEW j \in DOMAIN Chains(s)[i]
    PROVE  \E l \in Layers(tool), k \in Keys(tool) : Chains(s)[i][j] = <<l, k>> /\ Kept(tool, k)
<1>1. tool \in Tools /\ Chains(s) = ChainsOf(tool, files, s)
  BY ChainsAre DEF TypeOK
<1>2. Chains(s)[i][j] \in Layers(tool) \X Keys(tool)
  BY <1>1, ChainShape
<1>3. Kept(tool, Chains(s)[i][j][2])
  BY <1>1, ChainKept
<1> QED
  BY <1>2, <1>3

\* The key of trust is Codex's user's own.
LEMMA TrustIs ==
    /\ \A t : ~Writes(t, "user", "trust_level") \/ t # "codex"
    /\ "user" \in Layers("codex") /\ "trust_level" \in Keys("codex")
BY ToolsAre DEF Writes, CX!Keys, CX!Settings

\* Each cell of Chain's is somebody else's after an edit, or is what it was.
LEMMA EditKeeps ==
    ASSUME TypeOK, NEW e \in Edits[tool], Edit(e), NEW l \in Layers(tool), NEW k \in Keys(tool)
    PROVE  <<l, k>> \in theirs' \/ (<<l, k>> \notin theirs /\ files'[l][k] = files[l][k])
BY EditIs

\* So it is after a removal with the cells it cannot touch.
LEMMA RemovalKeeps ==
    ASSUME TypeOK, NEW p \in Providers, RemoveProvider(p), NEW l \in Layers(tool), NEW k \in Keys(tool),
           ~Writes(tool, l, k) \/ Kept(tool, k)
    PROVE  /\ files'[l][k] = files[l][k]
           /\ <<l, k>> \in theirs' <=> <<l, k>> \in theirs
<1>1. files'[l][k] = files[l][k]
  BY RemovedFiles DEF RemoveProvider
<1> QED
  BY <1>1, StillTheirs DEF RemoveProvider, Unclaimed

\* A switch of any tool holds every slot it wrote.
LEMMA SwitchHeldSlots ==
    ASSUME TypeOK, Foreign', NEW a \in Asks[tool], Switch(a)
    PROVE  HeldSlots'
<1> SUFFICES ASSUME NEW s \in WantedSlots', NEW i \in DOMAIN Chains(s)'
             PROVE  Held(files', theirs', Chains(s)'[i], Wanted(s)')
  BY DEF HeldSlots
<1>1. tool' = tool /\ tool \in Tools /\ files' = Planned(a) /\ last' = a /\ a # None
  BY AskIs DEF Switch, WantedSlots, TypeOK
<1>2. s \in DOMAIN a.slots /\ a.slots[s].model # None /\ (tool = "opencode" => a.provider # None)
  BY <1>1 DEF WantedSlots
<1>3. s \in Slots(tool)
  BY <1>1, <1>2, AskIs
<1>4. Chains(s)' = ChainsOf(tool, files', s)
  BY <1>1 DEF Chains, ChainsOf
<1>5. CASE tool = "claude"
  <2>1. Chains(s)' = CL!Chains(files', s) /\ Wanted(s)' = a.slots[s].model
    BY <1>1, <1>4, <1>5 DEF ChainsOf, Wanted
  <2>2. i = 1
    <3>1. PICK f : f = files'
      OBVIOUS
    <3> QED
      BY <1>3, <1>5, <2>1, <3>1, ClaudeChain, ToolsAre
  <2> QED
    BY <1>1, <1>2, <1>5, <2>1, <2>2, ClaudeSwitchHeld
<1>6. CASE tool = "codex"
  <2>1. Chains(s)' = CX!Chains(files', s) /\ Wanted(s)' = a.slots[s].model
    BY <1>1, <1>4, <1>6 DEF ChainsOf, Wanted
  <2> QED
    BY <1>1, <1>2, <1>6, <2>1, CodexSwitchHeld
<1>7. CASE tool = "opencode"
  <2>1. Chains(s)' = OC!Chains(files', s)
    BY <1>1, <1>4, <1>7 DEF ChainsOf
  <2>2. i = 1
    BY <2>1 DEF OC!Chains
  <2>3. s \in OC!Assigned(a)
    BY <1>2, <1>3, <1>7, ToolsAre DEF OC!Assigned
  <2>4. Wanted(s)' = OC!Namespaced(a, s)
    BY <1>1, <1>7 DEF Wanted, OC!Namespaced, OC!SlotProvider
  <2> QED
    BY <1>1, <1>2, <1>7, <2>1, <2>2, <2>3, <2>4, OpenSwitchHeld
<1> QED
  BY <1>1, <1>5, <1>6, <1>7, ToolsAre

\* Every step keeps what a switch wrote held.
LEMMA StepHeldSlots ==
    ASSUME TypeOK, Foreign, HeldSlots, [Next]_vars
    PROVE  HeldSlots'
<1>1. ASSUME NEW a \in Asks[tool], Switch(a)
      PROVE  HeldSlots'
  BY <1>1, StepForeign, SwitchHeldSlots
<1>2. ASSUME NEW p \in Providers, RemoveProvider(p)
      PROVE  HeldSlots'
  <2>1. tool' = tool /\ last' = last
    BY <1>2 DEF RemoveProvider
  <2>2. \A s \in Slots(tool) : \A i \in DOMAIN Chains(s) : \A j \in DOMAIN Chains(s)[i] :
            LET c == Chains(s)[i][j]
            IN c \in theirs' \/ (c \notin theirs /\ Value(files', c) = Value(files, c))
    <3> SUFFICES ASSUME NEW s \in Slots(tool), NEW i \in DOMAIN Chains(s), NEW j \in DOMAIN Chains(s)[i]
                 PROVE  LET c == Chains(s)[i][j]
                        IN c \in theirs' \/ (c \notin theirs /\ Value(files', c) = Value(files, c))
      OBVIOUS
    <3>1. PICK l \in Layers(tool), k \in Keys(tool) : Chains(s)[i][j] = <<l, k>> /\ Kept(tool, k)
      BY CellOf
    <3>2. files'[l][k] = files[l][k] /\ (<<l, k>> \in theirs' <=> <<l, k>> \in theirs)
      BY <1>2, <3>1, RemovalKeeps
    <3> QED
      BY <3>1, <3>2 DEF Value
  <2>3. tool = "codex" =>
            /\ files'["user"]["trust_level"] = files["user"]["trust_level"]
            /\ Trust \in theirs' <=> Trust \in theirs
    BY <1>2, RemovalKeeps, TrustIs DEF Trust
  <2> QED
    BY <2>1, <2>2, <2>3, HeldKept
<1>3. ASSUME NEW e \in Edits[tool], Edit(e)
      PROVE  HeldSlots'
  <2>1. tool' = tool /\ last' = last /\ theirs \subseteq theirs'
    BY <1>3 DEF Edit
  <2>2. \A s \in Slots(tool) : \A i \in DOMAIN Chains(s) : \A j \in DOMAIN Chains(s)[i] :
            LET c == Chains(s)[i][j]
            IN c \in theirs' \/ (c \notin theirs /\ Value(files', c) = Value(files, c))
    <3> SUFFICES ASSUME NEW s \in Slots(tool), NEW i \in DOMAIN Chains(s), NEW j \in DOMAIN Chains(s)[i]
                 PROVE  LET c == Chains(s)[i][j]
                        IN c \in theirs' \/ (c \notin theirs /\ Value(files', c) = Value(files, c))
      OBVIOUS
    <3>1. PICK l \in Layers(tool), k \in Keys(tool) : Chains(s)[i][j] = <<l, k>>
      BY CellOf
    <3> QED
      BY <1>3, <3>1, EditKeeps DEF Value
  <2>3. tool = "codex" =>
            \/ Trust \in theirs'
            \/ Trust \notin theirs /\ files'["user"]["trust_level"] = files["user"]["trust_level"]
    BY <1>3, EditKeeps, TrustIs DEF Trust
  <2> QED
    BY <2>1, <2>2, <2>3, HeldKept DEF Trust
<1>4. CASE AcceptDrift \/ SwitchOthers \/ UNCHANGED vars
  <2>1. UNCHANGED <<tool, files, theirs, last>>
    BY <1>4 DEF AcceptDrift, SwitchOthers, vars
  <2> QED
    BY <2>1 DEF HeldSlots, WantedSlots, Wanted, Chains
<1> QED
  BY <1>1, <1>2, <1>3, <1>4, NextIs

\* So every slot is as the profile wants it, or somebody else decided what it reads as.
LEMMA HeldSlotsHold ==
    ASSUME TypeOK, HeldSlots
    PROVE  SlotsHold
<1> SUFFICES ASSUME NEW s \in WantedSlots, NEW i \in DOMAIN Chains(s), Trust \notin theirs
             PROVE  \/ UpTo(Chains(s)[i], Wins(files, Chains(s)[i])) \cap theirs # {}
                    \/ Effective(files, Chains(s)[i]) = Wanted(s)
  BY DEF SlotsHold, Disputed, DisputedIn, Trust
<1>1. Held(files, theirs, Chains(s)[i], Wanted(s))
  BY DEF HeldSlots
<1>2. Wanted(s) # None /\ s \in Slots(tool) /\ tool \in Tools
  BY WantedIs DEF TypeOK
<1>3. IsChain(Chains(s)[i])
  BY <1>2, ChainsAre, ChainShape
<1> QED
  BY <1>1, <1>2, <1>3, HeldReads
-----------------------------------------------------------------------------
(* What a switch wrote of the provider is held. *)

\* A file of OpenCode's has a main model at the provider, and the provider; no file before it has one.
HeldMain(f, T, p, l) ==
    /\ \/ <<l, "model">> \in T
       \/ /\ f[l]["model"] # None /\ f[l]["model"][1] = p
          /\ <<l, p>> \in T \/ f[l][p] = p
    /\ l = "json" => <<"jsonc", "model">> \in T \/ f["jsonc"]["model"] = None

\* The profile's main model is at the profile's provider.
OwnMain == "main" \in WantedSlots /\ last.slots["main"].provider = None

HeldEndpoint ==
    last # None /\ last.provider # None =>
        LET p == last.provider
        IN /\ tool = "claude" =>
                <<"user", CL!ENDPOINT_VAR>> \in theirs \/ files["user"][CL!ENDPOINT_VAR] = p
           /\ tool = "codex" =>
                \/ <<"user", "model_provider">> \in theirs
                \/ /\ files["user"]["model_provider"] = p
                   /\ <<"user", p>> \in theirs \/ files["user"][p] = p
           /\ tool = "opencode" /\ OwnMain =>
                \E l \in {"jsonc", "json"} : HeldMain(files, theirs, p, l)

\* The keys an endpoint is found by.
LEMMA EndpointCells ==
    /\ CL!ENDPOINT_VAR \in CL!Keys /\ "user" \in CL!Layers
    /\ "model_provider" \in CX!Keys \ CX!SlotKeys /\ "user" \in CX!Layers
    /\ Providers \subseteq CX!Keys \ CX!SlotKeys /\ "model_provider" \notin Providers
    /\ "model" \in OC!Keys /\ {"jsonc", "json"} \subseteq OC!Layers /\ Providers \subseteq OC!Keys
    /\ "model" \notin Providers /\ {"enabled_providers", "rest"} \cap Providers = {}
<1>1. CL!ENDPOINT_VAR \in CL!Keys /\ "user" \in CL!Layers
  BY DEF CL!Keys, CL!ENDPOINT_VAR, CL!Layers
<1>2. "model_provider" \in CX!Keys \ CX!SlotKeys /\ "user" \in CX!Layers
  BY CodexKeys, ToolsAre
<1>3. Providers \subseteq CX!Keys \ CX!SlotKeys /\ "model_provider" \notin Providers
  BY CodexKeys
<1>4. "model" \in OC!Keys /\ {"jsonc", "json"} \subseteq OC!Layers /\ Providers \subseteq OC!Keys
  BY OpenPaths DEF OC!Keys
<1>5. "model" \notin Providers /\ {"enabled_providers", "rest"} \cap Providers = {}
  BY OpenPaths, AdaptersAssumption
<1> QED
  BY <1>1, <1>2, <1>3, <1>4, <1>5

\* A switch writes the provider and what selects it.
LEMMA SwitchHeldEndpoint ==
    ASSUME TypeOK, NEW a \in Asks[tool], Switch(a)
    PROVE  HeldEndpoint'
<1> SUFFICES ASSUME last' # None, last'.provider # None
             PROVE  LET p == last'.provider
                    IN /\ tool' = "claude" =>
                            \/ <<"user", CL!ENDPOINT_VAR>> \in theirs'
                            \/ files'["user"][CL!ENDPOINT_VAR] = p
                       /\ tool' = "codex" =>
                            \/ <<"user", "model_provider">> \in theirs'
                            \/ /\ files'["user"]["model_provider"] = p
                               /\ <<"user", p>> \in theirs' \/ files'["user"][p] = p
                       /\ tool' = "opencode" /\ OwnMain' =>
                            \E l \in {"jsonc", "json"} : HeldMain(files', theirs', p, l)
  BY DEF HeldEndpoint
<1>1. tool' = tool /\ tool \in Tools /\ files' = Planned(a) /\ last' = a /\ a.provider \in Providers
  BY AskIs DEF Switch, TypeOK
<1> DEFINE p == a.provider
<1>2. CASE tool = "claude"
  <2>1. files'["user"][CL!ENDPOINT_VAR] = CL!Put(View, CL!ENDPOINT_VAR, a.provider)
    BY <1>1, <1>2, ClaudePlan
  <2>2. files'["user"][CL!ENDPOINT_VAR] = a.provider
    BY <1>1, <2>1 DEF CL!Put
  <2> QED
    BY <1>1, <1>2, <2>2
<1>3. CASE tool = "codex"
  <2>1. DOMAIN files = CX!Layers /\ files' = CX!Planned(files, a)
    BY <1>1, <1>3, ToolsAre DEF TypeOK, Filed, Planned
  <2>2. \A k \in CX!Keys \ CX!SlotKeys :
            files'["user"][k] = IF a.provider # None /\ k \in {"model_provider", a.provider}
                                THEN a.provider ELSE files["user"][k]
    BY <1>1, <2>1, CodexPlanned
  <2>3. files'["user"]["model_provider"] = p /\ files'["user"][p] = p
    BY <1>1, <2>2, EndpointCells
  <2> QED
    BY <1>1, <1>3, <2>3
<1>4. CASE tool = "opencode"
  <2> SUFFICES ASSUME OwnMain'
               PROVE  \E l \in {"jsonc", "json"} : HeldMain(files', theirs', p, l)
    BY <1>1, <1>4
  <2> DEFINE w == OC!Written(files)
  <2>1. /\ DOMAIN files = OC!Layers /\ (\A l \in OC!Layers : DOMAIN files[l] = OC!Keys)
        /\ files' = OC!Planned(files, a)
    BY <1>1, <1>4, ToolsAre DEF TypeOK, Filed, Planned
  <2>2. "main" \in DOMAIN a.slots /\ a.slots["main"].model # None /\ a.slots["main"].provider = None
    BY <1>1 DEF OwnMain, WantedSlots
  <2>3. "main" \in OC!Assigned(a) /\ OC!Namespaced(a, "main") = <<p, a.slots["main"].model>>
    BY <2>2, OpenPaths DEF OC!Assigned, OC!Namespaced, OC!SlotProvider
  <2>4. files'[w]["model"] = <<p, a.slots["main"].model>>
    <3>1. \A s \in OC!Slots :
              files'[w][OC!Path[s]] = IF a.provider # None /\ s \in OC!Assigned(a)
                                      THEN OC!Namespaced(a, s) ELSE files[w][OC!Path[s]]
      BY <1>1, <2>1, OpenPlanned
    <3> QED
      BY <1>1, <2>3, <3>1, OpenPaths
  <2>5. files'[w][p] = p
    BY <1>1, <2>1, OpenPlanned
  <2>6. files'[w]["model"] # None /\ files'[w]["model"][1] = p
    <3>1. a.slots["main"].model \in Models
      BY <1>1, <2>2, AskIs
    <3>2. <<p, a.slots["main"].model>> \in Providers \X Models
      BY <1>1, <3>1
    <3> QED
      BY <2>4, <3>2, AdaptersAssumption
  <2>7. w \in {"jsonc", "json"}
    BY OpenWritten
  <2>8. w = "json" => files'["jsonc"]["model"] = None
    <3>1. \A l \in OC!Layers : l # w => files'[l] = files[l]
      BY <1>1, <2>1, OpenPlanned
    <3> QED
      BY <1>4, <3>1, WrittenFirst, EndpointCells
  <2> QED
    BY <2>5, <2>6, <2>7, <2>8 DEF HeldMain
<1> QED
  BY <1>1, <1>2, <1>3, <1>4, ToolsAre

\* A removal of another provider leaves both, and the selected one is not removed.
LEMMA RemovalHeldEndpoint ==
    ASSUME TypeOK, HeldEndpoint, NEW q \in Providers, RemoveProvider(q)
    PROVE  HeldEndpoint'
<1>1. tool' = tool /\ last' = last /\ tool \in Tools /\ ~Refuses(q) /\ files' = Removal(q)
  BY DEF RemoveProvider, TypeOK
<1> SUFFICES ASSUME last # None, last.provider # None
             PROVE  LET p == last.provider
                    IN /\ tool = "claude" =>
                            \/ <<"user", CL!ENDPOINT_VAR>> \in theirs'
                            \/ files'["user"][CL!ENDPOINT_VAR] = p
                       /\ tool = "codex" =>
                            \/ <<"user", "model_provider">> \in theirs'
                            \/ /\ files'["user"]["model_provider"] = p
                               /\ <<"user", p>> \in theirs' \/ files'["user"][p] = p
                       /\ tool = "opencode" /\ OwnMain' =>
                            \E l \in {"jsonc", "json"} : HeldMain(files', theirs', p, l)
  BY <1>1 DEF HeldEndpoint
<1> DEFINE p == last.provider
<1>2. p \in Providers /\ DOMAIN files = Layers(tool) /\ \A l \in Layers(tool) : DOMAIN files[l] = Keys(tool)
  BY AskIs DEF TypeOK, Filed
<1>3. CASE tool = "claude"
  <2>1. Kept(tool, CL!ENDPOINT_VAR) /\ "user" \in Layers(tool) /\ CL!ENDPOINT_VAR \in Keys(tool)
    BY <1>3, EndpointCells, ToolsAre DEF Kept
  <2>2. /\ files'["user"][CL!ENDPOINT_VAR] = files["user"][CL!ENDPOINT_VAR]
        /\ <<"user", CL!ENDPOINT_VAR>> \in theirs' <=> <<"user", CL!ENDPOINT_VAR>> \in theirs
    BY <2>1, RemovalKeeps
  <2> QED
    BY <1>3, <2>2 DEF HeldEndpoint
<1>4. CASE tool = "codex"
  <2>1. /\ Kept(tool, "model_provider") /\ "user" \in Layers(tool)
        /\ "model_provider" \in Keys(tool) /\ p \in Keys(tool)
    BY <1>2, <1>4, EndpointCells, ToolsAre DEF Kept
  <2>2. /\ files'["user"]["model_provider"] = files["user"]["model_provider"]
        /\ <<"user", "model_provider">> \in theirs' <=> <<"user", "model_provider">> \in theirs
    BY <2>1, RemovalKeeps
  <2>3. CASE <<"user", "model_provider">> \in theirs
    BY <1>4, <2>2, <2>3
  <2>4. CASE <<"user", "model_provider">> \notin theirs
    <3>1. files["user"]["model_provider"] = p /\ (<<"user", p>> \in theirs \/ files["user"][p] = p)
      BY <1>4, <2>4 DEF HeldEndpoint
    <3>2. p # q
      BY <1>1, <1>4, <3>1 DEF Refuses, CX!Refuses
    <3>3. files'["user"][p] = files["user"][p]
      <4>1. files' = CX!Removed(files, q) /\ DOMAIN files = CX!Layers /\ p \in DOMAIN files["user"]
        BY <1>1, <1>2, <1>4, <2>1, ToolsAre DEF Removal
      <4> QED
        BY <3>2, <4>1, CodexRemoved
    <3>4. <<"user", p>> \in theirs => <<"user", p>> \in theirs'
      BY <3>3, StillTheirs DEF RemoveProvider
    <3> QED
      BY <1>4, <2>2, <3>1, <3>3, <3>4
  <2> QED
    BY <2>3, <2>4
<1>5. CASE tool = "opencode"
  <2> SUFFICES ASSUME OwnMain'
               PROVE  \E l \in {"jsonc", "json"} : HeldMain(files', theirs', p, l)
    BY <1>5
  <2>1. OwnMain
    BY <1>1 DEF OwnMain, WantedSlots
  <2>2. PICK l \in {"jsonc", "json"} : HeldMain(files, theirs, p, l)
    BY <1>5, <2>1 DEF HeldEndpoint
  <2>3. Kept(tool, "model") /\ "model" \in Keys(tool) /\ p \in Keys(tool)
        /\ {"jsonc", "json"} \subseteq Layers(tool)
    BY <1>2, <1>5, EndpointCells, ToolsAre DEF Kept
  <2>4. \A x \in {"jsonc", "json"} : /\ files'[x]["model"] = files[x]["model"]
                                     /\ <<x, "model">> \in theirs' <=> <<x, "model">> \in theirs
    BY <2>3, RemovalKeeps
  <2>5. ASSUME <<l, "model">> \notin theirs
        PROVE  /\ files[l]["model"] # None /\ files[l]["model"][1] = p
               /\ <<l, p>> \in theirs' \/ files'[l][p] = p
    <3>1. /\ files[l]["model"] # None /\ files[l]["model"][1] = p
          /\ <<l, p>> \in theirs \/ files[l][p] = p
      BY <2>2, <2>5 DEF HeldMain
    <3>2. files'[l][p] = files[l][p]
      <4> DEFINE w == OC!Written(files)
      <4>1. l = w => p # q
        BY <1>1, <1>5, <3>1 DEF Refuses, OC!Refuses
      <4>2. /\ files' = OC!Removed(files, q) /\ DOMAIN files = OC!Layers
            /\ \A x \in OC!Layers : DOMAIN files[x] = OC!Keys
        BY <1>1, <1>2, <1>5, ToolsAre DEF Removal
      <4>3. /\ \A x \in OC!Layers : x # w => files'[x] = files[x]
            /\ \A k \in OC!Keys \ {q, "enabled_providers", "rest"} : files'[w][k] = files[w][k]
        BY <4>2, OpenRemoved
      <4>4. l \in OC!Layers /\ p \in OC!Keys /\ p \notin {"enabled_providers", "rest"}
        BY <1>2, EndpointCells
      <4> QED
        BY <4>1, <4>3, <4>4
    <3>3. <<l, p>> \in theirs => <<l, p>> \in theirs'
      BY <3>2, StillTheirs DEF RemoveProvider
    <3> QED
      BY <3>1, <3>2, <3>3
  <2> QED
    BY <2>2, <2>4, <2>5 DEF HeldMain
<1> QED
  BY <1>1, <1>3, <1>4, <1>5, ToolsAre

\* What somebody else writes is theirs, the rest is as it was.
LEMMA EditHeldEndpoint ==
    ASSUME TypeOK, HeldEndpoint, NEW e \in Edits[tool], Edit(e)
    PROVE  HeldEndpoint'
<1>1. tool' = tool /\ last' = last /\ tool \in Tools /\ (OwnMain' <=> OwnMain)
  BY DEF Edit, TypeOK, OwnMain, WantedSlots
<1> SUFFICES ASSUME last # None, last.provider # None
             PROVE  LET p == last.provider
                    IN /\ tool = "claude" =>
                            \/ <<"user", CL!ENDPOINT_VAR>> \in theirs'
                            \/ files'["user"][CL!ENDPOINT_VAR] = p
                       /\ tool = "codex" =>
                            \/ <<"user", "model_provider">> \in theirs'
                            \/ /\ files'["user"]["model_provider"] = p
                               /\ <<"user", p>> \in theirs' \/ files'["user"][p] = p
                       /\ tool = "opencode" /\ OwnMain =>
                            \E l \in {"jsonc", "json"} : HeldMain(files', theirs', p, l)
  BY <1>1 DEF HeldEndpoint
<1> DEFINE p == last.provider
<1>2. p \in Providers
  BY AskIs DEF TypeOK
<1>3. \A l \in Layers(tool), k \in Keys(tool) :
          <<l, k>> \in theirs' \/ (<<l, k>> \notin theirs /\ files'[l][k] = files[l][k])
  BY EditKeeps
<1>4. CASE tool = "claude"
  <2>1. "user" \in Layers(tool) /\ CL!ENDPOINT_VAR \in Keys(tool)
    BY <1>4, EndpointCells, ToolsAre
  <2>2. <<"user", CL!ENDPOINT_VAR>> \in theirs \/ files["user"][CL!ENDPOINT_VAR] = p
    BY <1>4 DEF HeldEndpoint
  <2> QED
    BY <1>3, <1>4, <2>1, <2>2
<1>5. CASE tool = "codex"
  <2>1. "user" \in Layers(tool) /\ "model_provider" \in Keys(tool) /\ p \in Keys(tool)
    BY <1>2, <1>5, EndpointCells, ToolsAre
  <2>2. \/ <<"user", "model_provider">> \in theirs
        \/ files["user"]["model_provider"] = p /\ (<<"user", p>> \in theirs \/ files["user"][p] = p)
    BY <1>5 DEF HeldEndpoint
  <2> QED
    BY <1>3, <1>5, <2>1, <2>2
<1>6. CASE tool = "opencode"
  <2> SUFFICES ASSUME OwnMain
               PROVE  \E l \in {"jsonc", "json"} : HeldMain(files', theirs', p, l)
    BY <1>6
  <2>1. PICK l \in {"jsonc", "json"} : HeldMain(files, theirs, p, l)
    BY <1>6 DEF HeldEndpoint
  <2>2. "model" \in Keys(tool) /\ p \in Keys(tool) /\ {"jsonc", "json"} \subseteq Layers(tool)
    BY <1>2, <1>6, EndpointCells, ToolsAre
  <2>3. \A x \in {"jsonc", "json"}, k \in {"model", p} :
            <<x, k>> \in theirs' \/ (<<x, k>> \notin theirs /\ files'[x][k] = files[x][k])
    BY <1>3, <2>2
  <2> QED
    BY <2>1, <2>3 DEF HeldMain
<1> QED
  BY <1>1, <1>4, <1>5, <1>6, ToolsAre

\* Every step keeps what a switch wrote of the provider held.
LEMMA StepHeldEndpoint ==
    ASSUME TypeOK, HeldEndpoint, [Next]_vars
    PROVE  HeldEndpoint'
<1>1. ASSUME NEW a \in Asks[tool], Switch(a)
      PROVE  HeldEndpoint'
  BY <1>1, SwitchHeldEndpoint
<1>2. ASSUME NEW p \in Providers, RemoveProvider(p)
      PROVE  HeldEndpoint'
  BY <1>2, RemovalHeldEndpoint
<1>3. ASSUME NEW e \in Edits[tool], Edit(e)
      PROVE  HeldEndpoint'
  BY <1>3, EditHeldEndpoint
<1>4. CASE AcceptDrift \/ SwitchOthers \/ UNCHANGED vars
  <2>1. UNCHANGED <<tool, files, theirs, last>>
    BY <1>4 DEF AcceptDrift, SwitchOthers, vars
  <2> QED
    BY <2>1 DEF HeldEndpoint, OwnMain, WantedSlots
<1> QED
  BY <1>1, <1>2, <1>3, <1>4, NextIs

\* The first two cells of an environment variable are in the settings files.
LEMMA VarIs ==
    ASSUME NEW v
    PROVE  /\ DOMAIN CL!Var(v) = 1..3 /\ CL!Var(v)[1] = <<"project", v>>
           /\ CL!Var(v)[2] = <<"user", v>> /\ CL!Var(v)[3] = <<"shell", v>>
           /\ IsChain(CL!Var(v)) \/ v \notin CL!Keys
<1>1. /\ DOMAIN CL!Var(v) = 1..3 /\ CL!Var(v)[1] = <<"project", v>>
      /\ CL!Var(v)[2] = <<"user", v>> /\ CL!Var(v)[3] = <<"shell", v>>
  BY DEF CL!Var
<1>2. v \in CL!Keys => \A i \in 1..3 : CL!Var(v)[i] \in CL!Layers \X CL!Keys
  BY <1>1, ToolsAre
<1>3. None \notin CL!Layers \X CL!Keys
  BY AdaptersAssumption, ToolsAre
<1> QED
  BY <1>1, <1>2, <1>3 DEF IsChain

\* The tools read their chains as module Chain does.
LEMMA SameReading ==
    ASSUME NEW f, NEW c
    PROVE  /\ CL!Effective(f, c) = Effective(f, c)
           /\ CX!Effective(f, c) = Effective(f, c)
           /\ OC!Effective(f, c) = Effective(f, c)
<1>1. CL!Effective(f, c) = Effective(f, c)
  BY DEF CL!Effective, Effective, CL!Wins, Wins, CL!Speaking, Speaking, CL!Value, Value, CL!First, First
<1>2. CX!Effective(f, c) = Effective(f, c)
  BY DEF CX!Effective, Effective, CX!Wins, Wins, CX!Speaking, Speaking, CX!Value, Value, CX!First, First
<1>3. OC!Effective(f, c) = Effective(f, c)
  BY DEF OC!Effective, Effective, OC!Wins, Wins, OC!Speaking, Speaking, OC!Value, Value, OC!First, First
<1> QED
  BY <1>1, <1>2, <1>3

\* A key of the denylist reads as the user's file has it.
LEMMA UserOnly ==
    ASSUME NEW f, NEW k \in CX!PROJECT_DENYLIST \cap CX!Keys
    PROVE  CX!Effective(f, CX!Consulted(f, k)) = f["user"][k]
<1> DEFINE c == CX!Consulted(f, k)
<1>1. DOMAIN c = 1..1 /\ c[1] = <<"user", k>>
  BY CodexConsulted
<1> HIDE DEF c
<1>2. IsChain(c)
  <2>1. <<"user", k>> \in CX!Layers \X CX!Keys
    BY ToolsAre
  <2>2. <<"user", k>> # None
    BY <2>1, AdaptersAssumption, ToolsAre
  <2> QED
    BY <1>1, <2>2 DEF IsChain
<1>3. CASE f["user"][k] = None
  <2>1. \A i \in DOMAIN c : Value(f, c[i]) = None
    BY <1>1, <1>3 DEF Value
  <2>2. Effective(f, c) = None
    BY <1>2, <2>1, WinsIs
  <2> QED
    BY <1>3, <2>2, SameReading DEF c
<1>4. CASE f["user"][k] # None
  <2>1. 1 \in DOMAIN c /\ Silent(f, c, 1) /\ Value(f, c[1]) = f["user"][k]
    BY <1>1 DEF Silent, Value
  <2>2. Effective(f, c) = f["user"][k]
    BY <1>2, <1>4, <2>1, EffectiveIs
  <2> QED
    BY <2>2, SameReading DEF c
<1> QED
  BY <1>3, <1>4

\* Nobody else having written where it is found, the provider the tool sends to is the profile's.
LEMMA HeldEndpointHolds ==
    ASSUME TypeOK, Foreign, HeldEndpoint
    PROVE  EndpointHolds
<1> SUFFICES ASSUME last # None, last.provider # None,
                    tool = "opencode" => OwnMain,
                    \A c \in theirs : c[1] = "shell" \/ c[2] \notin EndpointKeys
             PROVE  Endpoint = last.provider
  BY DEF EndpointHolds, OwnMain
<1> DEFINE p == last.provider
<1>1. tool \in Tools /\ p \in Providers /\ p # None
  BY AskIs DEF TypeOK
<1>2. \A l \in Layers(tool) \ {"shell"}, k \in Keys(tool) :
          k \in EndpointKeys => <<l, k>> \notin theirs /\ (~Writes(tool, l, k) => files[l][k] = None)
  BY DEF Foreign
<1>3. CASE tool = "claude"
  <2> DEFINE c == CL!Var(CL!ENDPOINT_VAR)
  <2>1. CL!ENDPOINT_VAR \in EndpointKeys /\ CL!ENDPOINT_VAR \in Keys(tool)
    BY <1>3, EndpointCells, ToolsAre DEF EndpointKeys
  <2>2. "project" \in Layers(tool) \ {"shell"} /\ "user" \in Layers(tool) \ {"shell"}
    BY <1>3, ToolsAre
  <2>3. files["project"][CL!ENDPOINT_VAR] = None
    BY <1>2, <1>3, <2>1, <2>2 DEF Writes
  <2>4. files["user"][CL!ENDPOINT_VAR] = p
    BY <1>2, <1>3, <2>1, <2>2 DEF HeldEndpoint
  <2>5. /\ IsChain(c) /\ DOMAIN c = 1..3
        /\ c[1] = <<"project", CL!ENDPOINT_VAR>> /\ c[2] = <<"user", CL!ENDPOINT_VAR>>
    BY EndpointCells, VarIs
  <2> HIDE DEF c
  <2>6. 2 \in DOMAIN c /\ Silent(files, c, 2) /\ Value(files, c[2]) = p
    BY <2>3, <2>4, <2>5 DEF Silent, Value
  <2>7. Effective(files, c) = p
    BY <1>1, <2>5, <2>6, EffectiveIs
  <2>8. Endpoint = CL!Effective(files, c)
    BY <1>3 DEF Endpoint, CL!Endpoint, c
  <2> QED
    BY <2>7, <2>8, SameReading
<1>4. CASE tool = "codex"
  <2>1. {"model_provider"} \cup Providers \subseteq EndpointKeys \cap Keys(tool)
         /\ "user" \in Layers(tool) \ {"shell"}
    BY <1>4, EndpointCells, ToolsAre DEF EndpointKeys
  <2>2. files["user"]["model_provider"] = p /\ files["user"][p] = p
    BY <1>1, <1>2, <1>4, <2>1 DEF HeldEndpoint
  <2>3. {"model_provider", p} \subseteq CX!PROJECT_DENYLIST \cap CX!Keys
    BY <1>1, EndpointCells DEF CX!PROJECT_DENYLIST
  <2>4. CX!Effective(files, CX!Consulted(files, "model_provider")) = p
    BY <2>2, <2>3, UserOnly
  <2>5. CX!Effective(files, CX!Consulted(files, p)) = p
    BY <2>2, <2>3, UserOnly
  <2>6. CX!Endpoint(files) = p
    BY <1>1, <2>4, <2>5 DEF CX!Endpoint
  <2> QED
    BY <1>4, <2>6 DEF Endpoint
<1>5. CASE tool = "opencode"
  <2> DEFINE c == OC!Consulted("model")
             M(x) == files[x]["model"]
  <2>1. {"model"} \cup Providers \subseteq EndpointKeys \cap Keys(tool)
    BY <1>5, EndpointCells, ToolsAre DEF EndpointKeys
  <2>2. {"project", "install", "jsonc", "json"} \subseteq Layers(tool) \ {"shell"}
    BY <1>5, ToolsAre
  <2>3. M("project") = None /\ M("install") = None
    BY <1>2, <1>5, <2>1, <2>2 DEF Writes
  <2>4. PICK l \in {"jsonc", "json"} : HeldMain(files, theirs, p, l)
    BY <1>5 DEF HeldEndpoint
  <2>5. \A x \in {"jsonc", "json"} : <<x, "model">> \notin theirs /\ <<x, p>> \notin theirs
    BY <1>1, <1>2, <2>1, <2>2
  <2>6. M(l) # None /\ M(l)[1] = p /\ files[l][p] = p /\ (l = "json" => M("jsonc") = None)
    BY <2>4, <2>5 DEF HeldMain
  <2>7. /\ DOMAIN c = 1..4 /\ c[1] = <<"project", "model">> /\ c[2] = <<"install", "model">>
        /\ c[3] = <<"jsonc", "model">> /\ c[4] = <<"json", "model">>
    BY OpenConsulted
  <2> HIDE DEF c
  <2>8. IsChain(c)
    <3>1. \A x \in OC!Layers : <<x, "model">> \in OC!Layers \X OC!Keys
      BY EndpointCells
    <3>2. \A x \in OC!Layers : <<x, "model">> # None
      BY <3>1, AdaptersAssumption, ToolsAre
    <3>3. \A i \in 1..4 : c[i] # None
      BY <2>7, <3>2, ToolsAre
    <3> QED
      BY <2>7, <3>3 DEF IsChain
  <2>9. Effective(files, c) = M(l)
    <3>1. CASE l = "jsonc"
      <4>1. Silent(files, c, 3)
        <5>1. \A j \in {1, 2} : Value(files, c[j]) = None
          BY <2>3, <2>7 DEF Value
        <5> QED
          BY <5>1 DEF Silent
      <4>2. 3 \in DOMAIN c /\ Value(files, c[3]) = M(l)
        BY <2>7, <3>1 DEF Value
      <4> QED
        BY <2>6, <2>8, <4>1, <4>2, EffectiveIs
    <3>2. CASE l = "json"
      <4>1. Silent(files, c, 4)
        <5>1. \A j \in {1, 2, 3} : Value(files, c[j]) = None
          BY <2>3, <2>6, <2>7, <3>2 DEF Value
        <5> QED
          BY <5>1 DEF Silent
      <4>2. 4 \in DOMAIN c /\ Value(files, c[4]) = M(l)
        BY <2>7, <3>2 DEF Value
      <4> QED
        BY <2>6, <2>8, <4>1, <4>2, EffectiveIs
    <3> QED
      BY <3>1, <3>2
  <2>10. OC!Effective(files, OC!Consulted("model")) = M(l)
    BY <2>9, SameReading DEF c
  <2>11. l \in OC!Layers
    BY EndpointCells
  <2>12. OC!Endpoint(files) = p
    BY <1>1, <2>6, <2>10, <2>11 DEF OC!Endpoint
  <2> QED
    BY <1>5, <2>12 DEF Endpoint
<1> QED
  BY <1>1, <1>3, <1>4, <1>5, ToolsAre

\* Nothing is wanted before the first switch.
LEMMA InitHeld ==
    ASSUME Init
    PROVE  HeldSlots /\ HeldEndpoint
BY DEF Init, HeldSlots, HeldEndpoint, WantedSlots

\* After any switches, removals, accepts and edits, what a tool will use in a slot is what the
\* profile last written says, and so is the provider it sends to, unless somebody else wrote a
\* place that decides it.  (claude.rs:341-365, codex.rs:194-214, opencode.rs:276-308)
THEOREM SwitchHoldsAlways == Spec => []SwitchHolds
<1> DEFINE Inv == TypeOK /\ Foreign /\ HeldSlots /\ HeldEndpoint
<1>1. Init => Inv
  BY InitTypes, InitHeld
<1>2. Inv /\ [Next]_vars => Inv'
  BY StepTypeOK, StepForeign, StepHeldSlots, StepHeldEndpoint
<1>3. Inv => SwitchHolds
  BY HeldSlotsHold, HeldEndpointHolds DEF SwitchHolds
<1> QED
  BY <1>1, <1>2, <1>3, PTL DEF Spec
-----------------------------------------------------------------------------
(* What a profile assigns nothing is cleared. *)

\* The login shell exports what it exported at first.
ShellStays == \A e \in Edits["claude"] : e[1] # "shell"

\* Tapkey knows of no export of the variable.
Unexported(f, known, name) == "shell" \in known => f["shell"][name] = None

ClearedSlots ==
    last # None =>
        /\ tool = "claude" => \A s \in CL!Slots \ WantedSlots :
                LET own == CL!OWNED[s]
                IN \/ <<"user", own>> \in theirs
                   \/ files["user"][own] = Blank
                   \/ files["user"][own] = None /\ Unexported(files, given, own)
        /\ tool = "codex" => \A s \in DOMAIN last.slots \ WantedSlots :
                \A i \in DOMAIN CX!Paths[s] :
                    <<"user", CX!Paths[s][i]>> \in theirs \/ files["user"][CX!Paths[s][i]] = None

\* A switch takes out, or empties, what the profile assigns nothing.
LEMMA SwitchClearedSlots ==
    ASSUME TypeOK, NEW a \in Asks[tool], Switch(a)
    PROVE  ClearedSlots'
<1> SUFFICES ASSUME last' # None
             PROVE  ClearedSlots'
  BY DEF ClearedSlots
<1>1. tool' = tool /\ tool \in Tools /\ given' = given /\ files' = Planned(a) /\ last' = a
  BY DEF Switch, TypeOK
<1>2. a # None /\ a.provider \in Providers \cup {None} /\ DOMAIN a.slots \subseteq Slots(tool)
  BY AskIs, <1>1
<1>3. ASSUME tool = "claude", NEW s \in CL!Slots \ WantedSlots'
      PROVE  LET own == CL!OWNED[s]
             IN \/ files'["user"][own] = Blank
                \/ files'["user"][own] = None /\ Unexported(files', given', own)
  <2>1. View["shell"] = files["shell"] \/ "shell" \notin given
    BY <1>3, ViewIs, ToolsAre DEF Hidden
  <2>2. CL!Model(a, s) = None
    BY <1>1, <1>2, <1>3 DEF WantedSlots, CL!Model
  <2>3. files'["user"][CL!OWNED[s]] = CL!Put(View, CL!OWNED[s], CL!Model(a, s))
    BY <1>1, <1>3, ClaudePlan
  <2>4. files'["shell"] = files["shell"]
    BY <1>1, <1>3, ClaudePlan
  <2> QED
    BY <1>1, <2>1, <2>2, <2>3, <2>4 DEF CL!Put, CL!Cleared, Unexported
<1>4. ASSUME tool = "codex", NEW s \in DOMAIN a.slots \ WantedSlots', NEW i \in DOMAIN CX!Paths[s]
      PROVE  files'["user"][CX!Paths[s][i]] = None
  <2>1. DOMAIN files = CX!Layers /\ files' = CX!Planned(files, a) /\ s \in CX!Slots
    BY <1>1, <1>2, <1>4, ToolsAre DEF TypeOK, Filed, Planned
  <2>2. a.slots[s].model = None
    BY <1>1, <1>2, <1>4 DEF WantedSlots
  <2> QED
    BY <1>2, <1>4, <2>1, <2>2, CodexPlanned
<1>5. tool = "claude" => \A s \in CL!Slots \ WantedSlots' :
          LET own == CL!OWNED[s]
          IN \/ files'["user"][own] = Blank
             \/ files'["user"][own] = None /\ Unexported(files', given', own)
  BY <1>3
<1>6. tool = "codex" => \A s \in DOMAIN a.slots \ WantedSlots' :
          \A i \in DOMAIN CX!Paths[s] : files'["user"][CX!Paths[s][i]] = None
  BY <1>4
<1> QED
  BY <1>1, <1>5, <1>6 DEF ClearedSlots

\* It stays cleared while each cell is as it was, or somebody else's.
LEMMA ClearedKept ==
    ASSUME TypeOK, ClearedSlots, tool' = tool, given' = given, last' = last,
           \A l \in Layers(tool), k \in Keys(tool) : Kept(tool, k) =>
               <<l, k>> \in theirs' \/ (<<l, k>> \notin theirs /\ files'[l][k] = files[l][k]),
           tool = "claude" => \A k \in Keys(tool) : files'["shell"][k] = files["shell"][k]
    PROVE  ClearedSlots'
<1> SUFFICES ASSUME last # None
             PROVE  ClearedSlots'
  BY DEF ClearedSlots
<1>1. WantedSlots' = WantedSlots /\ tool \in Tools
  BY DEF WantedSlots, TypeOK
<1>2. ASSUME tool = "claude", NEW s \in CL!Slots \ WantedSlots
      PROVE  LET own == CL!OWNED[s]
             IN \/ <<"user", own>> \in theirs'
                \/ files'["user"][own] = Blank
                \/ files'["user"][own] = None /\ Unexported(files', given', own)
  <2>1. "user" \in Layers(tool) /\ CL!OWNED[s] \in Keys(tool) /\ Kept(tool, CL!OWNED[s])
    BY <1>2, ClaudeSlots, ToolsAre DEF Kept
  <2>2. LET own == CL!OWNED[s]
        IN \/ <<"user", own>> \in theirs
           \/ files["user"][own] = Blank
           \/ files["user"][own] = None /\ Unexported(files, given, own)
    BY <1>2 DEF ClearedSlots
  <2>3. files'["shell"][CL!OWNED[s]] = files["shell"][CL!OWNED[s]]
    BY <1>2, <2>1
  <2> QED
    BY <2>1, <2>2, <2>3 DEF Unexported
<1>3. ASSUME tool = "codex", NEW s \in DOMAIN last.slots \ WantedSlots, NEW i \in DOMAIN CX!Paths[s]
      PROVE  <<"user", CX!Paths[s][i]>> \in theirs' \/ files'["user"][CX!Paths[s][i]] = None
  <2>1. s \in CX!Slots
    BY <1>3, AskIs, ToolsAre DEF TypeOK
  <2>2. "user" \in Layers(tool) /\ CX!Paths[s][i] \in Keys(tool)
    BY <1>3, <2>1, CodexSlots, CodexKeys, ToolsAre
  <2>3. Kept(tool, CX!Paths[s][i])
    <3>1. CX!Paths[s][i] \notin Providers
      BY <1>3, <2>1, CodexSlots, CodexKeys
    <3>2. CX!Paths[s][i] \notin {"enabled_providers", "rest"}
      BY <1>3, <2>1, CodexPaths
    <3> QED
      BY <3>1, <3>2 DEF Kept
  <2>4. <<"user", CX!Paths[s][i]>> \in theirs \/ files["user"][CX!Paths[s][i]] = None
    BY <1>3 DEF ClearedSlots
  <2> QED
    BY <2>2, <2>3, <2>4
<1> QED
  BY <1>1, <1>2, <1>3 DEF ClearedSlots

\* Every step keeps it cleared, the shell's exports being what they were.
LEMMA StepClearedSlots ==
    ASSUME ShellStays, TypeOK, ClearedSlots, [Next]_vars
    PROVE  ClearedSlots'
<1>1. ASSUME NEW a \in Asks[tool], Switch(a)
      PROVE  ClearedSlots'
  BY <1>1, SwitchClearedSlots
<1>2. ASSUME NEW p \in Providers, RemoveProvider(p)
      PROVE  ClearedSlots'
  <2>1. \A l \in Layers(tool), k \in Keys(tool) : Kept(tool, k) =>
            <<l, k>> \in theirs' \/ (<<l, k>> \notin theirs /\ files'[l][k] = files[l][k])
    BY <1>2, RemovalKeeps
  <2>2. tool' = tool /\ given' = given /\ last' = last /\ (tool = "claude" => files' = files)
    BY <1>2 DEF RemoveProvider, Removal
  <2> QED
    BY <2>1, <2>2, ClearedKept
<1>3. ASSUME NEW e \in Edits[tool], Edit(e)
      PROVE  ClearedSlots'
  <2>1. \A l \in Layers(tool), k \in Keys(tool) : Kept(tool, k) =>
            <<l, k>> \in theirs' \/ (<<l, k>> \notin theirs /\ files'[l][k] = files[l][k])
    BY <1>3, EditKeeps
  <2>2. tool' = tool /\ given' = given /\ last' = last
    BY <1>3 DEF Edit
  <2>3. tool = "claude" => \A k \in Keys(tool) : files'["shell"][k] = files["shell"][k]
    BY <1>3, EditIs, ToolsAre DEF ShellStays
  <2> QED
    BY <2>1, <2>2, <2>3, ClearedKept
<1>4. CASE AcceptDrift \/ SwitchOthers \/ UNCHANGED vars
  <2>1. UNCHANGED <<tool, given, files, theirs, last>>
    BY <1>4 DEF AcceptDrift, SwitchOthers, vars
  <2> QED
    BY <2>1 DEF ClearedSlots, WantedSlots
<1> QED
  BY <1>1, <1>2, <1>3, <1>4, NextIs

\* What such a slot still reads is somebody else's.
LEMMA ClearedIsClear ==
    ASSUME TypeOK, Foreign, ClearedSlots
    PROVE  UnassignedIsCleared
<1> SUFFICES ASSUME last # None, tool # "opencode", NEW s \in Slots(tool) \ WantedSlots,
                    tool = "claude" \/ s \in DOMAIN last.slots,
                    NEW i \in DOMAIN Chains(s)
             PROVE  LET winner == Wins(files, Chains(s)[i])
                    IN \/ winner = None
                       \/ Value(files, winner) = Blank
                       \/ winner[2] = CL!DEPRECATED_UTILITY
                       \/ winner \in theirs /\ ~Exposed(s, winner)
                       \/ tool = "claude" /\ <<"user", CL!OWNED[s]>> \in theirs
  BY DEF UnassignedIsCleared
<1> DEFINE c == Chains(s)[i]
           winner == Wins(files, c)
<1>1. tool \in Tools /\ Chains(s) = ChainsOf(tool, files, s)
  BY ChainsAre DEF TypeOK
<1>2. IsChain(c)
  BY <1>1, ChainShape
<1> SUFFICES ASSUME NEW j \in DOMAIN c, winner = c[j], Silent(files, c, j), Value(files, c[j]) # None
             PROVE  \/ Value(files, winner) = Blank
                    \/ winner[2] = CL!DEPRECATED_UTILITY
                    \/ winner \in theirs /\ ~Exposed(s, winner)
                    \/ tool = "claude" /\ <<"user", CL!OWNED[s]>> \in theirs
  BY <1>2, WinsIs
<1>3. PICK l \in Layers(tool), k \in Keys(tool) : c[j] = <<l, k>>
  BY CellOf
<1>4. files[l][k] # None /\ (~Writes(tool, l, k) => <<l, k>> \in theirs)
  BY <1>3 DEF Foreign, Value
<1>5. CASE tool = "claude"
  <2> DEFINE own == CL!OWNED[s]
  <2>1. s \in CL!Slots /\ Chains(s) = CL!Chains(files, s) /\ i = 1
    BY <1>1, <1>5, ClaudeChain, ToolsAre DEF ChainsOf
  <2>2. \/ <<"user", own>> \in theirs
        \/ files["user"][own] = Blank
        \/ files["user"][own] = None /\ Unexported(files, given, own)
    BY <1>5, <2>1 DEF ClearedSlots
  <2>3. CASE k = CL!DEPRECATED_UTILITY
    BY <1>3, <2>3
  <2>4. CASE k \in {"model", "ANTHROPIC_DEFAULT_MODEL"}
    <3>1. k # own /\ ~Writes(tool, l, k)
      BY <1>5, <2>1, <2>4, ClaudeSlots DEF Writes, CL!OwnedPaths
    <3> QED
      BY <1>3, <1>4, <3>1 DEF Exposed
  <2>5. CASE k = own
    <3>1. l \in {"project", "user", "shell"}
      BY <1>5, ToolsAre
    <3>2. CASE l = "project"
      BY <1>3, <1>4, <1>5, <3>2 DEF Writes, Exposed
    <3>3. CASE l = "user"
      BY <1>3, <1>4, <1>5, <2>2, <2>5, <3>3 DEF Value
    <3>4. CASE l = "shell"
      <4>1. CASE files["user"][own] = Blank
        <5>1. FALSE
          <6>1. Value(files, <<"user", own>>) # None
            BY <4>1, AdaptersAssumption DEF Value
          <6>2. \E m \in 1..(j - 1) : c[m] = <<"user", own>>
            BY <1>3, <2>1, <2>5, <3>4, ClaudeChain
          <6> QED
            BY <6>1, <6>2 DEF Silent
        <5> QED
          BY <5>1
      <4>2. CASE Unexported(files, given, own)
        <5>1. "shell" \notin given
          BY <1>4, <2>5, <3>4, <4>2 DEF Unexported
        <5> QED
          BY <1>3, <1>4, <1>5, <3>4, <5>1 DEF Writes, Exposed
      <4> QED
        BY <1>5, <2>2, <4>1, <4>2
    <3> QED
      BY <3>1, <3>2, <3>3, <3>4
  <2>6. k \in {CL!DEPRECATED_UTILITY, "model", "ANTHROPIC_DEFAULT_MODEL", own}
    BY <1>3, <2>1, ClaudeChain
  <2> QED
    BY <2>3, <2>4, <2>5, <2>6
<1>6. CASE tool = "codex"
  <2>1. s \in CX!Slots /\ i \in DOMAIN CX!Paths[s] /\ c = CX!Consulted(files, CX!Paths[s][i])
    BY <1>1, <1>6, ToolsAre DEF ChainsOf, CX!Chains
  <2>2. c[j] = <<"project", CX!Paths[s][i]>> \/ c[j] = <<"user", CX!Paths[s][i]>>
    BY <2>1, CodexConsulted
  <2>3. CASE l = "project"
    BY <1>3, <1>4, <1>6, <2>3 DEF Writes, Exposed
  <2>4. CASE l = "user"
    <3>1. k = CX!Paths[s][i]
      BY <1>3, <2>2, <2>4
    <3> QED
      BY <1>3, <1>4, <1>6, <2>1, <2>4, <3>1 DEF ClearedSlots, Exposed
  <2> QED
    BY <1>6, <2>3, <2>4, ToolsAre
<1> QED
  BY <1>1, <1>5, <1>6, ToolsAre

\* As long as the login shell exports what it did at first, nothing an earlier profile put in a slot
\* is left when the profile assigns that slot nothing; and an export tapkey knows of does not come
\* through in its place.  The shipped program knows of none (env.rs:119): there the theorem says that
\* what tapkey wrote is gone, and leaves the slot to an export.  (claude.rs:338-340,360-365,376-387,
\* codex.rs:210-213)
THEOREM UnassignedStaysCleared ==
    ASSUME ShellStays
    PROVE  Spec => []UnassignedIsCleared
<1> DEFINE Inv == TypeOK /\ Foreign /\ ClearedSlots
<1>1. Init => Inv
  BY InitTypes DEF Init, ClearedSlots
<1>2. Inv /\ [Next]_vars => Inv'
  BY StepTypeOK, StepForeign, StepClearedSlots
<1>3. Inv => UnassignedIsCleared
  BY ClearedIsClear
<1> QED
  BY <1>1, <1>2, <1>3, PTL DEF Spec
-----------------------------------------------------------------------------
(* What is recorded is accounted for. *)

\* Somebody else decided what tapkey finds a chain of the tool to read as.
Decided(chain) ==
    UpTo(chain, Wins(View, chain)) \cap Seen # {} \/ (tool = "codex" /\ Trust \in theirs)

\* Of a slot somebody else decided, or what is recorded is what the profile wants.
Accounted ==
    last # None /\ (tool = "opencode" => last.provider # None) =>
        \A s \in DOMAIN owned :
            \/ \E i \in DOMAIN Chains(s) : Decided(Chains(s)[i])
            \/ s \in WantedSlots /\ owned[s] = Wanted(s)

\* A cell of a layer tapkey sees reads the same, one of another as nothing.
LEMMA ViewedCell ==
    ASSUME TypeOK, NEW s \in Slots(tool), NEW i \in DOMAIN Chains(s), NEW j \in DOMAIN Chains(s)[i]
    PROVE  LET c == Chains(s)[i][j]
           IN /\ Value(View, c) = IF c[1] \in Hidden THEN None ELSE Value(files, c)
              /\ c \in Seen <=> c \in theirs /\ c[1] \notin Hidden
<1>1. PICK l \in Layers(tool), k \in Keys(tool) : Chains(s)[i][j] = <<l, k>>
  BY CellOf
<1>2. View[l][k] = IF l \in Hidden THEN None ELSE files[l][k]
  BY ViewIs
<1> QED
  BY <1>1, <1>2 DEF Value, Seen

\* What is held is held as tapkey sees it.
LEMMA HeldSeen ==
    ASSUME TypeOK, NEW s \in Slots(tool), NEW i \in DOMAIN Chains(s), NEW v,
           Held(files, theirs, Chains(s)[i], v)
    PROVE  Held(View, Seen, Chains(s)[i], v)
<1> DEFINE c == Chains(s)[i]
<1>1. IsChain(c)
  BY ChainsAre, ChainShape DEF TypeOK
<1>2. \A j \in DOMAIN c :
          /\ Value(View, c[j]) = IF c[j][1] \in Hidden THEN None ELSE Value(files, c[j])
          /\ c[j] \in Seen <=> c[j] \in theirs /\ c[j][1] \notin Hidden
  BY ViewedCell
<1>3. Hidden \subseteq Outer
  BY ViewIs
<1> HIDE DEF c
<1>4. PICK n \in Nat : DOMAIN c = 1..n
  BY <1>1 DEF IsChain
<1>5. PICK m \in DOMAIN c :
          /\ c[m][1] \notin Outer
          /\ \A j \in 1..(m - 1) : c[j] \in theirs \/ Value(files, c[j]) = None
          /\ c[m] \in theirs \/ Value(files, c[m]) = v
  BY DEF Held, c
<1>6. c[m] \in Seen \/ Value(View, c[m]) = v
  BY <1>2, <1>3, <1>5
<1>7. \A j \in 1..(m - 1) : c[j] \in Seen \/ Value(View, c[j]) = None
  BY <1>2, <1>4, <1>5
<1> QED
  BY <1>5, <1>6, <1>7 DEF Held, c

\* A slot nobody else decided reads as the profile wants it.
LEMMA UndecidedHold ==
    ASSUME TypeOK, HeldSlots, NEW s \in WantedSlots, NEW i \in DOMAIN Chains(s), ~Decided(Chains(s)[i])
    PROVE  Effective(View, Chains(s)[i]) = Wanted(s)
<1>1. Held(View, Seen, Chains(s)[i], Wanted(s))
  BY WantedIs, HeldSeen DEF HeldSlots, Decided
<1>2. Wanted(s) # None /\ s \in Slots(tool) /\ tool \in Tools
  BY WantedIs DEF TypeOK
<1>3. IsChain(Chains(s)[i])
  BY <1>2, ChainsAre, ChainShape
<1> QED
  BY <1>1, <1>2, <1>3, HeldReads DEF Decided

\* What the adapters record of a profile is what it wants.
LEMMA RecordedIsWanted ==
    ASSUME TypeOK, NEW a \in Asks[tool], tool' = tool, last' = a, owned' = Fingerprint(a),
           tool = "opencode" => a.provider # None, NEW s \in DOMAIN owned'
    PROVE  s \in WantedSlots' /\ owned'[s] = Wanted(s)'
<1>1. a # None /\ tool \in Tools
  BY AskIs DEF TypeOK
<1>2. CASE tool = "claude"
  <2>1. owned' = [t \in {x \in CL!Slots : CL!Model(a, x) # None} |-> CL!Model(a, t)]
    BY <1>2 DEF Fingerprint, CL!Fingerprint
  <2>2. CL!Model(a, s) # None /\ owned'[s] = CL!Model(a, s)
    BY <2>1
  <2>3. s \in DOMAIN a.slots /\ CL!Model(a, s) = a.slots[s].model
    BY <2>2 DEF CL!Model
  <2> QED
    BY <1>1, <1>2, <2>2, <2>3 DEF WantedSlots, Wanted
<1>3. CASE tool = "codex"
  <2>1. owned' = [t \in {x \in CX!Slots \cap DOMAIN a.slots : a.slots[x].model # None} |-> a.slots[t].model]
    BY <1>3 DEF Fingerprint, CX!Fingerprint
  <2>2. s \in DOMAIN a.slots /\ a.slots[s].model # None /\ owned'[s] = a.slots[s].model
    BY <2>1
  <2> QED
    BY <1>1, <1>3, <2>2 DEF WantedSlots, Wanted
<1>4. CASE tool = "opencode"
  <2>1. owned' = [t \in {x \in OC!Assigned(a) : OC!SlotProvider(a, x) # None} |-> OC!Namespaced(a, t)]
    BY <1>4 DEF Fingerprint, OC!Fingerprint
  <2>2. s \in OC!Assigned(a) /\ owned'[s] = OC!Namespaced(a, s)
    BY <2>1
  <2>3. s \in DOMAIN a.slots /\ a.slots[s].model # None
    BY <2>2 DEF OC!Assigned
  <2> QED
    BY <1>1, <1>4, <2>2, <2>3 DEF WantedSlots, Wanted, OC!Namespaced, OC!SlotProvider
<1> QED
  BY <1>1, <1>2, <1>3, <1>4, ToolsAre

\* What somebody else decided they have decided still, after an edit or a removal.
LEMMA EditDecides ==
    ASSUME TypeOK, NEW e \in Edits[tool], Edit(e), NEW s \in Slots(tool), NEW i \in DOMAIN Chains(s),
           Decided(Chains(s)[i])
    PROVE  \E j \in DOMAIN Chains(s)' : Decided(Chains(s)[j])'
<1> DEFINE c == Chains(s)[i]
           cell == <<e[1], e[2]>>
<1>1. tool' = tool /\ tool \in Tools /\ Hidden' = Hidden /\ theirs' = theirs \cup {cell}
  BY EditIs DEF TypeOK, Hidden
<1>2. Chains(s) = ChainsOf(tool, files, s) /\ Chains(s)' = ChainsOf(tool, files', s)
  BY <1>1 DEF Chains, ChainsOf
<1>3. IsChain(c)
  BY <1>1, <1>2, ChainShape
<1>4. CASE tool = "codex" /\ Trust \in theirs'
  <2>1. 1 \in DOMAIN Chains(s)'
    <3>1. PICK f : f = files'
      OBVIOUS
    <3> QED
      BY <1>1, <1>2, <3>1, ChainShape
  <2> QED
    BY <1>1, <1>4, <2>1 DEF Decided, Trust
<1>5. CASE ~(tool = "codex" /\ Trust \in theirs')
  <2>1. tool = "codex" => files["user"]["trust_level"] = files'["user"]["trust_level"]
    BY <1>5, EditKeeps, TrustIs DEF Trust
  <2>2. Chains(s)' = Chains(s)
    BY <1>1, <1>2, <2>1, SameChains
  <2>3. UpTo(c, Wins(View, c)) \cap Seen # {}
    BY <1>1, <1>5 DEF Decided
  <2>4. \A j \in DOMAIN c :
            c[j] # cell \/ c[j][1] \in Hidden => Value(View', c[j]) = Value(View, c[j])
    <3> SUFFICES ASSUME NEW j \in DOMAIN c, c[j] # cell \/ c[j][1] \in Hidden
                 PROVE  Value(View', c[j]) = Value(View, c[j])
      OBVIOUS
    <3>1. PICK l \in Layers(tool), k \in Keys(tool) : c[j] = <<l, k>>
      BY CellOf
    <3>2. View[l][k] = IF l \in Hidden THEN None ELSE files[l][k]
      BY ViewIs
    <3>3. View'[l][k] = IF l \in Hidden THEN None ELSE files'[l][k]
      BY <1>1 DEF View
    <3> QED
      BY <3>1, <3>2, <3>3, EditIs DEF Value
  <2>5. Seen' = IF cell[1] \in Hidden THEN Seen ELSE Seen \cup {cell}
    BY <1>1 DEF Seen
  <2> HIDE DEF c, cell
  <2>6. UpTo(c, Wins(View', c)) \cap Seen' # {}
    <3>1. CASE cell[1] \notin Hidden
      BY <1>3, <2>3, <2>4, <2>5, <3>1, EditDisputes
    <3>2. CASE cell[1] \in Hidden
      <4>1. PICK n \in Nat : DOMAIN c = 1..n
        BY <1>3 DEF IsChain
      <4>2. PICK j \in DOMAIN c : c[j] \in Seen /\ Silent(View, c, j)
        BY <1>3, <2>3, DisputedIs
      <4>3. \A k \in DOMAIN c : Value(View', c[k]) = Value(View, c[k])
        BY <2>4, <3>2
      <4>4. Silent(View', c, j)
        BY <4>1, <4>2, <4>3 DEF Silent
      <4> QED
        BY <1>3, <2>5, <3>2, <4>2, <4>4, DisputedIs
    <3> QED
      BY <3>1, <3>2
  <2> QED
    BY <2>2, <2>6 DEF Decided, c
<1> QED
  BY <1>4, <1>5

\* A removal changes no cell of a slot.
LEMMA RemovalDecides ==
    ASSUME TypeOK, NEW p \in Providers, RemoveProvider(p), NEW s \in Slots(tool),
           NEW i \in DOMAIN Chains(s), Decided(Chains(s)[i])
    PROVE  i \in DOMAIN Chains(s)' /\ Decided(Chains(s)[i])'
<1> DEFINE c == Chains(s)[i]
<1>1. tool' = tool /\ tool \in Tools /\ Hidden' = Hidden
  BY DEF RemoveProvider, TypeOK, Hidden
<1>2. Chains(s) = ChainsOf(tool, files, s) /\ Chains(s)' = ChainsOf(tool, files', s)
  BY <1>1 DEF Chains, ChainsOf
<1>3. IsChain(c)
  BY <1>1, <1>2, ChainShape
<1>4. tool = "codex" => /\ files["user"]["trust_level"] = files'["user"]["trust_level"]
                        /\ Trust \in theirs => Trust \in theirs'
  BY RemovalKeeps, TrustIs DEF Trust
<1>5. Chains(s)' = Chains(s)
  BY <1>1, <1>2, <1>4, SameChains
<1>6. \A j \in DOMAIN c : Value(View', c[j]) = Value(View, c[j]) /\ (c[j] \in Seen => c[j] \in Seen')
  <2> SUFFICES ASSUME NEW j \in DOMAIN c
               PROVE  Value(View', c[j]) = Value(View, c[j]) /\ (c[j] \in Seen => c[j] \in Seen')
    OBVIOUS
  <2>1. PICK l \in Layers(tool), k \in Keys(tool) : c[j] = <<l, k>> /\ Kept(tool, k)
    BY CellOf
  <2>2. files'[l][k] = files[l][k] /\ (<<l, k>> \in theirs' <=> <<l, k>> \in theirs)
    BY <2>1, RemovalKeeps
  <2>3. View[l][k] = IF l \in Hidden THEN None ELSE files[l][k]
    BY ViewIs
  <2>4. View'[l][k] = IF l \in Hidden THEN None ELSE files'[l][k]
    BY <1>1 DEF View
  <2> QED
    BY <1>1, <2>1, <2>2, <2>3, <2>4 DEF Value, Seen
<1>7. UpTo(c, Wins(View, c)) \cap Seen # {} => UpTo(c, Wins(View', c)) \cap Seen' # {}
  <2> SUFFICES ASSUME UpTo(c, Wins(View, c)) \cap Seen # {}
               PROVE  UpTo(c, Wins(View', c)) \cap Seen' # {}
    OBVIOUS
  <2> HIDE DEF c
  <2>1. PICK n \in Nat : DOMAIN c = 1..n
    BY <1>3 DEF IsChain
  <2>2. PICK j \in DOMAIN c : c[j] \in Seen /\ Silent(View, c, j)
    BY <1>3, DisputedIs
  <2>3. c[j] \in Seen' /\ Silent(View', c, j)
    BY <1>6, <2>1, <2>2 DEF Silent
  <2> QED
    BY <1>3, <2>3, DisputedIs
<1> QED
  BY <1>1, <1>4, <1>5, <1>7 DEF Decided

\* Every step keeps what is recorded accounted for.
LEMMA StepAccounted ==
    ASSUME TypeOK, HeldSlots, Accounted, [Next]_vars
    PROVE  Accounted'
<1> SUFFICES ASSUME last' # None, tool' = "opencode" => last'.provider # None, NEW s \in DOMAIN owned'
             PROVE  \/ \E i \in DOMAIN Chains(s)' : Decided(Chains(s)[i])'
                    \/ s \in WantedSlots' /\ owned'[s] = Wanted(s)'
  BY DEF Accounted
<1>1. ASSUME NEW a \in Asks[tool], Switch(a)
      PROVE  s \in WantedSlots' /\ owned'[s] = Wanted(s)'
  <2>1. tool' = tool /\ owned' = Fingerprint(a) /\ last' = a
    BY <1>1 DEF Switch
  <2> QED
    BY <2>1, RecordedIsWanted
<1>2. ASSUME NEW p \in Providers, RemoveProvider(p)
      PROVE  \/ \E i \in DOMAIN Chains(s)' : Decided(Chains(s)[i])'
             \/ s \in WantedSlots' /\ owned'[s] = Wanted(s)'
  <2>1. tool' = tool /\ owned' = owned /\ last' = last
    BY <1>2 DEF RemoveProvider
  <2>2. s \in Slots(tool)
    BY <2>1 DEF TypeOK
  <2>3. CASE \E i \in DOMAIN Chains(s) : Decided(Chains(s)[i])
    BY <1>2, <2>2, <2>3, RemovalDecides
  <2>4. CASE s \in WantedSlots /\ owned[s] = Wanted(s)
    BY <2>1, <2>4 DEF WantedSlots, Wanted
  <2> QED
    BY <2>1, <2>3, <2>4 DEF Accounted
<1>3. ASSUME NEW e \in Edits[tool], Edit(e)
      PROVE  \/ \E i \in DOMAIN Chains(s)' : Decided(Chains(s)[i])'
             \/ s \in WantedSlots' /\ owned'[s] = Wanted(s)'
  <2>1. tool' = tool /\ owned' = owned /\ last' = last
    BY <1>3 DEF Edit
  <2>2. s \in Slots(tool)
    BY <2>1 DEF TypeOK
  <2>3. CASE \E i \in DOMAIN Chains(s) : Decided(Chains(s)[i])
    BY <1>3, <2>2, <2>3, EditDecides
  <2>4. CASE s \in WantedSlots /\ owned[s] = Wanted(s)
    BY <2>1, <2>4 DEF WantedSlots, Wanted
  <2> QED
    BY <2>1, <2>3, <2>4 DEF Accounted
<1>4. CASE AcceptDrift
  <2>1. UNCHANGED <<tool, given, files, removed, theirs, last, edits>>
    BY <1>4 DEF AcceptDrift
  <2>2. owned' = [x \in DOMAIN owned |->
                    LET live == Effective(View, Chains(x)[1])
                    IN IF live = None THEN owned[x] ELSE live]
    BY <1>4 DEF AcceptDrift
  <2>3. s \in DOMAIN owned /\ Chains(s)' = Chains(s) /\ WantedSlots' = WantedSlots /\ Wanted(s)' = Wanted(s)
    BY <2>1, <2>2 DEF Chains, WantedSlots, Wanted
  <2>4. CASE \E i \in DOMAIN Chains(s) : Decided(Chains(s)[i])
    <3>1. View' = View /\ Seen' = Seen
      BY <2>1 DEF View, Hidden, Seen
    <3> QED
      BY <2>1, <2>3, <2>4, <3>1 DEF Decided
  <2>5. CASE ~ \E i \in DOMAIN Chains(s) : Decided(Chains(s)[i])
    <3>1. s \in WantedSlots /\ owned[s] = Wanted(s)
      BY <2>1, <2>3, <2>5 DEF Accounted
    <3>2. 1 \in DOMAIN Chains(s)
      BY <2>3, ChainsAre, ChainShape DEF TypeOK
    <3>3. Effective(View, Chains(s)[1]) = Wanted(s)
      BY <2>5, <3>1, <3>2, UndecidedHold
    <3> QED
      BY <2>2, <2>3, <3>1, <3>3
  <2> QED
    BY <2>4, <2>5
<1>5. CASE SwitchOthers
  BY <1>5 DEF SwitchOthers, Nothing
<1>6. CASE UNCHANGED vars
  <2>1. UNCHANGED <<tool, given, files, owned, theirs, last>>
    BY <1>6 DEF vars
  <2>2. Chains(s)' = Chains(s) /\ WantedSlots' = WantedSlots /\ Wanted(s)' = Wanted(s)
    BY <2>1 DEF Chains, WantedSlots, Wanted
  <2> QED
    BY <2>1, <2>2 DEF Accounted, Decided, View, Hidden, Seen
<1> QED
  BY <1>1, <1>2, <1>3, <1>4, <1>5, <1>6, NextIs

\* A slot that is accounted for, and that nobody else decided, has not drifted.
LEMMA AccountedIsTrue ==
    ASSUME TypeOK, HeldSlots, Accounted
    PROVE  NoFalseDrift
<1> SUFFICES ASSUME last # None, tool = "opencode" => last.provider # None, NEW s \in Slots(tool),
                    Drifted(s), \A i \in DOMAIN Chains(s) : ~DisputedInView(Chains(s)[i])
             PROVE  FALSE
  BY DEF NoFalseDrift
<1>1. \A i \in DOMAIN Chains(s) : ~Decided(Chains(s)[i])
  <2>1. Trust \in theirs => Trust \in Seen
    BY ViewIs DEF Trust, Seen, Outer
  <2> QED
    BY <2>1 DEF Decided, DisputedInView, DisputedIn, Trust
<1>2. s \in DOMAIN owned
  BY DEF Drifted
<1>3. s \in WantedSlots /\ owned[s] = Wanted(s)
  BY <1>1, <1>2 DEF Accounted
<1>4. \A i \in DOMAIN Chains(s) : Effective(View, Chains(s)[i]) = owned[s]
  BY <1>1, <1>3, UndecidedHold
<1>5. 1 \in DOMAIN Chains(s)
  BY ChainsAre, ChainShape DEF TypeOK
<1>6. Readings(s) = {owned[s]}
  BY <1>4, <1>5 DEF Readings
<1> QED
  BY <1>6 DEF Drifted

\* Only what somebody else wrote where tapkey reads is ever reported as drifted, after a switch that
\* wrote the tool:
\* tapkey's own switches, removals and accepted drift are not.  (fingerprint.rs:3-4,66-68)
THEOREM NeverFalseDrift == Spec => []NoFalseDrift
<1> DEFINE Inv == TypeOK /\ Foreign /\ HeldSlots /\ Accounted
<1>1. Init => Inv
  BY InitTypes, InitHeld DEF Init, Accounted
<1>2. Inv /\ [Next]_vars => Inv'
  BY StepTypeOK, StepForeign, StepHeldSlots, StepAccounted
<1>3. Inv => NoFalseDrift
  BY AccountedIsTrue
<1> QED
  BY <1>1, <1>2, <1>3, PTL DEF Spec
-----------------------------------------------------------------------------
(* Accepted drift. *)

\* A set of one reading is that reading.
LEMMA OneReading ==
    ASSUME NEW S, NEW x \in S, NEW y \in S, S = {x, y}, Cardinality(S) = 1
    PROVE  S = {x}
<1>1. IsFiniteSet({x})
  BY FS_Singleton
<1>2. IsFiniteSet({x} \cup {y})
  BY <1>1, FS_AddElement
<1>3. IsFiniteSet(S) /\ S = {x} \cup {y}
  <2>1. S = {x} \cup {y}
    OBVIOUS
  <2> QED
    BY <1>2, <2>1
<1>4. PICK z : S = {z}
  BY <1>3, FS_Singleton
<1> QED
  BY <1>4

\* Accepting drift settles every slot tapkey owns that reads one way, and takes on no other slot.
\* (lib.rs:634-652)
THEOREM AcceptingSettles == Spec => AcceptSettles
<1>1. ASSUME TypeOK, AcceptDrift
      PROVE  /\ DOMAIN owned' = DOMAIN owned
             /\ \A s \in DOMAIN owned :
                    Cardinality(Readings(s)) = 1 /\ None \notin Readings(s) => ~Drifted(s)'
  <2>1. UNCHANGED <<tool, given, files, removed, theirs, last, edits>>
    BY <1>1 DEF AcceptDrift
  <2>2. owned' = [x \in DOMAIN owned |->
                    LET live == Effective(View, Chains(x)[1])
                    IN IF live = None THEN owned[x] ELSE live]
    BY <1>1 DEF AcceptDrift
  <2>3. ASSUME NEW s \in DOMAIN owned, Cardinality(Readings(s)) = 1, None \notin Readings(s)
        PROVE  ~Drifted(s)'
    <3> DEFINE R(i) == Effective(View, Chains(s)[i])
    <3>1. Readings(s)' = Readings(s)
      BY <2>1 DEF Readings, Chains, View, Hidden
    <3>2. /\ DOMAIN Chains(s) \in {{1}, 1..1, 1..2} /\ 1 \in DOMAIN Chains(s)
      BY <1>1, ChainsAre, ChainShape DEF TypeOK
    <3>3. Readings(s) = {R(1)}
      <4>1. CASE DOMAIN Chains(s) = 1..2
        <5>1. Readings(s) = {R(1), R(2)}
          BY <4>1 DEF Readings
        <5> HIDE DEF R
        <5> QED
          BY <2>3, <5>1, OneReading
      <4>2. CASE DOMAIN Chains(s) \in {{1}, 1..1}
        <5>1. DOMAIN Chains(s) = {1}
          BY <4>2
        <5> QED
          BY <5>1 DEF Readings
      <4> QED
        BY <3>2, <4>1, <4>2
    <3>4. R(1) # None
      BY <2>3, <3>3
    <3>5. owned'[s] = R(1)
      BY <2>2, <3>4
    <3> QED
      BY <3>1, <3>3, <3>5 DEF Drifted
  <2> QED
    BY <2>2, <2>3
<1>2. TypeOK /\ [Next]_vars =>
          [AcceptDrift =>
              /\ DOMAIN owned' = DOMAIN owned
              /\ \A s \in DOMAIN owned :
                     Cardinality(Readings(s)) = 1 /\ None \notin Readings(s) => ~Drifted(s)']_vars
  BY <1>1
<1>3. Init => TypeOK
  BY InitTypes
<1>4. TypeOK /\ [Next]_vars => TypeOK'
  BY StepTypeOK
<1> QED
  BY <1>2, <1>3, <1>4, PTL DEF Spec, AcceptSettles
-----------------------------------------------------------------------------
(* What was removed is not selected. *)

\* No user's file of OpenCode's disappears in a step.
FilesStay ==
    tool = "opencode" =>
        \A l \in {"jsonc", "json"} : OC!Exists(files, l) => OC!Exists(files', l)

\* The main model of a profile of OpenCode is at the profile's provider.
MainsAreOwn ==
    \A a \in Asks["opencode"] :
        "main" \in DOMAIN a.slots => a.slots["main"].provider \in {None, a.provider}

\* The provider is not what tapkey left in the file, unless it is somebody else's by now, or the file
\* is not the one that counts.
Unselects(p) ==
    /\ tool = "claude" =>
          \/ files["user"][CL!ENDPOINT_VAR] # p
          \/ <<"user", CL!ENDPOINT_VAR>> \in theirs \/ <<"project", CL!ENDPOINT_VAR>> \in theirs
    /\ tool = "codex" =>
          files["user"]["model_provider"] # p \/ <<"user", "model_provider">> \in theirs
    /\ tool = "opencode" => \A l \in {"jsonc", "json"} :
          \/ files[l]["model"] = None \/ files[l]["model"][1] # p
          \/ <<l, "model">> \in theirs
          \/ l = "json" /\ OC!Exists(files, "jsonc")

Unselected == \A p \in removed : Unselects(p)

\* The cells of a selection are cells of the tool's files a removal cannot touch.
LEMMA SelectionKept ==
    /\ {"user", "project"} \subseteq Layers("claude") /\ CL!ENDPOINT_VAR \in Keys("claude")
    /\ "user" \in Layers("codex") /\ "model_provider" \in Keys("codex")
    /\ {"jsonc", "json"} \subseteq Layers("opencode") /\ "model" \in Keys("opencode")
    /\ Kept("claude", CL!ENDPOINT_VAR) /\ Kept("codex", "model_provider") /\ Kept("opencode", "model")
BY EndpointCells, ToolsAre DEF Kept

\* It is not selected as long as each cell is as it was, or somebody else's.
LEMMA UnselectsKept ==
    ASSUME TypeOK, NEW p \in Providers, Unselects(p), FilesStay, tool' = tool,
           \A l \in Layers(tool), k \in Keys(tool) : Kept(tool, k) =>
               <<l, k>> \in theirs' \/ (<<l, k>> \notin theirs /\ files'[l][k] = files[l][k])
    PROVE  Unselects(p)'
<1>1. CASE tool = "claude"
  BY <1>1, SelectionKept DEF Unselects
<1>2. CASE tool = "codex"
  BY <1>2, SelectionKept DEF Unselects
<1>3. CASE tool = "opencode"
  BY <1>3, SelectionKept DEF Unselects, FilesStay
<1> QED
  BY <1>1, <1>2, <1>3, ToolsAre DEF TypeOK

\* A switch selects a provider that is there, or leaves the selection.
LEMMA SwitchUnselects ==
    ASSUME MainsAreOwn, TypeOK, NEW a \in Asks[tool], Switch(a), FilesStay,
           NEW p \in removed, Unselects(p)
    PROVE  Unselects(p)'
<1>1. /\ tool' = tool /\ tool \in Tools /\ p \in Providers /\ a.provider # p
      /\ a.provider \in Providers \cup {None}
  BY AskIs DEF Switch, TypeOK
<1>2. p # None /\ p # Blank
  BY <1>1, AdaptersAssumption
<1>3. ASSUME NEW l, NEW k, tool # "claude" \/ l # "user", files'[l][k] = files[l][k], <<l, k>> \in theirs
      PROVE  <<l, k>> \in theirs'
  BY <1>3, StillTheirs DEF Switch, Spoken
<1>4. CASE tool = "claude"
  <2>1. files' = Planned(a)
    BY <1>4 DEF Switch, Skips
  <2>2. files'["user"][CL!ENDPOINT_VAR] = CL!Put(View, CL!ENDPOINT_VAR, a.provider)
    BY <1>4, <2>1, ClaudePlan
  <2>3. files'["user"][CL!ENDPOINT_VAR] # p
    BY <1>1, <1>2, <2>2 DEF CL!Put, CL!Cleared
  <2> QED
    BY <1>1, <1>4, <2>3 DEF Unselects
<1>5. CASE tool = "codex"
  <2>1. files'["user"]["model_provider"] \in {a.provider, files["user"]["model_provider"]}
    <3>1. CASE Skips
      BY <3>1 DEF Switch
    <3>2. CASE ~Skips
      <4>1. DOMAIN files = CX!Layers /\ files' = CX!Planned(files, a)
        BY <1>5, <3>2, ToolsAre DEF TypeOK, Filed, Planned, Switch
      <4>2. \A k \in CX!Keys \ CX!SlotKeys :
                files'["user"][k] = IF a.provider # None /\ k \in {"model_provider", a.provider}
                                    THEN a.provider ELSE files["user"][k]
        BY <1>1, <4>1, CodexPlanned
      <4> QED
        BY <4>2, EndpointCells
    <3> QED
      BY <3>1, <3>2
  <2>2. files'["user"]["model_provider"] = p =>
            files'["user"]["model_provider"] = files["user"]["model_provider"]
    BY <1>1, <2>1
  <2> QED
    BY <1>1, <1>3, <1>5, <2>2 DEF Unselects
<1>6. CASE tool = "opencode"
  <2> DEFINE w == OC!Written(files)
  <2>1. /\ DOMAIN files = OC!Layers /\ (\A l \in OC!Layers : DOMAIN files[l] = OC!Keys)
        /\ files' = OC!Planned(files, a)
    BY <1>1, <1>6, ToolsAre DEF TypeOK, Filed, Planned, Switch, Skips
  <2>2. \A l \in OC!Layers : l # w => files'[l] = files[l]
    BY <1>1, <2>1, OpenPlanned
  <2>3. files'[w]["model"] = IF a.provider # None /\ "main" \in OC!Assigned(a)
                             THEN OC!Namespaced(a, "main") ELSE files[w]["model"]
    <3>1. \A s \in OC!Slots :
              files'[w][OC!Path[s]] = IF a.provider # None /\ s \in OC!Assigned(a)
                                      THEN OC!Namespaced(a, s) ELSE files[w][OC!Path[s]]
      BY <1>1, <2>1, OpenPlanned
    <3> QED
      BY <3>1, OpenPaths
  <2>4. a.provider # None /\ "main" \in OC!Assigned(a) => OC!Namespaced(a, "main")[1] # p
    <3>1. "main" \in OC!Assigned(a) => a.slots["main"].provider \in {None, a.provider}
      BY <1>6 DEF MainsAreOwn, OC!Assigned
    <3> QED
      BY <1>1, <3>1 DEF OC!Namespaced, OC!SlotProvider
  <2>5. ASSUME NEW l \in {"jsonc", "json"}
        PROVE  \/ files'[l]["model"] = None \/ files'[l]["model"][1] # p
               \/ <<l, "model">> \in theirs'
               \/ l = "json" /\ OC!Exists(files', "jsonc")
    <3>1. files'[l]["model"] = files[l]["model"] \/ files'[l]["model"][1] # p
      BY <2>2, <2>3, <2>4, EndpointCells
    <3> QED
      BY <1>3, <1>6, <3>1 DEF Unselects, FilesStay
  <2> QED
    BY <1>1, <1>6, <2>5 DEF Unselects
<1> QED
  BY <1>1, <1>4, <1>5, <1>6, ToolsAre

\* What a tool selects is not removed.
LEMMA RemovedUnselects ==
    ASSUME TypeOK, Foreign, NEW p \in Providers, RemoveProvider(p), FilesStay
    PROVE  Unselects(p)'
<1>1. tool' = tool /\ tool \in Tools /\ ~Refuses(p)
  BY DEF RemoveProvider, TypeOK
<1>2. \A l \in Layers(tool), k \in Keys(tool) : Kept(tool, k) =>
          files'[l][k] = files[l][k] /\ (<<l, k>> \in theirs' <=> <<l, k>> \in theirs)
  BY RemovalKeeps
<1>3. CASE tool = "claude"
  <2> DEFINE c == CL!Var(CL!ENDPOINT_VAR)
  <2>1. SUFFICES ASSUME files["user"][CL!ENDPOINT_VAR] = p, <<"project", CL!ENDPOINT_VAR>> \notin theirs
                 PROVE  FALSE
    BY <1>1, <1>2, <1>3, SelectionKept DEF Unselects
  <2>2. View["project"][CL!ENDPOINT_VAR] = None /\ View["user"][CL!ENDPOINT_VAR] = p
    <3>1. files["project"][CL!ENDPOINT_VAR] = None
      BY <1>3, <2>1, SelectionKept DEF Foreign, Writes
    <3> QED
      BY <1>3, <2>1, <3>1, SelectionKept, ViewIs DEF Outer
  <2>3. /\ IsChain(c) /\ DOMAIN c = 1..3
        /\ c[1] = <<"project", CL!ENDPOINT_VAR>> /\ c[2] = <<"user", CL!ENDPOINT_VAR>>
    BY EndpointCells, VarIs
  <2> HIDE DEF c
  <2>4. 2 \in DOMAIN c /\ Silent(View, c, 2) /\ Value(View, c[2]) = p /\ p # None
    BY <2>2, <2>3, AdaptersAssumption DEF Silent, Value
  <2>5. Effective(View, c) = p
    BY <2>3, <2>4, EffectiveIs
  <2> QED
    BY <1>1, <1>3, <2>5, SameReading DEF Refuses, CL!Refuses, CL!Endpoint, c
<1>4. CASE tool = "codex"
  <2>1. files["user"]["model_provider"] # p
    BY <1>1, <1>4 DEF Refuses, CX!Refuses
  <2> QED
    BY <1>1, <1>2, <1>4, <2>1, SelectionKept DEF Unselects
<1>5. CASE tool = "opencode"
  <2> DEFINE w == OC!Written(files)
  <2>1. files[w]["model"] = None \/ files[w]["model"][1] # p
    BY <1>1, <1>5 DEF Refuses, OC!Refuses
  <2>2. \A l \in {"jsonc", "json"} :
            \/ files[l]["model"] = None \/ files[l]["model"][1] # p
            \/ l = "json" /\ OC!Exists(files, "jsonc")
    <3>1. \A l \in {"jsonc", "json"} : ~OC!Exists(files, l) => files[l]["model"] = None
      BY EndpointCells DEF OC!Exists
    <3> QED
      BY <2>1, <3>1, OpenWritten
  <2> QED
    BY <1>1, <1>2, <1>5, <2>2, SelectionKept DEF Unselects, FilesStay
<1> QED
  BY <1>1, <1>3, <1>4, <1>5, ToolsAre

\* Every step that leaves OpenCode's files where they are leaves what was removed unselected.
LEMMA StepUnselected ==
    ASSUME MainsAreOwn, TypeOK, Foreign, Unselected, [Next]_vars, [FilesStay]_vars
    PROVE  Unselected'
<1>1. removed \subseteq Providers
  BY DEF TypeOK
<1>2. FilesStay \/ UNCHANGED vars
  OBVIOUS
<1>3. ASSUME NEW a \in Asks[tool], Switch(a), FilesStay
      PROVE  Unselected'
  <2>1. removed' = removed
    BY <1>3 DEF Switch
  <2> QED
    BY <1>3, <2>1, SwitchUnselects DEF Unselected
<1>4. ASSUME NEW q \in Providers, RemoveProvider(q), FilesStay
      PROVE  Unselected'
  <2>1. removed' = removed \cup {q} /\ tool' = tool
    BY <1>4 DEF RemoveProvider
  <2>2. \A l \in Layers(tool), k \in Keys(tool) : Kept(tool, k) =>
            <<l, k>> \in theirs' \/ (<<l, k>> \notin theirs /\ files'[l][k] = files[l][k])
    BY <1>4, RemovalKeeps
  <2>3. \A p \in removed : Unselects(p)'
    BY <1>1, <1>4, <2>1, <2>2, UnselectsKept DEF Unselected
  <2> QED
    BY <1>4, <2>1, <2>3, RemovedUnselects DEF Unselected
<1>5. ASSUME NEW e \in Edits[tool], Edit(e), FilesStay
      PROVE  Unselected'
  <2>1. removed' = removed /\ tool' = tool
    BY <1>5 DEF Edit
  <2>2. \A l \in Layers(tool), k \in Keys(tool) : Kept(tool, k) =>
            <<l, k>> \in theirs' \/ (<<l, k>> \notin theirs /\ files'[l][k] = files[l][k])
    BY <1>5, EditKeeps
  <2> QED
    BY <1>1, <1>5, <2>1, <2>2, UnselectsKept DEF Unselected
<1>6. CASE AcceptDrift \/ SwitchOthers \/ UNCHANGED vars
  <2>1. UNCHANGED <<tool, files, theirs, removed>>
    BY <1>6 DEF AcceptDrift, SwitchOthers, vars
  <2> QED
    BY <2>1 DEF Unselected, Unselects
<1> QED
  BY <1>2, <1>3, <1>4, <1>5, <1>6, NextIs

\* So the tool is not left at a provider that is gone.
LEMMA UnselectedIsWhole ==
    ASSUME TypeOK, Foreign, Unselected
    PROVE  NoBrokenTool
<1> SUFFICES ASSUME NEW p \in removed, Selecting(p)
             PROVE  FALSE
  BY DEF NoBrokenTool
<1>1. Unselects(p) /\ p \in Providers /\ tool \in Tools
  BY DEF Unselected, TypeOK
<1>2. CASE tool = "claude"
  <2> DEFINE c == CL!Var(CL!ENDPOINT_VAR)
  <2>1. CL!Effective(files, c) = p /\ UpTo(c, Wins(files, c)) \cap theirs = {}
    BY <1>2 DEF Selecting, Endpoint, CL!Endpoint, Disputed, DisputedIn
  <2>2. /\ IsChain(c) /\ DOMAIN c = 1..3 /\ c[1] = <<"project", CL!ENDPOINT_VAR>>
        /\ c[2] = <<"user", CL!ENDPOINT_VAR>> /\ c[3] = <<"shell", CL!ENDPOINT_VAR>>
    BY EndpointCells, VarIs
  <2> HIDE DEF c
  <2>3. Effective(files, c) = p /\ p # None
    BY <1>1, <2>1, SameReading, AdaptersAssumption
  <2>4. PICK i \in DOMAIN c : Silent(files, c, i) /\ Value(files, c[i]) = p
    BY <2>2, <2>3, WinsIs
  <2>5. c[i] \notin theirs
    BY <2>1, <2>2, <2>4, DisputedIs
  <2>6. i = 2
    <3>1. \A l \in {"project", "shell"} :
              files[l][CL!ENDPOINT_VAR] = None \/ <<l, CL!ENDPOINT_VAR>> \in theirs
      BY <1>2, SelectionKept, ToolsAre DEF Foreign, Writes
    <3> QED
      BY <2>2, <2>3, <2>4, <2>5, <3>1 DEF Value
  <2>7. <<"project", CL!ENDPOINT_VAR>> \in theirs
    BY <1>1, <1>2, <2>2, <2>4, <2>5, <2>6 DEF Unselects, Value
  <2>8. Silent(files, c, 1)
    BY DEF Silent
  <2>9. 1 \in DOMAIN c /\ c[1] \in theirs
    BY <2>2, <2>7
  <2> QED
    BY <2>1, <2>2, <2>8, <2>9, DisputedIs
<1>3. CASE tool = "codex"
  BY <1>1, <1>3 DEF Selecting, Unselects
<1>4. CASE tool = "opencode"
  <2>1. LET w == OC!Written(files)
        IN <<w, "model">> \notin theirs /\ files[w]["model"] # None /\ files[w]["model"][1] = p
    BY <1>4 DEF Selecting, Value
  <2> QED
    BY <1>1, <1>4, <2>1, OpenWritten DEF Unselects
<1> QED
  BY <1>1, <1>2, <1>3, <1>4, ToolsAre

\* A provider that was removed is not the one tapkey left a tool selecting, where the profiles of
\* OpenCode have their main model at their own provider, as long as none of the person's files of
\* OpenCode's disappears.  (plan_removal in each adapter, lib.rs:1145)
THEOREM RemovedIsNotSelected ==
    ASSUME MainsAreOwn
    PROVE  Spec /\ [][FilesStay]_vars => []NoBrokenTool
<1> DEFINE Inv == TypeOK /\ Foreign /\ Unselected
<1>1. Init => Inv
  BY InitTypes DEF Init, Unselected
<1>2. Inv /\ [Next]_vars /\ [FilesStay]_vars => Inv'
  BY StepTypeOK, StepForeign, StepUnselected
<1>3. Inv => NoBrokenTool
  BY UnselectedIsWhole
<1> QED
  BY <1>1, <1>2, <1>3, PTL DEF Spec
-----------------------------------------------------------------------------
(* Offers. *)

\* The order in which OpenCode's files are asked.
LEMMA Orders ==
    /\ DOMAIN OC!UserFiles = 1..2 /\ OC!UserFiles[1] = "jsonc" /\ OC!UserFiles[2] = "json"
    /\ DOMAIN OC!Harvested = 1..3 /\ OC!Harvested[1] = "jsonc" /\ OC!Harvested[2] = "json"
    /\ OC!Harvested[3] = "install"
    /\ OC!ToSet(OC!Harvested) = {"jsonc", "json", "install"}
<1> DEFINE u == OC!UserFiles
           t == <<"install">>
           S == {"jsonc", "json", "install"}
<1>1. DOMAIN u = 1..2 /\ u[1] = "jsonc" /\ u[2] = "json" /\ t[1] = "install"
  BY DEF OC!UserFiles
<1>2. u \in Seq(S) /\ t \in Seq(S)
  BY DEF OC!UserFiles
<1>3. Len(u) = 2 /\ Len(t) = 1
  BY DEF OC!UserFiles
<1>4. OC!Harvested = u \o t
  BY DEF OC!Harvested
<1> HIDE DEF u, t, S
<1>5. DOMAIN (u \o t) = 1..(Len(u) + Len(t))
  BY <1>2, Joined
<1>6. \A i \in 1..Len(u) : (u \o t)[i] = u[i]
  BY <1>2, Joined
<1>7. \A i \in 1..Len(t) : (u \o t)[Len(u) + i] = t[i]
  BY <1>2, Joined
<1>8. /\ DOMAIN OC!Harvested = 1..3 /\ OC!Harvested[1] = "jsonc" /\ OC!Harvested[2] = "json"
      /\ OC!Harvested[3] = "install"
  BY <1>1, <1>3, <1>4, <1>5, <1>6, <1>7
<1>9. OC!ToSet(OC!Harvested) = {"jsonc", "json", "install"}
  BY <1>8 DEF OC!ToSet
<1> QED
  BY <1>1, <1>8, <1>9 DEF u

\* The key beside the endpoint of Claude Code's file is the key that file is read for.
LEMMA ClaudeOffer ==
    ASSUME NEW f, NEW o \in CL!Known(f), o.keys # {}
    PROVE  CL!ReadInline(f) \in o.keys
<1> DEFINE c == CL!KeyCells
<1>1. /\ DOMAIN c = 1..2 /\ c[1] = <<"user", "ANTHROPIC_AUTH_TOKEN">>
      /\ c[2] = <<"user", "ANTHROPIC_API_KEY">>
  BY DEF CL!KeyCells
<1>2. CL!KeyVars = {"ANTHROPIC_AUTH_TOKEN", "ANTHROPIC_API_KEY"}
  BY DEF CL!KeyVars, CL!KeyCells
<1>3. o.keys = {f["user"][v] : v \in CL!KeyVars} \ {None}
  BY DEF CL!Known
<1> HIDE DEF c
<1>4. IsChain(c)
  <2>1. c[1] \in CL!Layers \X CL!Keys /\ c[2] \in CL!Layers \X CL!Keys
    BY <1>1, <1>2, ToolsAre DEF CL!Keys
  <2>2. c[1] # None /\ c[2] # None
    BY <2>1, AdaptersAssumption, ToolsAre
  <2> QED
    BY <1>1, <2>2 DEF IsChain
<1>5. ~ \A i \in DOMAIN c : Value(f, c[i]) = None
  BY <1>1, <1>2, <1>3 DEF Value
<1>6. PICK i \in DOMAIN c : Value(f, c[i]) # None /\ Effective(f, c) = Value(f, c[i])
  BY <1>4, <1>5, WinsIs
<1>7. Value(f, c[i]) \in o.keys
  BY <1>1, <1>2, <1>3, <1>6 DEF Value
<1>8. CL!ReadInline(f) = Effective(f, c)
  BY SameReading DEF CL!ReadInline, c
<1> QED
  BY <1>6, <1>7, <1>8

\* The user's file that speaks for an id in OpenCode's is the first with a key for it.
LEMMA OpenOffer ==
    ASSUME NEW f, NEW o \in OC!Known(f), o.place # "install", o.keys # {}
    PROVE  OC!ReadInline(f, o.id) \in o.keys
<1> DEFINE naming(i) == OC!Naming(f, OC!Harvested, i)
           speaks(i) == OC!First(OC!Harvested, naming(i))
<1>1. PICK i \in OC!Ids : naming(i) # {} /\ o = OC!Offered(f, i, speaks(i))
  BY DEF OC!Known
<1>2. PICK N : N = naming(i)
  OBVIOUS
<1>3. N = {l \in {"jsonc", "json", "install"} : f[l][i] # None}
  BY <1>2, Orders DEF OC!Naming
<1>4. PICK l : l = First(OC!Harvested, N)
  OBVIOUS
<1>5. o.id = i /\ o.place = l /\ o.keys = OC!Plain(f[l][i])
  <2>1. o = OC!Offered(f, i, l)
    BY <1>1, <1>2, <1>4 DEF OC!First, First
  <2> QED
    BY <2>1 DEF OC!Offered
<1> HIDE DEF naming, speaks
<1>6. l \in N /\ l \in {"jsonc", "json"} /\ (l = "json" => "jsonc" \notin N)
  <2> DEFINE h == OC!Harvested
  <2>1. DOMAIN h = 1..3 /\ h[1] = "jsonc" /\ h[2] = "json" /\ h[3] = "install"
    BY Orders
  <2> HIDE DEF h
  <2>2. \E j \in 1..3 : h[j] \in N
    <3>1. \E x \in N : x \in {"jsonc", "json", "install"}
      BY <1>1, <1>2, <1>3
    <3>2. 1 \in 1..3 /\ 2 \in 1..3 /\ 3 \in 1..3
      OBVIOUS
    <3> QED
      BY <2>1, <3>1, <3>2
  <2>3. PICK j \in 1..3 : /\ First(h, N) = h[j] /\ h[j] \in N
                          /\ \A k \in 1..(j - 1) : h[k] \notin N
    BY <2>1, <2>2, FirstIs
  <2>4. l = h[j]
    BY <1>4, <2>3 DEF h
  <2>5. j # 3
    BY <1>5, <2>1, <2>4
  <2>6. CASE j = 1
    BY <2>1, <2>3, <2>4, <2>6
  <2>7. CASE j = 2
    <3>1. h[1] \notin N
      BY <2>3, <2>7
    <3> QED
      BY <2>1, <2>3, <2>4, <2>7, <3>1
  <2> QED
    BY <2>3, <2>5, <2>6, <2>7
<1> DEFINE plain == {x \in OC!Naming(f, OC!UserFiles, i) : OC!Plain(f[x][i]) # {}}
<1>7. plain = {x \in {"jsonc", "json"} : f[x][i] # None /\ OC!Plain(f[x][i]) # {}}
  BY OpenPaths DEF OC!Naming
<1>8. l \in plain /\ (l = "json" => "jsonc" \notin plain)
  BY <1>3, <1>5, <1>6, <1>7
<1>9. OC!ReadInline(f, i) = OC!Said(f[OC!First(OC!UserFiles, plain)][i]).key
  BY <1>8 DEF OC!ReadInline
<1> HIDE DEF plain
<1>10. First(OC!UserFiles, plain) = l
  <2> DEFINE u == OC!UserFiles
  <2>1. DOMAIN u = 1..2 /\ u[1] = "jsonc" /\ u[2] = "json"
    BY Orders
  <2> HIDE DEF u
  <2>2. \E j \in 1..2 : u[j] \in plain
    <3>1. 1 \in 1..2 /\ 2 \in 1..2
      OBVIOUS
    <3> QED
      BY <1>6, <1>8, <2>1, <3>1
  <2>3. PICK j \in 1..2 : /\ First(u, plain) = u[j] /\ u[j] \in plain
                          /\ \A k \in 1..(j - 1) : u[k] \notin plain
    BY <2>1, <2>2, FirstIs
  <2>4. CASE j = 1
    BY <1>6, <1>8, <2>1, <2>3, <2>4 DEF u
  <2>5. CASE j = 2
    <3>1. u[1] \notin plain
      BY <2>3, <2>5
    <3> QED
      BY <1>6, <1>8, <2>1, <2>3, <2>5, <3>1 DEF u
  <2> QED
    BY <2>3, <2>4, <2>5
<1>11. OC!ReadInline(f, i) = OC!Said(f[l][i]).key
  BY <1>9, <1>10 DEF OC!First, First
<1>12. OC!Said(f[l][i]).key \in OC!Plain(f[l][i])
  BY <1>5 DEF OC!Plain
<1> QED
  BY <1>5, <1>11, <1>12

\* What accept reads again is the key beside the offer's URL, whatever the tool's files say, except of
\* an offer out of the install's own directory.  (known_providers in each adapter,
\* credentials.rs:13-46, lib.rs:977-1005)
THEOREM OffersKeep == Spec => []OffersKeepTheirKey
<1>1. ASSUME TypeOK
      PROVE  OffersKeepTheirKey
  <2> SUFFICES ASSUME NEW o \in Known, o.place # "install", o.keys # {}
               PROVE  ReadInline(o.id) \in o.keys
    BY DEF OffersKeepTheirKey
  <2>1. CASE tool = "claude"
    BY <2>1, ClaudeOffer DEF Known, ReadInline
  <2>2. CASE tool = "codex"
    BY <2>2 DEF Known, CX!Known
  <2>3. CASE tool = "opencode"
    BY <2>3, OpenOffer DEF Known, ReadInline
  <2> QED
    BY <1>1, <2>1, <2>2, <2>3, ToolsAre DEF TypeOK
<1>2. Init => TypeOK
  BY InitTypes
<1>3. TypeOK /\ [Next]_vars => TypeOK'
  BY StepTypeOK
<1> QED
  BY <1>1, <1>2, <1>3, PTL DEF Spec
=============================================================================
