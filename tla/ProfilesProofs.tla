--------------------------- MODULE ProfilesProofs ---------------------------
(***************************************************************************)
(* What holds of profiles.json and of the stored keys for any number of    *)
(* requests, any ids, names and formats, and whatever hosts there are.     *)
(***************************************************************************)
EXTENDS Profiles, TLAPS

\* What an operation that keeps every provider makes of the file, asked for a.
Lawful(old, new, a) ==
    /\ new \in Stores
    /\ OnlyAsked(old, new, a)
    /\ DOMAIN old.providers \subseteq DOMAIN new.providers
    /\ \A i \in DOMAIN new.providers :
          \/ new.providers[i].formats = None
          \/ i \in DOMAIN old.providers /\ new.providers[i].formats = old.providers[i].formats
    /\ a.op = "accept_harvest" => a.id \in DOMAIN new.providers
-----------------------------------------------------------------------------
(* Records under their ids. *)

\* A list of records is a function from some of the ids.
LEMMA KeyedIs ==
    ASSUME NEW R, NEW f
    PROVE  f \in Keyed(R) <=> DOMAIN f \subseteq Ids /\ f \in [DOMAIN f -> R]
  BY DEF Keyed

\* Put sets one record and leaves the others.
LEMMA PutSets ==
    ASSUME NEW R, NEW f \in Keyed(R), NEW i \in Ids, NEW v \in R
    PROVE  /\ Put(f, i, v) \in Keyed(R)
           /\ DOMAIN Put(f, i, v) = DOMAIN f \cup {i}
           /\ Put(f, i, v)[i] = v
           /\ \A j \in DOMAIN f \ {i} : Put(f, i, v)[j] = f[j]
<1>1. DOMAIN f \subseteq Ids /\ f \in [DOMAIN f -> R]
  BY KeyedIs
<1>2. Put(f, i, v) \in [DOMAIN f \cup {i} -> R]
  BY <1>1 DEF Put
<1>3. DOMAIN Put(f, i, v) = DOMAIN f \cup {i}
  BY DEF Put
<1>4. Put(f, i, v) \in Keyed(R)
  BY <1>1, <1>2, <1>3, KeyedIs, Zenon
<1> QED
  BY <1>3, <1>4 DEF Put

\* Drop takes one record away.
LEMMA DropTakes ==
    ASSUME NEW R, NEW f \in Keyed(R), NEW i
    PROVE  /\ Drop(f, i) \in Keyed(R)
           /\ DOMAIN Drop(f, i) = DOMAIN f \ {i}
           /\ \A j \in DOMAIN f \ {i} : Drop(f, i)[j] = f[j]
<1>1. DOMAIN f \subseteq Ids /\ f \in [DOMAIN f -> R]
  BY KeyedIs
<1>2. Drop(f, i) \in [DOMAIN f \ {i} -> R]
  BY <1>1 DEF Drop
<1>3. DOMAIN Drop(f, i) = DOMAIN f \ {i}
  BY DEF Drop
<1>4. Drop(f, i) \in Keyed(R)
  BY <1>1, <1>2, <1>3, KeyedIs, Zenon
<1> QED
  BY <1>3, <1>4 DEF Drop

\* What an edit of one record is: the others stay, and it stays a list of records.
Edited(f, g, i) ==
    /\ DOMAIN g = DOMAIN f
    /\ \A j \in DOMAIN f \ {i} : g[j] = f[j]

\* A provider is given another name.
LEMMA NameEdited ==
    ASSUME NEW f \in Keyed(Provider), NEW i \in DOMAIN f, NEW x \in Names,
           NEW g, g = [f EXCEPT ![i].name = x]
    PROVE  /\ g \in Keyed(Provider) /\ Edited(f, g, i)
           /\ \A field \in DOMAIN f[i] \ {"name"} : g[i][field] = f[i][field]
           /\ g[i].formats = f[i].formats
<1>1. DOMAIN f \subseteq Ids /\ f \in [DOMAIN f -> Provider]
  BY KeyedIs
<1>2. /\ g \in [DOMAIN f -> Provider] /\ Edited(f, g, i) /\ g[i].formats = f[i].formats
      /\ \A field \in DOMAIN f[i] \ {"name"} : g[i][field] = f[i][field]
  BY <1>1 DEF Provider, Edited
<1> QED
  BY <1>1, <1>2, KeyedIs, Zenon DEF Edited

\* A provider is turned on or off.
LEMMA EnabledEdited ==
    ASSUME NEW f \in Keyed(Provider), NEW i \in DOMAIN f, NEW x, x \in BOOLEAN,
           NEW g, g = [f EXCEPT ![i].enabled = x]
    PROVE  /\ g \in Keyed(Provider) /\ Edited(f, g, i)
           /\ \A field \in DOMAIN f[i] \ {"enabled"} : g[i][field] = f[i][field]
           /\ g[i].formats = f[i].formats
<1>1. DOMAIN f \subseteq Ids /\ f \in [DOMAIN f -> Provider]
  BY KeyedIs
<1>2. /\ g \in [DOMAIN f -> Provider] /\ Edited(f, g, i) /\ g[i].formats = f[i].formats
      /\ \A field \in DOMAIN f[i] \ {"enabled"} : g[i][field] = f[i][field]
  BY <1>1 DEF Provider, Edited
<1> QED
  BY <1>1, <1>2, KeyedIs, Zenon DEF Edited

\* A provider's catalogue is trimmed or taken over.
LEMMA ModelsEdited ==
    ASSUME NEW f \in Keyed(Provider), NEW i \in DOMAIN f, NEW x \in {"on", "off"},
           NEW g, g = [f EXCEPT ![i].models = x]
    PROVE  /\ g \in Keyed(Provider) /\ Edited(f, g, i)
           /\ \A field \in DOMAIN f[i] \ {"models"} : g[i][field] = f[i][field]
           /\ g[i].formats = f[i].formats
<1>1. DOMAIN f \subseteq Ids /\ f \in [DOMAIN f -> Provider]
  BY KeyedIs
<1>2. /\ g \in [DOMAIN f -> Provider] /\ Edited(f, g, i) /\ g[i].formats = f[i].formats
      /\ \A field \in DOMAIN f[i] \ {"models"} : g[i][field] = f[i][field]
  BY <1>1 DEF Provider, Edited
<1> QED
  BY <1>1, <1>2, KeyedIs, Zenon DEF Edited

\* A profile is given another name.
LEMMA ProfileNameEdited ==
    ASSUME NEW f \in Keyed(Profile), NEW i \in DOMAIN f, NEW x \in Names,
           NEW g, g = [f EXCEPT ![i].name = x]
    PROVE  /\ g \in Keyed(Profile) /\ Edited(f, g, i)
           /\ \A field \in DOMAIN f[i] \ {"name"} : g[i][field] = f[i][field]
<1>1. DOMAIN f \subseteq Ids /\ f \in [DOMAIN f -> Profile]
  BY KeyedIs
<1>2. /\ g \in [DOMAIN f -> Profile] /\ Edited(f, g, i)
      /\ \A field \in DOMAIN f[i] \ {"name"} : g[i][field] = f[i][field]
  BY <1>1 DEF Profile, Edited
<1> QED
  BY <1>1, <1>2, KeyedIs, Zenon DEF Edited

\* A profile is given another assignment.
LEMMA ToolsEdited ==
    ASSUME NEW f \in Keyed(Profile), NEW i \in DOMAIN f, NEW x \in Assignments,
           NEW g, g = [f EXCEPT ![i].tools = x]
    PROVE  /\ g \in Keyed(Profile) /\ Edited(f, g, i)
           /\ \A field \in DOMAIN f[i] \ {"tools"} : g[i][field] = f[i][field]
<1>1. DOMAIN f \subseteq Ids /\ f \in [DOMAIN f -> Profile]
  BY KeyedIs
<1>2. /\ g \in [DOMAIN f -> Profile] /\ Edited(f, g, i)
      /\ \A field \in DOMAIN f[i] \ {"tools"} : g[i][field] = f[i][field]
  BY <1>1 DEF Profile, Edited
<1> QED
  BY <1>1, <1>2, KeyedIs, Zenon DEF Edited

\* A provider is marked as tested, and its formats as those that answered.
LEMMA TestEdited ==
    ASSUME NEW f \in Keyed(Provider), NEW i \in DOMAIN f, NEW x \in (SUBSET AllFormats) \cup {None},
           NEW g, g = [f EXCEPT ![i].tested = TRUE, ![i].formats = x]
    PROVE  g \in Keyed(Provider) /\ Edited(f, g, i) /\ g[i].formats = x
<1>1. DOMAIN f \subseteq Ids /\ f \in [DOMAIN f -> Provider]
  BY KeyedIs
<1>2. g \in [DOMAIN f -> Provider] /\ Edited(f, g, i) /\ g[i].formats = x
  BY <1>1 DEF Provider, Edited
<1> QED
  BY <1>1, <1>2, KeyedIs, Zenon DEF Edited
-----------------------------------------------------------------------------
(* What each operation makes of the file. *)

\* A store is its two lists.
LEMMA StoreIs ==
    /\ \A d \in Stores : d.providers \in Keyed(Provider) /\ d.profiles \in Keyed(Profile)
    /\ \A p \in Keyed(Provider), q \in Keyed(Profile) :
          /\ [providers |-> p, profiles |-> q] \in Stores
          /\ [providers |-> p, profiles |-> q].providers = p
          /\ [providers |-> p, profiles |-> q].profiles = q
  BY DEF Stores

\* An operation on profiles leaves the providers.
LEMMA OfProfiles ==
    ASSUME NEW d \in Stores, NEW q \in Keyed(Profile), NEW a, a.op \in ProfileOps,
           SameBut(d.profiles, q, a.op, Target(a))
    PROVE  Lawful(d, [providers |-> d.providers, profiles |-> q], a)
<1>1. [providers |-> d.providers, profiles |-> q] \in Stores
  BY StoreIs
<1> QED
  BY <1>1 DEF Lawful, OnlyAsked, ProfileOps

\* An operation on providers leaves the profiles.
LEMMA OfProviders ==
    ASSUME NEW d \in Stores, NEW p \in Keyed(Provider), NEW a, a.op \notin ProfileOps,
           SameBut(d.providers, p, a.op, a.id),
           DOMAIN d.providers \subseteq DOMAIN p,
           a.op = "accept_harvest" => a.id \in DOMAIN p,
           \A i \in DOMAIN p :
              p[i].formats = None \/ (i \in DOMAIN d.providers /\ p[i].formats = d.providers[i].formats)
    PROVE  Lawful(d, [providers |-> p, profiles |-> d.profiles], a)
<1>1. [providers |-> p, profiles |-> d.profiles] \in Stores
  BY StoreIs
<1> QED
  BY <1>1 DEF Lawful, OnlyAsked

\* rename_provider
LEMMA RenameProviderLawful ==
    ASSUME NEW d \in Stores, NEW a, a.op = "rename_provider", a.id \in DOMAIN d.providers, a.name \in Names
    PROVE  Lawful(d, [providers |-> [d.providers EXCEPT ![a.id].name = a.name], profiles |-> d.profiles], a)
<1>1. PICK f : f = d.providers
  OBVIOUS
<1>2. PICK g : g = [f EXCEPT ![a.id].name = a.name]
  OBVIOUS
<1>3. f \in Keyed(Provider) /\ a.id \in DOMAIN f
  BY <1>1, StoreIs
<1>4. /\ g \in Keyed(Provider) /\ Edited(f, g, a.id)
      /\ \A field \in DOMAIN f[a.id] \ {"name"} : g[a.id][field] = f[a.id][field]
      /\ g[a.id].formats = f[a.id].formats
  <2>1. g \in Keyed(Provider)
    BY <1>2, <1>3, NameEdited
  <2>2. Edited(f, g, a.id)
    BY <1>2, <1>3, NameEdited
  <2>3. \A field \in DOMAIN f[a.id] \ {"name"} : g[a.id][field] = f[a.id][field]
    BY <1>2, <1>3, NameEdited
  <2>4. g[a.id].formats = f[a.id].formats
    BY <1>2, <1>3, NameEdited
  <2> QED
    BY <2>1, <2>2, <2>3, <2>4
<1>5. a.op \notin ProfileOps /\ a.op # "accept_harvest"
  BY DEF ProfileOps
<1>6. SameBut(f, g, a.op, a.id)
  BY <1>3, <1>4 DEF SameBut, Edited, OwnFields, Fields
<1>7. Lawful(d, [providers |-> g, profiles |-> d.profiles], a)
  BY <1>1, <1>3, <1>4, <1>5, <1>6, OfProviders DEF Edited
<1> QED
  BY <1>1, <1>2, <1>7, Zenon

\* set_provider_enabled
LEMMA SetProviderEnabledLawful ==
    ASSUME NEW d \in Stores, NEW a, a.op = "set_provider_enabled",
           a.id \in DOMAIN d.providers, a.enabled \in BOOLEAN
    PROVE  Lawful(d,
           [providers |-> [d.providers EXCEPT ![a.id].enabled = a.enabled], profiles |-> d.profiles], a)
<1>1. PICK f : f = d.providers
  OBVIOUS
<1>2. PICK g : g = [f EXCEPT ![a.id].enabled = a.enabled]
  OBVIOUS
<1>3. f \in Keyed(Provider) /\ a.id \in DOMAIN f
  BY <1>1, StoreIs
<1>4. /\ g \in Keyed(Provider) /\ Edited(f, g, a.id)
      /\ \A field \in DOMAIN f[a.id] \ {"enabled"} : g[a.id][field] = f[a.id][field]
      /\ g[a.id].formats = f[a.id].formats
  <2>1. g \in Keyed(Provider)
    <3>1. DOMAIN f \subseteq Ids /\ f \in [DOMAIN f -> Provider]
      BY <1>3, KeyedIs
    <3>2. DOMAIN g = DOMAIN f /\ g \in [DOMAIN f -> Provider]
      BY <1>2, <1>3, <3>1 DEF Provider
    <3> QED
      BY <3>1, <3>2, KeyedIs, Zenon
  <2>2. Edited(f, g, a.id)
    BY <1>2, <1>3, EnabledEdited
  <2>3. \A field \in DOMAIN f[a.id] \ {"enabled"} : g[a.id][field] = f[a.id][field]
    BY <1>2, <1>3, EnabledEdited
  <2>4. g[a.id].formats = f[a.id].formats
    BY <1>2, <1>3, EnabledEdited
  <2> QED
    BY <2>1, <2>2, <2>3, <2>4
<1>5. a.op \notin ProfileOps /\ a.op # "accept_harvest"
  BY DEF ProfileOps
<1>6. SameBut(f, g, a.op, a.id)
  BY <1>3, <1>4 DEF SameBut, Edited, OwnFields, Fields
<1>7. Lawful(d, [providers |-> g, profiles |-> d.profiles], a)
  BY <1>1, <1>3, <1>4, <1>5, <1>6, OfProviders DEF Edited
<1> QED
  BY <1>1, <1>2, <1>7, Zenon

\* rename_profile
LEMMA RenameProfileLawful ==
    ASSUME NEW d \in Stores, NEW a, a.op = "rename_profile", a.id \in DOMAIN d.profiles, a.name \in Names
    PROVE  Lawful(d, [providers |-> d.providers, profiles |-> [d.profiles EXCEPT ![a.id].name = a.name]], a)
<1>1. PICK f : f = d.profiles
  OBVIOUS
<1>2. PICK g : g = [f EXCEPT ![a.id].name = a.name]
  OBVIOUS
<1>3. f \in Keyed(Profile) /\ a.id \in DOMAIN f
  BY <1>1, StoreIs
<1>4. /\ g \in Keyed(Profile) /\ Edited(f, g, a.id)
      /\ \A field \in DOMAIN f[a.id] \ {"name"} : g[a.id][field] = f[a.id][field]
  <2>1. g \in Keyed(Profile)
    BY <1>2, <1>3, ProfileNameEdited
  <2>2. Edited(f, g, a.id)
    BY <1>2, <1>3, ProfileNameEdited
  <2>3. \A field \in DOMAIN f[a.id] \ {"name"} : g[a.id][field] = f[a.id][field]
    BY <1>2, <1>3, ProfileNameEdited
  <2> QED
    BY <2>1, <2>2, <2>3
<1>5. a.op \in ProfileOps /\ Target(a) = a.id
  BY DEF ProfileOps, Target
<1>6. SameBut(f, g, a.op, a.id)
  BY <1>3, <1>4 DEF SameBut, Edited, OwnFields, Fields
<1>7. Lawful(d, [providers |-> d.providers, profiles |-> g], a)
  BY <1>1, <1>3, <1>4, <1>5, <1>6, OfProfiles DEF Edited
<1> QED
  BY <1>1, <1>2, <1>7, Zenon

\* update_profile
LEMMA UpdateProfileLawful ==
    ASSUME NEW d \in Stores, NEW a, a.op = "update_profile",
           a.id \in DOMAIN d.profiles, a.tools \in Assignments
    PROVE  Lawful(d,
           [providers |-> d.providers, profiles |-> [d.profiles EXCEPT ![a.id].tools = a.tools]], a)
<1>1. PICK f : f = d.profiles
  OBVIOUS
<1>2. PICK g : g = [f EXCEPT ![a.id].tools = a.tools]
  OBVIOUS
<1>3. f \in Keyed(Profile) /\ a.id \in DOMAIN f
  BY <1>1, StoreIs
<1>4. /\ g \in Keyed(Profile) /\ Edited(f, g, a.id)
      /\ \A field \in DOMAIN f[a.id] \ {"tools"} : g[a.id][field] = f[a.id][field]
  <2>1. g \in Keyed(Profile)
    BY <1>2, <1>3, ToolsEdited
  <2>2. Edited(f, g, a.id)
    BY <1>2, <1>3, ToolsEdited
  <2>3. \A field \in DOMAIN f[a.id] \ {"tools"} : g[a.id][field] = f[a.id][field]
    BY <1>2, <1>3, ToolsEdited
  <2> QED
    BY <2>1, <2>2, <2>3
<1>5. a.op \in ProfileOps /\ Target(a) = a.id
  BY DEF ProfileOps, Target
<1>6. SameBut(f, g, a.op, a.id)
  BY <1>3, <1>4 DEF SameBut, Edited, OwnFields, Fields
<1>7. Lawful(d, [providers |-> d.providers, profiles |-> g], a)
  BY <1>1, <1>3, <1>4, <1>5, <1>6, OfProfiles DEF Edited
<1> QED
  BY <1>1, <1>2, <1>7, Zenon

\* set_model_enabled
LEMMA SetModelEnabledLawful ==
    ASSUME NEW d \in Stores, NEW a, NEW x \in {"on", "off"},
           a.op = "set_model_enabled", a.id \in DOMAIN d.providers
    PROVE  Lawful(d, [providers |-> [d.providers EXCEPT ![a.id].models = x], profiles |-> d.profiles], a)
<1>1. PICK f : f = d.providers
  OBVIOUS
<1>2. PICK g : g = [f EXCEPT ![a.id].models = x]
  OBVIOUS
<1>3. f \in Keyed(Provider) /\ a.id \in DOMAIN f
  BY <1>1, StoreIs
<1>4. /\ g \in Keyed(Provider) /\ Edited(f, g, a.id)
      /\ \A field \in DOMAIN f[a.id] \ {"models"} : g[a.id][field] = f[a.id][field]
      /\ g[a.id].formats = f[a.id].formats
  <2>1. g \in Keyed(Provider)
    BY <1>2, <1>3, ModelsEdited
  <2>2. Edited(f, g, a.id)
    BY <1>2, <1>3, ModelsEdited
  <2>3. \A field \in DOMAIN f[a.id] \ {"models"} : g[a.id][field] = f[a.id][field]
    BY <1>2, <1>3, ModelsEdited
  <2>4. g[a.id].formats = f[a.id].formats
    BY <1>2, <1>3, ModelsEdited
  <2> QED
    BY <2>1, <2>2, <2>3, <2>4
<1>5. a.op \notin ProfileOps /\ a.op # "accept_harvest"
  BY DEF ProfileOps
<1>6. SameBut(f, g, a.op, a.id)
  BY <1>3, <1>4 DEF SameBut, Edited, OwnFields, Fields
<1>7. Lawful(d, [providers |-> g, profiles |-> d.profiles], a)
  BY <1>1, <1>3, <1>4, <1>5, <1>6, OfProviders DEF Edited
<1> QED
  BY <1>1, <1>2, <1>7, Zenon

\* discover, of the file as it reads it again.
LEMMA DiscoverLawful ==
    ASSUME NEW d \in Stores, NEW a, NEW x \in {"on", "off"}, a.op = "discover", a.id \in DOMAIN d.providers
    PROVE  Lawful(d, [providers |-> [d.providers EXCEPT ![a.id].models = x], profiles |-> d.profiles], a)
<1>1. PICK f : f = d.providers
  OBVIOUS
<1>2. PICK g : g = [f EXCEPT ![a.id].models = x]
  OBVIOUS
<1>3. f \in Keyed(Provider) /\ a.id \in DOMAIN f
  BY <1>1, StoreIs
<1>4. /\ g \in Keyed(Provider) /\ Edited(f, g, a.id)
      /\ \A field \in DOMAIN f[a.id] \ {"models"} : g[a.id][field] = f[a.id][field]
      /\ g[a.id].formats = f[a.id].formats
  <2>1. g \in Keyed(Provider)
    BY <1>2, <1>3, ModelsEdited
  <2>2. Edited(f, g, a.id)
    BY <1>2, <1>3, ModelsEdited
  <2>3. \A field \in DOMAIN f[a.id] \ {"models"} : g[a.id][field] = f[a.id][field]
    BY <1>2, <1>3, ModelsEdited
  <2>4. g[a.id].formats = f[a.id].formats
    BY <1>2, <1>3, ModelsEdited
  <2> QED
    BY <2>1, <2>2, <2>3, <2>4
<1>5. a.op \notin ProfileOps /\ a.op # "accept_harvest"
  BY DEF ProfileOps
<1>6. SameBut(f, g, a.op, a.id)
  BY <1>3, <1>4 DEF SameBut, Edited, OwnFields, Fields
<1>7. Lawful(d, [providers |-> g, profiles |-> d.profiles], a)
  BY <1>1, <1>3, <1>4, <1>5, <1>6, OfProviders DEF Edited
<1> QED
  BY <1>1, <1>2, <1>7, Zenon

\* create_profile
LEMMA CreateProfileLawful ==
    ASSUME NEW d \in Stores, NEW a, a.op = "create_profile", a.id \in Ids, NEW v \in Profile
    PROVE  Lawful(d, [providers |-> d.providers, profiles |-> Put(d.profiles, a.id, v)], a)
<1>1. a.op \in ProfileOps /\ Target(a) = a.id
  BY DEF ProfileOps, Target
<1>2. OwnFields(a.op) = Fields
  BY DEF OwnFields
<1>3. PICK g : g = Put(d.profiles, a.id, v)
  OBVIOUS
<1>4. /\ g \in Keyed(Profile) /\ DOMAIN g = DOMAIN d.profiles \cup {a.id}
      /\ \A j \in DOMAIN d.profiles \ {a.id} : g[j] = d.profiles[j]
  <2>1. d.profiles \in Keyed(Profile)
    BY StoreIs
  <2>2. g \in Keyed(Profile)
    BY <1>3, <2>1, PutSets, Zenon
  <2> QED
    BY <1>3, <2>2 DEF Put
<1>5. SameBut(d.profiles, g, a.op, a.id)
  BY <1>2, <1>4 DEF SameBut
<1> QED
  BY <1>1, <1>3, <1>4, <1>5, OfProfiles

\* duplicate_profile
LEMMA DuplicateProfileLawful ==
    ASSUME NEW d \in Stores, NEW a, a.op = "duplicate_profile", a.as \in Ids, NEW v \in Profile
    PROVE  Lawful(d, [providers |-> d.providers, profiles |-> Put(d.profiles, a.as, v)], a)
<1>1. a.op \in ProfileOps /\ Target(a) = a.as
  BY DEF ProfileOps, Target
<1>2. OwnFields(a.op) = Fields
  BY DEF OwnFields
<1>3. PICK g : g = Put(d.profiles, a.as, v)
  OBVIOUS
<1>4. /\ g \in Keyed(Profile) /\ DOMAIN g = DOMAIN d.profiles \cup {a.as}
      /\ \A j \in DOMAIN d.profiles \ {a.as} : g[j] = d.profiles[j]
  <2>1. d.profiles \in Keyed(Profile)
    BY StoreIs
  <2>2. g \in Keyed(Profile)
    BY <1>3, <2>1, PutSets, Zenon
  <2> QED
    BY <1>3, <2>2 DEF Put
<1>5. SameBut(d.profiles, g, a.op, a.as)
  BY <1>2, <1>4 DEF SameBut
<1> QED
  BY <1>1, <1>3, <1>4, <1>5, OfProfiles

\* delete_profile
LEMMA DeleteProfileLawful ==
    ASSUME NEW d \in Stores, NEW a, a.op = "delete_profile"
    PROVE  Lawful(d, [providers |-> d.providers, profiles |-> Drop(d.profiles, a.id)], a)
<1>1. a.op \in ProfileOps /\ Target(a) = a.id
  BY DEF ProfileOps, Target
<1>2. OwnFields(a.op) = Fields
  BY DEF OwnFields
<1>3. PICK g : g = Drop(d.profiles, a.id)
  OBVIOUS
<1>4. /\ g \in Keyed(Profile) /\ DOMAIN g = DOMAIN d.profiles \ {a.id}
      /\ \A j \in DOMAIN d.profiles \ {a.id} : g[j] = d.profiles[j]
  <2>1. d.profiles \in Keyed(Profile)
    BY StoreIs
  <2>2. g \in Keyed(Profile)
    BY <1>3, <2>1, DropTakes, Zenon
  <2> QED
    BY <1>3, <2>2 DEF Drop
<1>5. SameBut(d.profiles, g, a.op, a.id)
  BY <1>2, <1>4 DEF SameBut
<1> QED
  BY <1>1, <1>3, <1>4, <1>5, OfProfiles

\* create_provider and accept_harvest
LEMMA FreshLawful ==
    ASSUME NEW d \in Stores, NEW a, a.op \in {"create_provider", "accept_harvest"}, a.id \in Ids,
           NEW name \in Names
    PROVE  Lawful(d, [providers |-> Put(d.providers, a.id, Fresh(name)), profiles |-> d.profiles], a)
<1>1. a.op \notin ProfileOps /\ OwnFields(a.op) = Fields
  BY DEF ProfileOps, OwnFields
<1>2. Fresh(name) \in Provider /\ Fresh(name).formats = None
  BY DEF Fresh, Provider
<1>3. PICK g : g = Put(d.providers, a.id, Fresh(name))
  OBVIOUS
<1>4. /\ g \in Keyed(Provider) /\ DOMAIN g = DOMAIN d.providers \cup {a.id}
      /\ g[a.id] = Fresh(name)
      /\ \A j \in DOMAIN d.providers \ {a.id} : g[j] = d.providers[j]
  <2>1. d.providers \in Keyed(Provider)
    BY StoreIs
  <2>2. g \in Keyed(Provider)
    BY <1>2, <1>3, <2>1, PutSets, Zenon
  <2> QED
    BY <1>3, <2>2 DEF Put
<1>5. SameBut(d.providers, g, a.op, a.id)
  BY <1>1, <1>4 DEF SameBut
<1> QED
  BY <1>1, <1>2, <1>3, <1>4, <1>5, OfProviders
-----------------------------------------------------------------------------
(* The calls. *)

Under == {"locked", "forget", "write"}

TypeOK ==
    /\ doc \in Stores \cup {Unreadable}
    /\ declined \subseteq Ids /\ keys \subseteq Ids
    /\ lock \in Requests \cup {None}
    /\ pc \in [Requests -> Busy \cup Ended \cup {"idle"}]
    /\ ask \in [Requests -> Asks \cup {None}]
    /\ draft \in [Requests -> Stores]
    /\ host \in Hosts
    /\ probe \in [Requests -> [asked : Nat, served : (SUBSET AllFormats) \cup {None}]]
    /\ \A r \in Requests :
          /\ pc[r] # "idle" => ask[r] \in Asks
          /\ pc[r] \in {"idle", "waiting", "asking"} => probe[r].served \in SUBSET AllFormats

\* Whoever is past the lock holds it, until its answer.
Locked == \A r \in Requests : pc[r] \in Under <=> lock = r

\* Which operations come where.
Routed ==
    \A r \in Requests :
        /\ pc[r] = "asking" => ask[r].op \in {"test", "discover"}
        /\ pc[r] = "forget" => ask[r].op = "remove_provider"

\* What test and remove_provider mark and take away is in what they have read.
Found ==
    \A r \in Requests :
        pc[r] \in {"asking", "lock", "locked"} /\ ask[r].op \in Reading =>
            ask[r].id \in DOMAIN draft[r].providers

Base == TypeOK /\ Locked /\ Routed /\ Found

\* The file has been read under the lock, and what is to be written is made of that.
Revised(r) ==
    /\ pc[r] = "locked" /\ pc' = [pc EXCEPT ![r] = "write"]
    /\ ask[r].op \notin {"test", "remove_provider"}
    /\ Lawful(Read, draft'[r], ask[r])
    /\ draft' \in [Requests -> Stores]
    /\ \A q \in Requests \ {r} : draft'[q] = draft[q]
    /\ declined' \subseteq Ids
    /\ UNCHANGED <<doc, keys, lock, ask>>

\* test's marks are made in what was read before the lock was taken.
Marked(r) ==
    /\ pc[r] = "locked" /\ pc' = [pc EXCEPT ![r] = "write"] /\ ask[r].op = "test"
    /\ draft' \in [Requests -> Stores]
    /\ \A q \in Requests \ {r} : draft'[q] = draft[q]
    /\ DOMAIN draft'[r].providers = DOMAIN draft[r].providers
    /\ \A i \in DOMAIN draft[r].providers :
          \/ draft'[r].providers[i].formats = draft[r].providers[i].formats
          \/ probe[r].served # None /\ draft'[r].providers[i].formats = probe[r].served
    /\ UNCHANGED <<doc, declined, keys, lock, ask>>

\* remove_provider takes its record out of what was read before.
Dropped(r) ==
    /\ pc[r] = "locked" /\ pc' = [pc EXCEPT ![r] = "forget"] /\ ask[r].op = "remove_provider"
    /\ draft' \in [Requests -> Stores]
    /\ \A q \in Requests \ {r} : draft'[q] = draft[q]
    /\ DOMAIN draft'[r].providers = DOMAIN draft[r].providers \ {ask[r].id}
    /\ \A i \in DOMAIN draft[r].providers \ {ask[r].id} :
          draft'[r].providers[i] = draft[r].providers[i]
    /\ UNCHANGED <<doc, declined, keys, lock, ask>>

\* The empty store is one.
LEMMA NothingIsStore == Nothing \in Stores
<1>1. [i \in {} |-> None] \in Keyed(Provider) /\ [i \in {} |-> None] \in Keyed(Profile)
  <2> DEFINE e == [i \in {} |-> None]
  <2>1. DOMAIN e = {} /\ e \in [{} -> Provider] /\ e \in [{} -> Profile]
    OBVIOUS
  <2> QED
    BY <2>1, KeyedIs
<1> QED
  BY <1>1, StoreIs DEF Nothing

\* A reading is a store, whatever the file is.
LEMMA ReadIsStore ==
    ASSUME doc \in Stores \cup {Unreadable}
    PROVE  Read \in Stores
  BY NothingIsStore DEF Read

\* What an operation of write_store has made of the reading is to be written.
LEMMA ChangeRevises ==
    ASSUME TypeOK, NEW r \in Requests, NEW op, NEW ok, NEW p, NEW q, Change(r, op, ok, p, q),
           op \notin {"test", "remove_provider"},
           Lawful(Read, [providers |-> p, profiles |-> q], ask[r])
    PROVE  Revised(r)
<1>1. PICK d : d = [providers |-> p, profiles |-> q]
  OBVIOUS
<1>2. draft' = [draft EXCEPT ![r] = d] /\ d \in Stores /\ Lawful(Read, d, ask[r])
  BY <1>1, Zenon DEF Change, Lawful
<1>3. /\ draft'[r] = d /\ draft' \in [Requests -> Stores]
      /\ \A s \in Requests \ {r} : draft'[s] = draft[s]
  BY <1>2 DEF TypeOK
<1> QED
  BY <1>2, <1>3 DEF Change, Goto, Revised, TypeOK

\* The operations on profiles.
LEMMA ProfilesRevised ==
    ASSUME TypeOK, NEW r \in Requests,
           \/ CreateProfile(r) \/ UpdateProfile(r) \/ RenameProfile(r) \/ DuplicateProfile(r)
           \/ DeleteProfile(r)
    PROVE  Revised(r)
<1> USE ProfilesAssumption
<1>1. Read \in Stores
  BY ReadIsStore DEF TypeOK
<1>2. pc[r] = "locked" => Complete(ask[r])
  BY DEF TypeOK
<1>3. CASE CreateProfile(r)
  <2>1. /\ ask[r].op = "create_profile" /\ ask[r].id \in Ids
        /\ [name |-> ask[r].name, tools |-> ask[r].tools] \in Profile
    BY <1>2, <1>3 DEF CreateProfile, Change, Complete, Profile
  <2> QED
    BY <1>1, <1>3, <2>1, CreateProfileLawful, ChangeRevises DEF CreateProfile
<1>4. CASE UpdateProfile(r)
  <2>1. /\ ask[r].op = "update_profile" /\ ask[r].id \in DOMAIN Read.profiles
        /\ ask[r].tools \in Assignments
    BY <1>2, <1>4 DEF UpdateProfile, Change, Complete, HasProfile
  <2> QED
    BY <1>1, <1>4, <2>1, UpdateProfileLawful, ChangeRevises, Zenon DEF UpdateProfile
<1>5. CASE RenameProfile(r)
  <2>1. /\ ask[r].op = "rename_profile" /\ ask[r].id \in DOMAIN Read.profiles
        /\ ask[r].name \in Names
    BY <1>2, <1>5 DEF RenameProfile, Change, Complete, HasProfile
  <2> QED
    BY <1>1, <1>5, <2>1, RenameProfileLawful, ChangeRevises, Zenon DEF RenameProfile
<1>6. CASE DuplicateProfile(r)
  <2>1. PICK name \in Names :
          Change(r, "duplicate_profile", HasProfile(r) /\ ask[r].as \notin DOMAIN Read.profiles,
                 Read.providers,
                 Put(Read.profiles, ask[r].as, [Read.profiles[ask[r].id] EXCEPT !.name = name]))
    BY <1>6 DEF DuplicateProfile
  <2>2. /\ ask[r].op = "duplicate_profile" /\ ask[r].as \in Ids
        /\ ask[r].id \in DOMAIN Read.profiles
    BY <1>2, <2>1 DEF Change, Complete, HasProfile
  <2>3. [Read.profiles[ask[r].id] EXCEPT !.name = name] \in Profile
    <3>1. Read.profiles \in Keyed(Profile)
      BY <1>1, StoreIs
    <3>2. PICK v : v = Read.profiles[ask[r].id]
      OBVIOUS
    <3>3. v \in Profile
      BY <2>2, <3>1, <3>2, KeyedIs
    <3>4. [v EXCEPT !.name = name] \in Profile
      BY <3>3 DEF Profile
    <3> QED
      BY <3>2, <3>4, Zenon
  <2> QED
    BY <1>1, <2>1, <2>2, <2>3, DuplicateProfileLawful, ChangeRevises, Zenon
<1>7. CASE DeleteProfile(r)
  <2>1. ask[r].op = "delete_profile"
    BY <1>7 DEF DeleteProfile, Change
  <2> QED
    BY <1>1, <1>7, <2>1, DeleteProfileLawful, ChangeRevises DEF DeleteProfile
<1> QED
  BY <1>3, <1>4, <1>5, <1>6, <1>7

\* The operations on providers, and an accepted harvest.
LEMMA ProvidersRevised ==
    ASSUME TypeOK, NEW r \in Requests,
           \/ CreateProvider(r) \/ RenameProvider(r) \/ SetProviderEnabled(r) \/ SetModelEnabled(r)
           \/ AcceptHarvest(r)
    PROVE  Revised(r)
<1> USE ProfilesAssumption
<1>1. Read \in Stores
  BY ReadIsStore DEF TypeOK
<1>2. pc[r] = "locked" => Complete(ask[r])
  BY DEF TypeOK
<1>3. CASE CreateProvider(r)
  <2>1. /\ ask[r].op = "create_provider" /\ ask[r].id \in Ids /\ ask[r].name \in Names
    BY <1>2, <1>3 DEF CreateProvider, Change, Complete
  <2>2. Change(r, "create_provider", ~HasProvider(r),
               Put(Read.providers, ask[r].id, Fresh(ask[r].name)), Read.profiles)
    BY <1>3 DEF CreateProvider
  <2>3. Lawful(Read, [providers |-> Put(Read.providers, ask[r].id, Fresh(ask[r].name)),
                      profiles |-> Read.profiles], ask[r])
    BY <1>1, <2>1, FreshLawful
  <2> QED
    BY <2>2, <2>3, ChangeRevises
<1>4. CASE RenameProvider(r)
  <2>1. /\ ask[r].op = "rename_provider" /\ ask[r].id \in DOMAIN Read.providers
        /\ ask[r].name \in Names
    BY <1>2, <1>4 DEF RenameProvider, Change, Complete, HasProvider
  <2> QED
    BY <1>1, <1>4, <2>1, RenameProviderLawful, ChangeRevises, Zenon DEF RenameProvider
<1>5. CASE SetProviderEnabled(r)
  <2>1. /\ ask[r].op = "set_provider_enabled" /\ ask[r].id \in DOMAIN Read.providers
        /\ ask[r].enabled \in BOOLEAN
    BY <1>2, <1>5 DEF SetProviderEnabled, Change, Complete, HasProvider
  <2> QED
    BY <1>1, <1>5, <2>1, SetProviderEnabledLawful, ChangeRevises, Zenon DEF SetProviderEnabled
<1>6. CASE SetModelEnabled(r)
  <2>1. /\ ask[r].op = "set_model_enabled" /\ ask[r].id \in DOMAIN Read.providers
    BY <1>6 DEF SetModelEnabled, Change, HasProvider
  <2>2. (IF ask[r].enabled THEN "on" ELSE "off") \in {"on", "off"}
    OBVIOUS
  <2> QED
    BY <1>1, <1>6, <2>1, <2>2, SetModelEnabledLawful, ChangeRevises, Zenon DEF SetModelEnabled
<1>7. CASE AcceptHarvest(r)
  <2>1. /\ ask[r].op = "accept_harvest" /\ ask[r].id \in Ids /\ declined' \subseteq Ids
    BY <1>2, <1>7 DEF AcceptHarvest, Complete, TypeOK
  <2>2. PICK name \in Names :
          draft' = [draft EXCEPT ![r] = [Read EXCEPT !.providers = Put(@, ask[r].id, Fresh(name))]]
    BY <1>7 DEF AcceptHarvest
  <2>3. PICK old : old = Read
    OBVIOUS
  <2>4. PICK new : new = [providers |-> Put(old.providers, ask[r].id, Fresh(name)),
                          profiles |-> old.profiles]
    OBVIOUS
  <2>5. new = [old EXCEPT !.providers = Put(@, ask[r].id, Fresh(name))]
    BY <1>1, <2>3, <2>4 DEF Stores
  <2>6. draft' = [draft EXCEPT ![r] = new]
    BY <2>2, <2>3, <2>5, Zenon
  <2>7. Lawful(Read, new, ask[r])
    BY <1>1, <2>1, <2>3, <2>4, FreshLawful
  <2>8. new \in Stores
    BY <2>7 DEF Lawful
  <2>9. /\ draft'[r] = new /\ draft' \in [Requests -> Stores]
        /\ \A s \in Requests \ {r} : draft'[s] = draft[s]
    BY <2>6, <2>8 DEF TypeOK
  <2> QED
    BY <1>7, <2>1, <2>7, <2>9 DEF AcceptHarvest, Goto, Revised
<1> QED
  BY <1>3, <1>4, <1>5, <1>6, <1>7

\* discover, when the provider is still there.
LEMMA DiscoverRevised ==
    ASSUME TypeOK, NEW r \in Requests, Discover(r), HasProvider(r)
    PROVE  Revised(r)
<1>1. Read \in Stores
  BY ReadIsStore DEF TypeOK
<1>2. PICK old : old = Read
  OBVIOUS
<1>3. PICK new : new = [providers |-> [old.providers EXCEPT ![ask[r].id].models = "on"],
                        profiles |-> old.profiles]
  OBVIOUS
<1>4. new = [old EXCEPT !.providers[ask[r].id].models = "on"]
  BY <1>1, <1>2, <1>3 DEF Stores
<1>5. draft' = [draft EXCEPT ![r] = new]
  <2>1. draft' = [draft EXCEPT ![r] = [Read EXCEPT !.providers[ask[r].id].models = "on"]]
    BY DEF Discover
  <2> QED
    BY <1>2, <1>4, <2>1, Zenon
<1>6. ask[r].op = "discover" /\ ask[r].id \in DOMAIN old.providers
  BY <1>2 DEF Discover, HasProvider
<1>7. Lawful(old, new, ask[r])
  BY <1>1, <1>2, <1>3, <1>6, DiscoverLawful, Zenon
<1>8. new \in Stores
  BY <1>7 DEF Lawful
<1>9. /\ draft'[r] = new /\ draft' \in [Requests -> Stores]
      /\ \A s \in Requests \ {r} : draft'[s] = draft[s]
  BY <1>5, <1>8 DEF TypeOK
<1>10. pc[r] = "locked" /\ pc' = [pc EXCEPT ![r] = "write"] /\ UNCHANGED <<doc, declined, keys, lock, ask>>
  BY DEF Discover, Goto
<1> QED
  BY <1>2, <1>6, <1>7, <1>9, <1>10 DEF Revised, TypeOK

\* test
LEMMA TestMarks ==
    ASSUME TypeOK, Found, NEW r \in Requests, Test(r)
    PROVE  Marked(r)
<1>1. PICK d : d = draft[r]
  OBVIOUS
<1>2. PICK i : i = ask[r].id
  OBVIOUS
<1>3. d \in Stores /\ d.providers \in Keyed(Provider) /\ i \in DOMAIN d.providers
  BY <1>1, <1>2, StoreIs DEF TypeOK, Found, Test, Reading
<1>4. PICK f : f = d.providers
  OBVIOUS
<1>5. f[i] \in Provider /\ f \in Keyed(Provider) /\ i \in DOMAIN f
  BY <1>3, <1>4, KeyedIs
<1>6. PICK x : x = IF probe[r].served = None THEN f[i].formats ELSE probe[r].served
  OBVIOUS
<1>7. x \in (SUBSET AllFormats) \cup {None}
  BY <1>5, <1>6 DEF Provider, TypeOK
<1>8. draft' = [draft EXCEPT ![r].providers[i].tested = TRUE, ![r].providers[i].formats = x]
  BY <1>1, <1>2, <1>3, <1>4, <1>5, <1>6 DEF Test, TypeOK, Stores
<1>9. PICK g : g = [f EXCEPT ![i].tested = TRUE, ![i].formats = x]
  OBVIOUS
<1>10. g \in Keyed(Provider) /\ Edited(f, g, i) /\ g[i].formats = x
  <2>1. g \in Keyed(Provider)
    BY <1>5, <1>7, <1>9, TestEdited, Zenon
  <2>2. Edited(f, g, i)
    BY <1>5, <1>7, <1>9, TestEdited, Zenon
  <2>3. g[i].formats = x
    BY <1>5, <1>9, KeyedIs DEF Provider
  <2> QED
    BY <2>1, <2>2, <2>3
<1>11. draft'[r] = [providers |-> g, profiles |-> d.profiles]
  BY <1>1, <1>3, <1>4, <1>5, <1>8, <1>9 DEF TypeOK, Stores
<1>12. draft'[r] \in Stores /\ draft'[r].providers = g
  BY <1>3, <1>10, <1>11, StoreIs
<1>13. DOMAIN draft' = Requests /\ \A q \in Requests \ {r} : draft'[q] = draft[q]
  BY <1>8 DEF TypeOK
<1>14. draft' \in [Requests -> Stores]
  BY <1>8, <1>12, <1>13 DEF TypeOK
<1>15. \A j \in DOMAIN d.providers :
         \/ g[j].formats = d.providers[j].formats
         \/ probe[r].served # None /\ g[j].formats = probe[r].served
  BY <1>4, <1>6, <1>10 DEF Edited
<1>16. /\ pc[r] = "locked" /\ pc' = [pc EXCEPT ![r] = "write"] /\ ask[r].op = "test"
       /\ UNCHANGED <<doc, declined, keys, lock, ask>>
  BY DEF Test, Goto
<1> QED
  BY <1>1, <1>4, <1>10, <1>12, <1>13, <1>14, <1>15, <1>16 DEF Marked, Edited

\* remove_provider
LEMMA RemoveDrops ==
    ASSUME TypeOK, NEW r \in Requests, RemoveProvider(r)
    PROVE  Dropped(r)
<1>1. PICK d : d = draft[r]
  OBVIOUS
<1>2. d \in Stores /\ d.providers \in Keyed(Provider) /\ d.profiles \in Keyed(Profile)
  BY <1>1, StoreIs DEF TypeOK
<1>3. PICK g : g = Drop(d.providers, ask[r].id)
  OBVIOUS
<1>4. /\ g \in Keyed(Provider) /\ DOMAIN g = DOMAIN d.providers \ {ask[r].id}
      /\ \A j \in DOMAIN d.providers \ {ask[r].id} : g[j] = d.providers[j]
  <2>1. g \in Keyed(Provider)
    BY <1>2, <1>3, DropTakes, Zenon
  <2> QED
    BY <1>3, <2>1 DEF Drop
<1>5. draft' = [draft EXCEPT ![r].providers = g]
  BY <1>1, <1>3 DEF RemoveProvider, TypeOK, Stores
<1>6. draft'[r] = [providers |-> g, profiles |-> d.profiles]
  BY <1>1, <1>5 DEF TypeOK, Stores
<1>7. draft'[r] \in Stores /\ draft'[r].providers = g
  BY <1>2, <1>4, <1>6, StoreIs
<1>8. DOMAIN draft' = Requests /\ \A q \in Requests \ {r} : draft'[q] = draft[q]
  BY <1>5 DEF TypeOK
<1>9. draft' \in [Requests -> Stores]
  BY <1>5, <1>7, <1>8 DEF TypeOK
<1>10. /\ pc[r] = "locked" /\ pc' = [pc EXCEPT ![r] = "forget"] /\ ask[r].op = "remove_provider"
       /\ UNCHANGED <<doc, declined, keys, lock, ask>>
  BY DEF RemoveProvider, Goto
<1> QED
  BY <1>1, <1>4, <1>7, <1>8, <1>9, <1>10 DEF Dropped
-----------------------------------------------------------------------------
(* What holds whatever is asked. *)

\* discover finds that its provider is gone.
Panics(r) == Discover(r) /\ ~HasProvider(r)

\* A probe goes on from one record to another.
LEMMA ProbeTyped ==
    ASSUME NEW T, NEW p \in [Requests -> [asked : Nat, served : T]], NEW r \in Requests,
           NEW n \in Nat, NEW x \in T
    PROVE  /\ [p EXCEPT ![r].asked = n] \in [Requests -> [asked : Nat, served : T]]
           /\ [p EXCEPT ![r].served = x] \in [Requests -> [asked : Nat, served : T]]
           /\ [p EXCEPT ![r].asked = @ + 1, ![r].served = x] \in [Requests -> [asked : Nat, served : T]]
<1>1. [p EXCEPT ![r].asked = n] \in [Requests -> [asked : Nat, served : T]]
  OBVIOUS
<1>2. [p EXCEPT ![r].served = x] \in [Requests -> [asked : Nat, served : T]]
  OBVIOUS
<1>3. [p EXCEPT ![r].asked = @ + 1, ![r].served = x] \in [Requests -> [asked : Nat, served : T]]
  <2> DEFINE g == [p EXCEPT ![r].asked = @ + 1, ![r].served = x]
  <2>1. p[r].asked + 1 \in Nat
    OBVIOUS
  <2>2. g[r] = [asked |-> p[r].asked + 1, served |-> x]
    OBVIOUS
  <2>3. \A q \in Requests \ {r} : g[q] = p[q]
    OBVIOUS
  <2>4. g = [q \in Requests |-> g[q]]
    OBVIOUS
  <2> HIDE DEF g
  <2>5. \A q \in Requests : g[q] \in [asked : Nat, served : T]
    BY <2>1, <2>2, <2>3
  <2>6. g \in [Requests -> [asked : Nat, served : T]]
    BY <2>4, <2>5
  <2> QED
    BY <2>6 DEF g
<1> QED
  BY <1>1, <1>2, <1>3

\* The steps, by what they do.
LEMMA NextIs ==
    ASSUME Base, Next
    PROVE  \/ \E r \in Requests :
                /\ probe' = probe /\ host' = host
                /\ \/ Start(r) \/ Straight(r) \/ ReadFirst(r) \/ AskCatalogue(r) \/ StoreKey(r)
                   \/ SetCredential(r) \/ TakeLock(r) \/ GiveUp(r) \/ Unwilling(r) \/ Panics(r)
                   \/ Forget(r) \/ DeclineHarvest(r) \/ Write(r) \/ Crash(r)
                   \/ Revised(r) \/ Marked(r) \/ Dropped(r)
           \/ \E r \in Requests : Probe(r) /\ host' = host
           \/ Spoil /\ probe' = probe /\ host' = host
<1>1. ASSUME NEW r \in Requests, WriteStore(r) PROVE Revised(r) \/ Unwilling(r)
  BY <1>1, ProfilesRevised, ProvidersRevised DEF Base, WriteStore
<1>2. ASSUME NEW r \in Requests, Discover(r) PROVE Revised(r) \/ Panics(r)
  BY <1>2, DiscoverRevised DEF Base, Panics
<1>3. ASSUME NEW r \in Requests, AcceptHarvest(r) PROVE Revised(r)
  BY <1>3, ProvidersRevised DEF Base
<1>4. ASSUME NEW r \in Requests, Test(r) PROVE Marked(r)
  BY <1>4, TestMarks DEF Base
<1>5. ASSUME NEW r \in Requests, RemoveProvider(r) PROVE Dropped(r)
  BY <1>5, RemoveDrops DEF Base
<1>6. host' = host
  BY DEF Next
<1>7. CASE \E r \in Requests : Call(r) /\ probe' = probe
  <2>1. PICK r \in Requests : Call(r) /\ probe' = probe
    BY <1>7
  <2> QED
    BY <2>1, <1>1, <1>2, <1>3, <1>4, <1>5, <1>6 DEF Call
<1> QED
  BY <1>6, <1>7 DEF Next

\* Types are kept.
LEMMA StepTypeOK ==
    ASSUME Base, [Next]_vars
    PROVE  TypeOK'
<1> USE ProfilesAssumption
<1>1. CASE UNCHANGED vars
  BY <1>1 DEF vars, Base, TypeOK
<1>2. ASSUME NEW r \in Requests, Start(r), probe' = probe, host' = host PROVE TypeOK'
  BY <1>2 DEF Start, Goto, Busy, Ended, Base, TypeOK
<1>3. ASSUME NEW r \in Requests, Straight(r), probe' = probe, host' = host PROVE TypeOK'
  BY <1>3 DEF Straight, Goto, Busy, Ended, Plain, ProfileOps, ProviderOps, Base, TypeOK
<1>4. ASSUME NEW r \in Requests, ReadFirst(r), probe' = probe, host' = host PROVE TypeOK'
  BY <1>4, ReadIsStore DEF ReadFirst, Goto, Busy, Ended, Reading, Base, TypeOK
<1>5. ASSUME NEW r \in Requests, AskCatalogue(r), probe' = probe, host' = host PROVE TypeOK'
  BY <1>5 DEF AskCatalogue, Goto, Busy, Ended, Base, TypeOK
<1>6. ASSUME NEW r \in Requests, StoreKey(r), probe' = probe, host' = host PROVE TypeOK'
  <2>1. pc[r] = "waiting" \/ pc[r] = "locked" => ask[r].id \in Ids
    BY DEF Base, TypeOK, Complete
  <2> QED
    BY <1>6, <2>1 DEF StoreKey, Answer, Goto, Busy, Ended, Base, TypeOK
<1>7. ASSUME NEW r \in Requests, SetCredential(r), probe' = probe, host' = host PROVE TypeOK'
  <2>1. pc[r] = "waiting" \/ pc[r] = "locked" => ask[r].id \in Ids
    BY DEF Base, TypeOK, Complete
  <2> QED
    BY <1>7, <2>1 DEF SetCredential, Answer, Goto, Busy, Ended, Base, TypeOK
<1>8. ASSUME NEW r \in Requests, TakeLock(r), probe' = probe, host' = host PROVE TypeOK'
  BY <1>8 DEF TakeLock, Goto, Busy, Ended, Base, TypeOK
<1>9. ASSUME NEW r \in Requests, GiveUp(r), probe' = probe, host' = host PROVE TypeOK'
  BY <1>9 DEF GiveUp, Goto, Busy, Ended, Base, TypeOK
<1>10. ASSUME NEW r \in Requests, Unwilling(r), probe' = probe, host' = host PROVE TypeOK'
  BY <1>10 DEF Unwilling, Answer, Goto, Busy, Ended, Base, TypeOK
<1>11. ASSUME NEW r \in Requests, Panics(r), probe' = probe, host' = host PROVE TypeOK'
  BY <1>11 DEF Panics, Discover, Answer, Goto, Busy, Ended, Base, TypeOK
<1>12. ASSUME NEW r \in Requests, Forget(r), probe' = probe, host' = host PROVE TypeOK'
  BY <1>12 DEF Forget, Answer, Goto, Busy, Ended, Base, TypeOK
<1>13. ASSUME NEW r \in Requests, DeclineHarvest(r), probe' = probe, host' = host PROVE TypeOK'
  <2>1. pc[r] = "waiting" \/ pc[r] = "locked" => ask[r].id \in Ids
    BY DEF Base, TypeOK, Complete
  <2> QED
    BY <1>13, <2>1 DEF DeclineHarvest, Answer, Goto, Busy, Ended, Base, TypeOK
<1>14. ASSUME NEW r \in Requests, Write(r), probe' = probe, host' = host PROVE TypeOK'
  <2>1. CASE doc' = draft[r] /\ Answer(r, "write", "changed")
    BY <1>14, <2>1 DEF Write, Answer, Goto, Busy, Ended, Base, TypeOK
  <2>2. CASE UNCHANGED doc /\ Answer(r, "write", "refused")
    BY <1>14, <2>2 DEF Write, Answer, Goto, Busy, Ended, Base, TypeOK
  <2> QED
    BY <1>14, <2>1, <2>2 DEF Write
<1>15. ASSUME NEW r \in Requests, Crash(r), probe' = probe, host' = host PROVE TypeOK'
  BY <1>15 DEF Crash, Answer, Goto, Busy, Ended, Base, TypeOK
<1>16. ASSUME NEW r \in Requests, Revised(r), probe' = probe, host' = host PROVE TypeOK'
  BY <1>16 DEF Revised, Busy, Ended, Base, TypeOK
<1>17. ASSUME NEW r \in Requests, Marked(r), probe' = probe, host' = host PROVE TypeOK'
  BY <1>17 DEF Marked, Busy, Ended, Base, TypeOK
<1>18. ASSUME NEW r \in Requests, Dropped(r), probe' = probe, host' = host PROVE TypeOK'
  BY <1>18 DEF Dropped, Busy, Ended, Base, TypeOK
<1>19. ASSUME NEW r \in Requests, Probe(r), host' = host PROVE TypeOK'
  <2>1. pc[r] = "asking" /\ probe[r].asked \in Nat /\ probe[r].served \in (SUBSET AllFormats) \cup {None}
    BY <1>19 DEF Probe, Base, TypeOK
  <2>2. pc' \in [Requests -> Busy \cup Ended \cup {"idle"}]
       /\ \A q \in Requests : pc'[q] # "idle" => pc[q] # "idle"
    BY <1>19, <2>1 DEF Probe, AskControl, AskFormat, NoAnswer, Goto, Busy, Ended, Base, TypeOK
  <2>3. probe' \in [Requests -> [asked : Nat, served : (SUBSET AllFormats) \cup {None}]]
    <3>1. CASE AskControl(r)
      <4>1. probe' = [probe EXCEPT ![r].served = None] \/ probe' = [probe EXCEPT ![r].asked = 1]
        BY <3>1 DEF AskControl
      <4>2. CASE probe' = [probe EXCEPT ![r].served = None]
        BY <4>2, ProbeTyped DEF Base, TypeOK
      <4>3. CASE probe' = [probe EXCEPT ![r].asked = 1]
        BY <4>3, ProbeTyped DEF Base, TypeOK
      <4> QED
        BY <4>1, <4>2, <4>3
    <3>2. CASE AskFormat(r)
      <4>1. PICK served : served = IF host.gateway \/ Formats[probe[r].asked] \in host.serves
                                   THEN probe[r].served \cup {Formats[probe[r].asked]}
                                   ELSE probe[r].served
        OBVIOUS
      <4>2. Formats[probe[r].asked] \in AllFormats
        BY <3>2 DEF AskFormat, AllFormats
      <4>3. probe[r].served \in SUBSET AllFormats
        BY <2>1 DEF Base, TypeOK
      <4>4. served \in SUBSET AllFormats
        BY <4>1, <4>2, <4>3
      <4>5. probe' = [probe EXCEPT ![r].asked = @ + 1, ![r].served = served]
        BY <3>2, <4>1 DEF AskFormat, Base, TypeOK
      <4> QED
        BY <2>1, <4>4, <4>5, ProbeTyped DEF Base, TypeOK
    <3>3. CASE NoAnswer(r)
      BY <3>3 DEF NoAnswer, Base, TypeOK
    <3> QED
      BY <1>19, <3>1, <3>2, <3>3 DEF Probe
  <2>4. \A q \in Requests : pc'[q] \in {"idle", "waiting", "asking"} =>
           probe'[q].served \in SUBSET AllFormats
    <3>1. CASE AskControl(r)
      BY <1>19, <3>1 DEF AskControl, Goto, Base, TypeOK
    <3>2. CASE AskFormat(r)
      <4>1. Formats[probe[r].asked] \in AllFormats
        BY <3>2 DEF AskFormat, AllFormats
      <4>2. probe[r].served \in SUBSET AllFormats
        BY <2>1 DEF Base, TypeOK
      <4>3. probe'[r].served \in SUBSET AllFormats
        BY <2>1, <3>2, <4>1, <4>2 DEF AskFormat, Base, TypeOK
      <4>4. \A q \in Requests \ {r} : probe'[q] = probe[q] /\ pc'[q] = pc[q]
        BY <3>2 DEF AskFormat, Goto, Base, TypeOK
      <4> QED
        BY <4>3, <4>4 DEF Base, TypeOK
    <3>3. CASE NoAnswer(r)
      BY <1>19, <3>3 DEF NoAnswer, Goto, Base, TypeOK
    <3> QED
      BY <1>19, <3>1, <3>2, <3>3 DEF Probe
  <2> QED
    BY <1>19, <2>2, <2>3, <2>4 DEF Probe, Base, TypeOK
<1>20. CASE Spoil /\ probe' = probe /\ host' = host
  BY <1>20 DEF Spoil, Base, TypeOK
<1> QED
  BY <1>1, <1>2, <1>3, <1>4, <1>5, <1>6, <1>7, <1>8, <1>9, <1>10, <1>11, <1>12, <1>13, <1>14, <1>15,
     <1>16, <1>17, <1>18, <1>19, <1>20, NextIs

\* The lock goes with the places past it.
LEMMA StepLocked ==
    ASSUME Base, [Next]_vars
    PROVE  Locked'
<1> USE ProfilesAssumption
<1>1. CASE UNCHANGED vars
  BY <1>1 DEF vars, Base, TypeOK, Locked, Under
<1>2. ASSUME NEW r \in Requests, Start(r), probe' = probe, host' = host PROVE Locked'
  BY <1>2 DEF Start, Goto, Busy, Ended, Base, TypeOK, Locked, Under
<1>3. ASSUME NEW r \in Requests, Straight(r), probe' = probe, host' = host PROVE Locked'
  BY <1>3 DEF Straight, Goto, Busy, Ended, Plain, ProfileOps, ProviderOps, Base, TypeOK, Locked, Under
<1>4. ASSUME NEW r \in Requests, ReadFirst(r), probe' = probe, host' = host PROVE Locked'
  BY <1>4 DEF ReadFirst, Goto, Busy, Ended, Reading, Base, TypeOK, Locked, Under
<1>5. ASSUME NEW r \in Requests, AskCatalogue(r), probe' = probe, host' = host PROVE Locked'
  BY <1>5 DEF AskCatalogue, Goto, Busy, Ended, Base, TypeOK, Locked, Under
<1>6. ASSUME NEW r \in Requests, StoreKey(r), probe' = probe, host' = host PROVE Locked'
  BY <1>6 DEF StoreKey, Goto, Busy, Ended, Base, TypeOK, Locked, Under
<1>7. ASSUME NEW r \in Requests, SetCredential(r), probe' = probe, host' = host PROVE Locked'
  BY <1>7 DEF SetCredential, Goto, Busy, Ended, Base, TypeOK, Locked, Under
<1>8. ASSUME NEW r \in Requests, TakeLock(r), probe' = probe, host' = host PROVE Locked'
  BY <1>8 DEF TakeLock, Goto, Busy, Ended, Base, TypeOK, Locked, Under
<1>9. ASSUME NEW r \in Requests, GiveUp(r), probe' = probe, host' = host PROVE Locked'
  BY <1>9 DEF GiveUp, Goto, Busy, Ended, Base, TypeOK, Locked, Under
<1>10. ASSUME NEW r \in Requests, Unwilling(r), probe' = probe, host' = host PROVE Locked'
  BY <1>10 DEF Unwilling, Answer, Goto, Busy, Ended, Base, TypeOK, Locked, Under
<1>11. ASSUME NEW r \in Requests, Panics(r), probe' = probe, host' = host PROVE Locked'
  BY <1>11 DEF Panics, Discover, Answer, Goto, Busy, Ended, Base, TypeOK, Locked, Under
<1>12. ASSUME NEW r \in Requests, Forget(r), probe' = probe, host' = host PROVE Locked'
  BY <1>12 DEF Forget, Answer, Goto, Busy, Ended, Base, TypeOK, Locked, Under
<1>13. ASSUME NEW r \in Requests, DeclineHarvest(r), probe' = probe, host' = host PROVE Locked'
  BY <1>13 DEF DeclineHarvest, Answer, Goto, Busy, Ended, Base, TypeOK, Locked, Under
<1>14. ASSUME NEW r \in Requests, Write(r), probe' = probe, host' = host PROVE Locked'
  BY <1>14 DEF Write, Answer, Goto, Busy, Ended, Base, TypeOK, Locked, Under
<1>15. ASSUME NEW r \in Requests, Crash(r), probe' = probe, host' = host PROVE Locked'
  BY <1>15 DEF Crash, Answer, Goto, Busy, Ended, Base, TypeOK, Locked, Under
<1>16. ASSUME NEW r \in Requests, Revised(r), probe' = probe, host' = host PROVE Locked'
  BY <1>16 DEF Revised, Busy, Ended, Base, TypeOK, Locked, Under
<1>17. ASSUME NEW r \in Requests, Marked(r), probe' = probe, host' = host PROVE Locked'
  BY <1>17 DEF Marked, Busy, Ended, Base, TypeOK, Locked, Under
<1>18. ASSUME NEW r \in Requests, Dropped(r), probe' = probe, host' = host PROVE Locked'
  BY <1>18 DEF Dropped, Busy, Ended, Base, TypeOK, Locked, Under
<1>19. ASSUME NEW r \in Requests, Probe(r), host' = host PROVE Locked'
  BY <1>19 DEF Probe, AskControl, AskFormat, NoAnswer, Goto, Busy, Ended, Base, TypeOK, Locked, Under
<1>20. CASE Spoil /\ probe' = probe /\ host' = host
  BY <1>20 DEF Spoil, Base, TypeOK, Locked, Under
<1> QED
  BY <1>1, <1>2, <1>3, <1>4, <1>5, <1>6, <1>7, <1>8, <1>9, <1>10, <1>11, <1>12, <1>13, <1>14, <1>15,
     <1>16, <1>17, <1>18, <1>19, <1>20, NextIs

\* An operation stays on its way.
LEMMA StepRouted ==
    ASSUME Base, [Next]_vars
    PROVE  Routed'
<1> USE ProfilesAssumption
<1>1. CASE UNCHANGED vars
  BY <1>1 DEF vars, Base, TypeOK, Routed, Plain, Reading, ProfileOps, ProviderOps
<1>2. ASSUME NEW r \in Requests, Start(r), probe' = probe, host' = host PROVE Routed'
  BY <1>2 DEF Start, Goto, Busy, Ended, Base, TypeOK, Routed, Plain, Reading, ProfileOps, ProviderOps
<1>3. ASSUME NEW r \in Requests, Straight(r), probe' = probe, host' = host PROVE Routed'
  BY <1>3 DEF Straight, Goto, Busy, Ended, Plain, ProfileOps, ProviderOps, Base, TypeOK, Routed,
     Plain, Reading, ProfileOps, ProviderOps
<1>4. ASSUME NEW r \in Requests, ReadFirst(r), probe' = probe, host' = host PROVE Routed'
  BY <1>4 DEF ReadFirst, Goto, Busy, Ended, Reading, Base, TypeOK, Routed, Plain, Reading,
     ProfileOps, ProviderOps
<1>5. ASSUME NEW r \in Requests, AskCatalogue(r), probe' = probe, host' = host PROVE Routed'
  BY <1>5 DEF AskCatalogue, Goto, Busy, Ended, Base, TypeOK, Routed, Plain, Reading, ProfileOps,
     ProviderOps
<1>6. ASSUME NEW r \in Requests, StoreKey(r), probe' = probe, host' = host PROVE Routed'
  BY <1>6 DEF StoreKey, Goto, Busy, Ended, Base, TypeOK, Routed, Plain, Reading, ProfileOps, ProviderOps
<1>7. ASSUME NEW r \in Requests, SetCredential(r), probe' = probe, host' = host PROVE Routed'
  BY <1>7 DEF SetCredential, Goto, Busy, Ended, Base, TypeOK, Routed, Plain, Reading, ProfileOps,
     ProviderOps
<1>8. ASSUME NEW r \in Requests, TakeLock(r), probe' = probe, host' = host PROVE Routed'
  BY <1>8 DEF TakeLock, Goto, Busy, Ended, Base, TypeOK, Routed, Plain, Reading, ProfileOps, ProviderOps
<1>9. ASSUME NEW r \in Requests, GiveUp(r), probe' = probe, host' = host PROVE Routed'
  BY <1>9 DEF GiveUp, Goto, Busy, Ended, Base, TypeOK, Routed, Plain, Reading, ProfileOps, ProviderOps
<1>10. ASSUME NEW r \in Requests, Unwilling(r), probe' = probe, host' = host PROVE Routed'
  BY <1>10 DEF Unwilling, Answer, Goto, Busy, Ended, Base, TypeOK, Routed, Plain, Reading,
     ProfileOps, ProviderOps
<1>11. ASSUME NEW r \in Requests, Panics(r), probe' = probe, host' = host PROVE Routed'
  BY <1>11 DEF Panics, Discover, Answer, Goto, Busy, Ended, Base, TypeOK, Routed, Plain, Reading,
     ProfileOps, ProviderOps
<1>12. ASSUME NEW r \in Requests, Forget(r), probe' = probe, host' = host PROVE Routed'
  BY <1>12 DEF Forget, Answer, Goto, Busy, Ended, Base, TypeOK, Routed, Plain, Reading, ProfileOps,
     ProviderOps
<1>13. ASSUME NEW r \in Requests, DeclineHarvest(r), probe' = probe, host' = host PROVE Routed'
  BY <1>13 DEF DeclineHarvest, Answer, Goto, Busy, Ended, Base, TypeOK, Routed, Plain, Reading,
     ProfileOps, ProviderOps
<1>14. ASSUME NEW r \in Requests, Write(r), probe' = probe, host' = host PROVE Routed'
  BY <1>14 DEF Write, Answer, Goto, Busy, Ended, Base, TypeOK, Routed, Plain, Reading, ProfileOps,
     ProviderOps
<1>15. ASSUME NEW r \in Requests, Crash(r), probe' = probe, host' = host PROVE Routed'
  BY <1>15 DEF Crash, Answer, Goto, Busy, Ended, Base, TypeOK, Routed, Plain, Reading, ProfileOps,
     ProviderOps
<1>16. ASSUME NEW r \in Requests, Revised(r), probe' = probe, host' = host PROVE Routed'
  BY <1>16 DEF Revised, Busy, Ended, Base, TypeOK, Routed, Plain, Reading, ProfileOps, ProviderOps
<1>17. ASSUME NEW r \in Requests, Marked(r), probe' = probe, host' = host PROVE Routed'
  BY <1>17 DEF Marked, Busy, Ended, Base, TypeOK, Routed, Plain, Reading, ProfileOps, ProviderOps
<1>18. ASSUME NEW r \in Requests, Dropped(r), probe' = probe, host' = host PROVE Routed'
  BY <1>18 DEF Dropped, Busy, Ended, Base, TypeOK, Routed, Plain, Reading, ProfileOps, ProviderOps
<1>19. ASSUME NEW r \in Requests, Probe(r), host' = host PROVE Routed'
  BY <1>19 DEF Probe, AskControl, AskFormat, NoAnswer, Goto, Busy, Ended, Base, TypeOK, Routed,
     Plain, Reading, ProfileOps, ProviderOps
<1>20. CASE Spoil /\ probe' = probe /\ host' = host
  BY <1>20 DEF Spoil, Base, TypeOK, Routed, Plain, Reading, ProfileOps, ProviderOps
<1> QED
  BY <1>1, <1>2, <1>3, <1>4, <1>5, <1>6, <1>7, <1>8, <1>9, <1>10, <1>11, <1>12, <1>13, <1>14, <1>15,
     <1>16, <1>17, <1>18, <1>19, <1>20, NextIs

\* What was found in a reading is in it until it is used.
LEMMA StepFound ==
    ASSUME Base, [Next]_vars
    PROVE  Found'
<1> USE ProfilesAssumption
<1>1. CASE UNCHANGED vars
  BY <1>1 DEF vars, Base, TypeOK, Found, Routed, Reading, Plain, ProfileOps, ProviderOps
<1>2. ASSUME NEW r \in Requests, Start(r), probe' = probe, host' = host PROVE Found'
  BY <1>2 DEF Start, Goto, Busy, Ended, Base, TypeOK, Found, Routed, Reading, Plain, ProfileOps,
     ProviderOps
<1>3. ASSUME NEW r \in Requests, Straight(r), probe' = probe, host' = host PROVE Found'
  BY <1>3 DEF Straight, Goto, Busy, Ended, Plain, ProfileOps, ProviderOps, Base, TypeOK, Found,
     Routed, Reading, Plain, ProfileOps, ProviderOps
<1>4. ASSUME NEW r \in Requests, ReadFirst(r), probe' = probe, host' = host PROVE Found'
  BY <1>4 DEF ReadFirst, Goto, Busy, Ended, Reading, Base, TypeOK, Found, Routed, Reading, Plain,
     ProfileOps, ProviderOps
<1>5. ASSUME NEW r \in Requests, AskCatalogue(r), probe' = probe, host' = host PROVE Found'
  BY <1>5 DEF AskCatalogue, Goto, Busy, Ended, Base, TypeOK, Found, Routed, Reading, Plain,
     ProfileOps, ProviderOps
<1>6. ASSUME NEW r \in Requests, StoreKey(r), probe' = probe, host' = host PROVE Found'
  BY <1>6 DEF StoreKey, Goto, Busy, Ended, Base, TypeOK, Found, Routed, Reading, Plain, ProfileOps,
     ProviderOps
<1>7. ASSUME NEW r \in Requests, SetCredential(r), probe' = probe, host' = host PROVE Found'
  BY <1>7 DEF SetCredential, Goto, Busy, Ended, Base, TypeOK, Found, Routed, Reading, Plain,
     ProfileOps, ProviderOps
<1>8. ASSUME NEW r \in Requests, TakeLock(r), probe' = probe, host' = host PROVE Found'
  BY <1>8 DEF TakeLock, Goto, Busy, Ended, Base, TypeOK, Found, Routed, Reading, Plain, ProfileOps,
     ProviderOps
<1>9. ASSUME NEW r \in Requests, GiveUp(r), probe' = probe, host' = host PROVE Found'
  BY <1>9 DEF GiveUp, Goto, Busy, Ended, Base, TypeOK, Found, Routed, Reading, Plain, ProfileOps,
     ProviderOps
<1>10. ASSUME NEW r \in Requests, Unwilling(r), probe' = probe, host' = host PROVE Found'
  BY <1>10 DEF Unwilling, Answer, Goto, Busy, Ended, Base, TypeOK, Found, Routed, Reading, Plain,
     ProfileOps, ProviderOps
<1>11. ASSUME NEW r \in Requests, Panics(r), probe' = probe, host' = host PROVE Found'
  BY <1>11 DEF Panics, Discover, Answer, Goto, Busy, Ended, Base, TypeOK, Found, Routed, Reading,
     Plain, ProfileOps, ProviderOps
<1>12. ASSUME NEW r \in Requests, Forget(r), probe' = probe, host' = host PROVE Found'
  BY <1>12 DEF Forget, Answer, Goto, Busy, Ended, Base, TypeOK, Found, Routed, Reading, Plain,
     ProfileOps, ProviderOps
<1>13. ASSUME NEW r \in Requests, DeclineHarvest(r), probe' = probe, host' = host PROVE Found'
  BY <1>13 DEF DeclineHarvest, Answer, Goto, Busy, Ended, Base, TypeOK, Found, Routed, Reading,
     Plain, ProfileOps, ProviderOps
<1>14. ASSUME NEW r \in Requests, Write(r), probe' = probe, host' = host PROVE Found'
  BY <1>14 DEF Write, Answer, Goto, Busy, Ended, Base, TypeOK, Found, Routed, Reading, Plain,
     ProfileOps, ProviderOps
<1>15. ASSUME NEW r \in Requests, Crash(r), probe' = probe, host' = host PROVE Found'
  BY <1>15 DEF Crash, Answer, Goto, Busy, Ended, Base, TypeOK, Found, Routed, Reading, Plain,
     ProfileOps, ProviderOps
<1>16. ASSUME NEW r \in Requests, Revised(r), probe' = probe, host' = host PROVE Found'
  BY <1>16 DEF Revised, Busy, Ended, Base, TypeOK, Found, Routed, Reading, Plain, ProfileOps,
     ProviderOps
<1>17. ASSUME NEW r \in Requests, Marked(r), probe' = probe, host' = host PROVE Found'
  BY <1>17 DEF Marked, Busy, Ended, Base, TypeOK, Found, Routed, Reading, Plain, ProfileOps, ProviderOps
<1>18. ASSUME NEW r \in Requests, Dropped(r), probe' = probe, host' = host PROVE Found'
  BY <1>18 DEF Dropped, Busy, Ended, Base, TypeOK, Found, Routed, Reading, Plain, ProfileOps,
     ProviderOps
<1>19. ASSUME NEW r \in Requests, Probe(r), host' = host PROVE Found'
  BY <1>19 DEF Probe, AskControl, AskFormat, NoAnswer, Goto, Busy, Ended, Base, TypeOK, Found,
     Routed, Reading, Plain, ProfileOps, ProviderOps
<1>20. CASE Spoil /\ probe' = probe /\ host' = host
  BY <1>20 DEF Spoil, Base, TypeOK, Found, Routed, Reading, Plain, ProfileOps, ProviderOps
<1> QED
  BY <1>1, <1>2, <1>3, <1>4, <1>5, <1>6, <1>7, <1>8, <1>9, <1>10, <1>11, <1>12, <1>13, <1>14, <1>15,
     <1>16, <1>17, <1>18, <1>19, <1>20, NextIs

\* So the base is inductive.
LEMMA BaseHolds == Spec => []Base
<1>1. Init => Base
  <2> SUFFICES ASSUME Init PROVE Base
    OBVIOUS
  <2> USE ProfilesAssumption
  <2>1. keys \subseteq Ids
    BY StoreIs, KeyedIs DEF Init
  <2> QED
    BY <2>1, NothingIsStore DEF Init, Base, TypeOK, Locked, Routed, Found, Under, Busy, Ended
<1>2. Base /\ [Next]_vars => Base'
  BY StepTypeOK, StepLocked, StepRouted, StepFound DEF Base
<1> QED
  BY <1>1, <1>2, PTL DEF Spec
-----------------------------------------------------------------------------
(* The formats recorded of a provider are what its host serves. *)

\* What is recorded in a store is so.
Honest(d) ==
    \A i \in DOMAIN d.providers :
        d.providers[i].formats # None => ~host.gateway /\ d.providers[i].formats = host.serves

\* Of the first n formats, those that the host serves.
Served(n) == {f \in host.serves : \E i \in 1..n : Formats[i] = f}

HonestDoc == Honest(Read)
HonestDrafts == \A r \in Requests : Honest(draft[r])

\* What a test has in hand: nothing yet, some of the formats of a host that can tell, or a verdict.
Probed ==
    \A r \in Requests :
        /\ pc[r] \in {"idle", "waiting"} => probe[r].asked = 0 /\ probe[r].served = {}
        /\ pc[r] = "asking" /\ ask[r].op = "test" =>
              \/ probe[r].asked = 0 /\ probe[r].served = {}
              \/ probe[r].asked > 0 /\ ~host.gateway /\ probe[r].served = Served(probe[r].asked - 1)
        /\ pc[r] \in {"lock", "locked"} /\ ask[r].op = "test" =>
              probe[r].served = None \/ (~host.gateway /\ probe[r].served = host.serves)

Judged == Base /\ HonestDoc /\ HonestDrafts /\ Probed

\* The file is as honest as what is written.
LEMMA StepHonestDoc ==
    ASSUME Judged, [Next]_vars
    PROVE  HonestDoc'
<1> USE ProfilesAssumption
<1>1. CASE UNCHANGED vars
  BY <1>1 DEF vars, Judged, Base, TypeOK, HonestDoc, HonestDrafts, Honest, Read
<1>2. ASSUME NEW r \in Requests, Start(r), probe' = probe, host' = host PROVE HonestDoc'
  BY <1>2 DEF Start, Goto, Busy, Ended, Judged, Base, TypeOK, HonestDoc, HonestDrafts, Honest, Read
<1>3. ASSUME NEW r \in Requests, Straight(r), probe' = probe, host' = host PROVE HonestDoc'
  BY <1>3 DEF Straight, Goto, Busy, Ended, Plain, ProfileOps, ProviderOps, Judged, Base, TypeOK,
     HonestDoc, HonestDrafts, Honest, Read
<1>4. ASSUME NEW r \in Requests, ReadFirst(r), probe' = probe, host' = host PROVE HonestDoc'
  BY <1>4 DEF ReadFirst, Goto, Busy, Ended, Reading, Judged, Base, TypeOK, HonestDoc, HonestDrafts,
     Honest, Read
<1>5. ASSUME NEW r \in Requests, AskCatalogue(r), probe' = probe, host' = host PROVE HonestDoc'
  BY <1>5 DEF AskCatalogue, Goto, Busy, Ended, Judged, Base, TypeOK, HonestDoc, HonestDrafts,
     Honest, Read
<1>6. ASSUME NEW r \in Requests, StoreKey(r), probe' = probe, host' = host PROVE HonestDoc'
  BY <1>6 DEF StoreKey, Goto, Busy, Ended, Judged, Base, TypeOK, HonestDoc, HonestDrafts, Honest, Read
<1>7. ASSUME NEW r \in Requests, SetCredential(r), probe' = probe, host' = host PROVE HonestDoc'
  BY <1>7 DEF SetCredential, Goto, Busy, Ended, Judged, Base, TypeOK, HonestDoc, HonestDrafts,
     Honest, Read
<1>8. ASSUME NEW r \in Requests, TakeLock(r), probe' = probe, host' = host PROVE HonestDoc'
  BY <1>8 DEF TakeLock, Goto, Busy, Ended, Judged, Base, TypeOK, HonestDoc, HonestDrafts, Honest, Read
<1>9. ASSUME NEW r \in Requests, GiveUp(r), probe' = probe, host' = host PROVE HonestDoc'
  BY <1>9 DEF GiveUp, Goto, Busy, Ended, Judged, Base, TypeOK, HonestDoc, HonestDrafts, Honest, Read
<1>10. ASSUME NEW r \in Requests, Unwilling(r), probe' = probe, host' = host PROVE HonestDoc'
  BY <1>10 DEF Unwilling, Answer, Goto, Busy, Ended, Judged, Base, TypeOK, HonestDoc, HonestDrafts,
     Honest, Read
<1>11. ASSUME NEW r \in Requests, Panics(r), probe' = probe, host' = host PROVE HonestDoc'
  BY <1>11 DEF Panics, Discover, Answer, Goto, Busy, Ended, Judged, Base, TypeOK, HonestDoc,
     HonestDrafts, Honest, Read
<1>12. ASSUME NEW r \in Requests, Forget(r), probe' = probe, host' = host PROVE HonestDoc'
  BY <1>12 DEF Forget, Answer, Goto, Busy, Ended, Judged, Base, TypeOK, HonestDoc, HonestDrafts,
     Honest, Read
<1>13. ASSUME NEW r \in Requests, DeclineHarvest(r), probe' = probe, host' = host PROVE HonestDoc'
  BY <1>13 DEF DeclineHarvest, Answer, Goto, Busy, Ended, Judged, Base, TypeOK, HonestDoc,
     HonestDrafts, Honest, Read
<1>14. ASSUME NEW r \in Requests, Write(r), probe' = probe, host' = host PROVE HonestDoc'
  BY <1>14 DEF Write, Answer, Goto, Busy, Ended, Judged, Base, TypeOK, HonestDoc, HonestDrafts,
     Honest, Read
<1>15. ASSUME NEW r \in Requests, Crash(r), probe' = probe, host' = host PROVE HonestDoc'
  BY <1>15 DEF Crash, Answer, Goto, Busy, Ended, Judged, Base, TypeOK, HonestDoc, HonestDrafts,
     Honest, Read
<1>16. ASSUME NEW r \in Requests, Revised(r), probe' = probe, host' = host PROVE HonestDoc'
  BY <1>16 DEF Revised, Busy, Ended, Judged, Base, TypeOK, HonestDoc, HonestDrafts, Honest, Read
<1>17. ASSUME NEW r \in Requests, Marked(r), probe' = probe, host' = host PROVE HonestDoc'
  BY <1>17 DEF Marked, Busy, Ended, Judged, Base, TypeOK, HonestDoc, HonestDrafts, Honest, Read
<1>18. ASSUME NEW r \in Requests, Dropped(r), probe' = probe, host' = host PROVE HonestDoc'
  BY <1>18 DEF Dropped, Busy, Ended, Judged, Base, TypeOK, HonestDoc, HonestDrafts, Honest, Read
<1>19. ASSUME NEW r \in Requests, Probe(r), host' = host PROVE HonestDoc'
  BY <1>19 DEF Probe, AskControl, AskFormat, NoAnswer, Goto, Busy, Ended, Judged, Base, TypeOK,
     HonestDoc, HonestDrafts, Honest, Read
<1>20. CASE Spoil /\ probe' = probe /\ host' = host
  <2>1. Read' = Nothing
    BY <1>20 DEF Spoil, Read
  <2> QED
    BY <2>1 DEF HonestDoc, Honest, Nothing
<1> QED
  BY <1>1, <1>2, <1>3, <1>4, <1>5, <1>6, <1>7, <1>8, <1>9, <1>10, <1>11, <1>12, <1>13, <1>14, <1>15,
     <1>16, <1>17, <1>18, <1>19, <1>20, NextIs DEF Judged

\* What is to be written is as honest as what was read and what was found.
LEMMA StepHonestDrafts ==
    ASSUME Judged, [Next]_vars
    PROVE  HonestDrafts'
<1> USE ProfilesAssumption
<1>1. CASE UNCHANGED vars
  BY <1>1 DEF vars, Judged, Base, TypeOK, HonestDoc, HonestDrafts, Honest
<1>2. ASSUME NEW r \in Requests, Start(r), probe' = probe, host' = host PROVE HonestDrafts'
  BY <1>2 DEF Start, Goto, Busy, Ended, Judged, Base, TypeOK, HonestDoc, HonestDrafts, Honest
<1>3. ASSUME NEW r \in Requests, Straight(r), probe' = probe, host' = host PROVE HonestDrafts'
  BY <1>3 DEF Straight, Goto, Busy, Ended, Plain, ProfileOps, ProviderOps, Judged, Base, TypeOK,
     HonestDoc, HonestDrafts, Honest
<1>4. ASSUME NEW r \in Requests, ReadFirst(r), probe' = probe, host' = host PROVE HonestDrafts'
  BY <1>4 DEF ReadFirst, Goto, Busy, Ended, Reading, Judged, Base, TypeOK, HonestDoc, HonestDrafts,
     Honest
<1>5. ASSUME NEW r \in Requests, AskCatalogue(r), probe' = probe, host' = host PROVE HonestDrafts'
  BY <1>5 DEF AskCatalogue, Goto, Busy, Ended, Judged, Base, TypeOK, HonestDoc, HonestDrafts, Honest
<1>6. ASSUME NEW r \in Requests, StoreKey(r), probe' = probe, host' = host PROVE HonestDrafts'
  BY <1>6 DEF StoreKey, Goto, Busy, Ended, Judged, Base, TypeOK, HonestDoc, HonestDrafts, Honest
<1>7. ASSUME NEW r \in Requests, SetCredential(r), probe' = probe, host' = host PROVE HonestDrafts'
  BY <1>7 DEF SetCredential, Goto, Busy, Ended, Judged, Base, TypeOK, HonestDoc, HonestDrafts, Honest
<1>8. ASSUME NEW r \in Requests, TakeLock(r), probe' = probe, host' = host PROVE HonestDrafts'
  BY <1>8 DEF TakeLock, Goto, Busy, Ended, Judged, Base, TypeOK, HonestDoc, HonestDrafts, Honest
<1>9. ASSUME NEW r \in Requests, GiveUp(r), probe' = probe, host' = host PROVE HonestDrafts'
  BY <1>9 DEF GiveUp, Goto, Busy, Ended, Judged, Base, TypeOK, HonestDoc, HonestDrafts, Honest
<1>10. ASSUME NEW r \in Requests, Unwilling(r), probe' = probe, host' = host PROVE HonestDrafts'
  BY <1>10 DEF Unwilling, Answer, Goto, Busy, Ended, Judged, Base, TypeOK, HonestDoc, HonestDrafts,
     Honest
<1>11. ASSUME NEW r \in Requests, Panics(r), probe' = probe, host' = host PROVE HonestDrafts'
  BY <1>11 DEF Panics, Discover, Answer, Goto, Busy, Ended, Judged, Base, TypeOK, HonestDoc,
     HonestDrafts, Honest
<1>12. ASSUME NEW r \in Requests, Forget(r), probe' = probe, host' = host PROVE HonestDrafts'
  BY <1>12 DEF Forget, Answer, Goto, Busy, Ended, Judged, Base, TypeOK, HonestDoc, HonestDrafts, Honest
<1>13. ASSUME NEW r \in Requests, DeclineHarvest(r), probe' = probe, host' = host PROVE HonestDrafts'
  BY <1>13 DEF DeclineHarvest, Answer, Goto, Busy, Ended, Judged, Base, TypeOK, HonestDoc,
     HonestDrafts, Honest
<1>14. ASSUME NEW r \in Requests, Write(r), probe' = probe, host' = host PROVE HonestDrafts'
  BY <1>14 DEF Write, Answer, Goto, Busy, Ended, Judged, Base, TypeOK, HonestDoc, HonestDrafts, Honest
<1>15. ASSUME NEW r \in Requests, Crash(r), probe' = probe, host' = host PROVE HonestDrafts'
  BY <1>15 DEF Crash, Answer, Goto, Busy, Ended, Judged, Base, TypeOK, HonestDoc, HonestDrafts, Honest
<1>16. ASSUME NEW r \in Requests, Revised(r), probe' = probe, host' = host PROVE HonestDrafts'
  <2>1. Honest(draft'[r])
    BY <1>16 DEF Revised, Lawful, Judged, HonestDoc, Honest
  <2> QED
    BY <1>16, <2>1 DEF Revised, Judged, HonestDrafts, Honest
<1>17. ASSUME NEW r \in Requests, Marked(r), probe' = probe, host' = host PROVE HonestDrafts'
  <2>1. probe[r].served = None \/ (~host.gateway /\ probe[r].served = host.serves)
    BY <1>17 DEF Marked, Judged, Probed
  <2>2. Honest(draft'[r])
    BY <1>17, <2>1 DEF Marked, Judged, HonestDrafts, Honest
  <2> QED
    BY <1>17, <2>2 DEF Marked, Judged, HonestDrafts, Honest
<1>18. ASSUME NEW r \in Requests, Dropped(r), probe' = probe, host' = host PROVE HonestDrafts'
  <2>1. Honest(draft'[r])
    BY <1>18 DEF Dropped, Judged, HonestDrafts, Honest
  <2> QED
    BY <1>18, <2>1 DEF Dropped, Judged, HonestDrafts, Honest
<1>19. ASSUME NEW r \in Requests, Probe(r), host' = host PROVE HonestDrafts'
  BY <1>19 DEF Probe, AskControl, AskFormat, NoAnswer, Goto, Busy, Ended, Judged, Base, TypeOK,
     HonestDoc, HonestDrafts, Honest
<1>20. CASE Spoil /\ probe' = probe /\ host' = host
  BY <1>20 DEF Spoil, Judged, Base, TypeOK, HonestDoc, HonestDrafts, Honest
<1> QED
  BY <1>1, <1>2, <1>3, <1>4, <1>5, <1>6, <1>7, <1>8, <1>9, <1>10, <1>11, <1>12, <1>13, <1>14, <1>15,
     <1>16, <1>17, <1>18, <1>19, <1>20, NextIs DEF Judged

\* A verdict is all of the formats, or none.
LEMMA StepProbed ==
    ASSUME Judged, [Next]_vars
    PROVE  Probed'
<1> USE ProfilesAssumption
<1>1. CASE UNCHANGED vars
  BY <1>1 DEF vars, Judged, Base, TypeOK, Probed, Served
<1>2. ASSUME NEW r \in Requests, Start(r), probe' = probe, host' = host PROVE Probed'
  BY <1>2 DEF Start, Goto, Busy, Ended, Judged, Base, TypeOK, Probed, Served
<1>3. ASSUME NEW r \in Requests, Straight(r), probe' = probe, host' = host PROVE Probed'
  BY <1>3 DEF Straight, Goto, Busy, Ended, Plain, ProfileOps, ProviderOps, Judged, Base, TypeOK,
     Probed, Served
<1>4. ASSUME NEW r \in Requests, ReadFirst(r), probe' = probe, host' = host PROVE Probed'
  BY <1>4 DEF ReadFirst, Goto, Busy, Ended, Reading, Judged, Base, TypeOK, Probed, Served
<1>5. ASSUME NEW r \in Requests, AskCatalogue(r), probe' = probe, host' = host PROVE Probed'
  BY <1>5 DEF AskCatalogue, Goto, Busy, Ended, Judged, Base, TypeOK, Probed, Served
<1>6. ASSUME NEW r \in Requests, StoreKey(r), probe' = probe, host' = host PROVE Probed'
  BY <1>6 DEF StoreKey, Goto, Busy, Ended, Judged, Base, TypeOK, Probed, Served
<1>7. ASSUME NEW r \in Requests, SetCredential(r), probe' = probe, host' = host PROVE Probed'
  BY <1>7 DEF SetCredential, Goto, Busy, Ended, Judged, Base, TypeOK, Probed, Served
<1>8. ASSUME NEW r \in Requests, TakeLock(r), probe' = probe, host' = host PROVE Probed'
  BY <1>8 DEF TakeLock, Goto, Busy, Ended, Judged, Base, TypeOK, Probed, Served
<1>9. ASSUME NEW r \in Requests, GiveUp(r), probe' = probe, host' = host PROVE Probed'
  BY <1>9 DEF GiveUp, Goto, Busy, Ended, Judged, Base, TypeOK, Probed, Served
<1>10. ASSUME NEW r \in Requests, Unwilling(r), probe' = probe, host' = host PROVE Probed'
  BY <1>10 DEF Unwilling, Answer, Goto, Busy, Ended, Judged, Base, TypeOK, Probed, Served
<1>11. ASSUME NEW r \in Requests, Panics(r), probe' = probe, host' = host PROVE Probed'
  BY <1>11 DEF Panics, Discover, Answer, Goto, Busy, Ended, Judged, Base, TypeOK, Probed, Served
<1>12. ASSUME NEW r \in Requests, Forget(r), probe' = probe, host' = host PROVE Probed'
  BY <1>12 DEF Forget, Answer, Goto, Busy, Ended, Judged, Base, TypeOK, Probed, Served
<1>13. ASSUME NEW r \in Requests, DeclineHarvest(r), probe' = probe, host' = host PROVE Probed'
  BY <1>13 DEF DeclineHarvest, Answer, Goto, Busy, Ended, Judged, Base, TypeOK, Probed, Served
<1>14. ASSUME NEW r \in Requests, Write(r), probe' = probe, host' = host PROVE Probed'
  BY <1>14 DEF Write, Answer, Goto, Busy, Ended, Judged, Base, TypeOK, Probed, Served
<1>15. ASSUME NEW r \in Requests, Crash(r), probe' = probe, host' = host PROVE Probed'
  BY <1>15 DEF Crash, Answer, Goto, Busy, Ended, Judged, Base, TypeOK, Probed, Served
<1>16. ASSUME NEW r \in Requests, Revised(r), probe' = probe, host' = host PROVE Probed'
  BY <1>16 DEF Revised, Busy, Ended, Judged, Base, TypeOK, Probed, Served
<1>17. ASSUME NEW r \in Requests, Marked(r), probe' = probe, host' = host PROVE Probed'
  BY <1>17 DEF Marked, Busy, Ended, Judged, Base, TypeOK, Probed, Served
<1>18. ASSUME NEW r \in Requests, Dropped(r), probe' = probe, host' = host PROVE Probed'
  BY <1>18 DEF Dropped, Busy, Ended, Judged, Base, TypeOK, Probed, Served
<1>19. ASSUME NEW r \in Requests, Probe(r), host' = host PROVE Probed'
  <2>1. pc[r] = "asking" /\ ask[r].op = "test" /\ ask' = ask
    BY <1>19 DEF Probe
  <2>2. \A q \in Requests \ {r} : pc'[q] = pc[q] /\ probe'[q] = probe[q]
    BY <1>19 DEF Probe, AskControl, AskFormat, NoAnswer, Goto, Judged, Base, TypeOK
  <2>3. \/ pc'[r] = "lock" /\ probe'[r].served = None
        \/ pc'[r] = "lock" /\ ~host.gateway /\ probe'[r].served = host.serves
        \/ /\ pc'[r] = "asking" /\ probe'[r].asked > 0 /\ ~host.gateway
           /\ probe'[r].served = Served(probe'[r].asked - 1)
    <3>1. CASE AskControl(r)
      <4>1. probe[r].served = {}
        BY <2>1, <3>1 DEF AskControl, Judged, Probed
      <4>2. Served(0) = {}
        BY DEF Served
      <4>3. CASE host.gateway
        BY <3>1, <4>3 DEF AskControl, Goto, Judged, Base, TypeOK
      <4>4. CASE ~host.gateway
        <5>1. pc' = pc /\ probe' = [probe EXCEPT ![r].asked = 1]
          BY <3>1, <4>4 DEF AskControl
        <5>2. probe'[r].asked = 1 /\ probe'[r].served = {}
          BY <4>1, <5>1 DEF Judged, Base, TypeOK
        <5>3. probe'[r].asked - 1 = 0
          BY <5>2
        <5>4. Served(probe'[r].asked - 1) = {}
          BY <4>2, <5>3, Zenon
        <5>5. probe'[r].asked > 0
          BY <5>2
        <5>6. probe'[r].served = Served(probe'[r].asked - 1)
          BY <5>2, <5>4, Zenon
        <5>7. pc'[r] = "asking"
          BY <2>1, <5>1
        <5> QED
          BY <4>4, <5>5, <5>6, <5>7, Zenon
      <4> QED
        BY <4>3, <4>4
    <3>2. CASE AskFormat(r)
      <4>1. PICK n : n = probe[r].asked
        OBVIOUS
      <4>2. n \in 1..Len(Formats) /\ Len(Formats) \in Nat
        BY <3>2, <4>1 DEF AskFormat
      <4>3. ~host.gateway /\ probe[r].served = Served(n - 1)
        BY <2>1, <4>1, <4>2 DEF Judged, Probed
      <4>4. probe'[r].asked = n + 1 /\ probe'[r].served = Served(n)
        <5>1. probe'[r].asked = n + 1
          BY <3>2, <4>1, <4>2 DEF AskFormat, Judged, Base, TypeOK
        <5>2. probe'[r].served = IF Formats[n] \in host.serves
                                 THEN Served(n - 1) \cup {Formats[n]} ELSE Served(n - 1)
          BY <3>2, <4>1, <4>3 DEF AskFormat, Judged, Base, TypeOK
        <5>3. Served(n) = IF Formats[n] \in host.serves
                          THEN Served(n - 1) \cup {Formats[n]} ELSE Served(n - 1)
          BY <4>2 DEF Served
        <5> QED
          BY <5>1, <5>2, <5>3
      <4>5. CASE n = Len(Formats)
        <5>1. Served(n) = host.serves
          BY <4>2, <4>5 DEF Served, AllFormats, Judged, Base, TypeOK
        <5> QED
          BY <3>2, <4>1, <4>3, <4>4, <4>5, <5>1 DEF AskFormat, Goto, Judged, Base, TypeOK
      <4>6. CASE n # Len(Formats)
        BY <2>1, <3>2, <4>1, <4>2, <4>3, <4>4, <4>6 DEF AskFormat
      <4> QED
        BY <4>5, <4>6
    <3>3. CASE NoAnswer(r)
      BY <3>3 DEF NoAnswer, Goto, Judged, Base, TypeOK
    <3> QED
      BY <1>19, <3>1, <3>2, <3>3 DEF Probe
  <2> QED
    BY <1>19, <2>1, <2>2, <2>3 DEF Judged, Probed, Served
<1>20. CASE Spoil /\ probe' = probe /\ host' = host
  BY <1>20 DEF Spoil, Judged, Base, TypeOK, Probed, Served
<1> QED
  BY <1>1, <1>2, <1>3, <1>4, <1>5, <1>6, <1>7, <1>8, <1>9, <1>10, <1>11, <1>12, <1>13, <1>14, <1>15,
     <1>16, <1>17, <1>18, <1>19, <1>20, NextIs DEF Judged

\* probe.rs: "a half-verdict is worse than none".  If what the file records at first is so, all that is
\* recorded afterwards is, whatever is asked and whatever the network and the store do.
THEOREM EvidenceOnly == Spec /\ FormatsAreEvidence => []FormatsAreEvidence
<1>1. Init /\ Base /\ FormatsAreEvidence => Judged
  <2> SUFFICES ASSUME Init, Base, FormatsAreEvidence PROVE Judged
    OBVIOUS
  <2>1. HonestDoc
    BY DEF FormatsAreEvidence, HonestDoc, Honest
  <2>2. HonestDrafts
    BY DEF Init, HonestDrafts, Honest, Nothing
  <2>3. Probed
    BY DEF Init, Probed
  <2> QED
    BY <2>1, <2>2, <2>3 DEF Judged
<1>2. Judged /\ [Next]_vars => Judged'
  BY StepTypeOK, StepLocked, StepRouted, StepFound, StepHonestDoc, StepHonestDrafts, StepProbed
     DEF Judged, Base
<1>3. Judged => FormatsAreEvidence
  BY DEF Judged, HonestDoc, Honest, FormatsAreEvidence
<1> QED
  BY <1>1, <1>2, <1>3, BaseHolds, PTL DEF Spec
-----------------------------------------------------------------------------
(* Nothing another call wrote is undone. *)

\* No operation that writes back what it read before it had the lock.
ReadsUnderLock == \A a \in Asks : a.op \notin {"test", "remove_provider"}

\* What is to be written is the file as it is, but for what was asked.
Prepared ==
    \A r \in Requests :
        pc[r] = "write" /\ doc # Unreadable => OnlyAsked(doc, draft[r], ask[r])

Settled == Base /\ Prepared

\* Whoever is to write holds the lock, and the file stays as it was read.
LEMMA StepPrepared ==
    ASSUME Settled, [Next]_vars, ReadsUnderLock
    PROVE  Prepared'
<1> USE ProfilesAssumption
<1>1. CASE UNCHANGED vars
  BY <1>1 DEF vars, Settled, Base, TypeOK, Prepared
<1>2. ASSUME NEW r \in Requests, Start(r), probe' = probe, host' = host PROVE Prepared'
  BY <1>2 DEF Start, Goto, Busy, Ended, Settled, Base, TypeOK, Prepared
<1>3. ASSUME NEW r \in Requests, Straight(r), probe' = probe, host' = host PROVE Prepared'
  BY <1>3 DEF Straight, Goto, Busy, Ended, Plain, ProfileOps, ProviderOps, Settled, Base, TypeOK,
     Prepared
<1>4. ASSUME NEW r \in Requests, ReadFirst(r), probe' = probe, host' = host PROVE Prepared'
  BY <1>4 DEF ReadFirst, Goto, Busy, Ended, Reading, Settled, Base, TypeOK, Prepared
<1>5. ASSUME NEW r \in Requests, AskCatalogue(r), probe' = probe, host' = host PROVE Prepared'
  BY <1>5 DEF AskCatalogue, Goto, Busy, Ended, Settled, Base, TypeOK, Prepared
<1>6. ASSUME NEW r \in Requests, StoreKey(r), probe' = probe, host' = host PROVE Prepared'
  BY <1>6 DEF StoreKey, Goto, Busy, Ended, Settled, Base, TypeOK, Prepared
<1>7. ASSUME NEW r \in Requests, SetCredential(r), probe' = probe, host' = host PROVE Prepared'
  BY <1>7 DEF SetCredential, Goto, Busy, Ended, Settled, Base, TypeOK, Prepared
<1>8. ASSUME NEW r \in Requests, TakeLock(r), probe' = probe, host' = host PROVE Prepared'
  BY <1>8 DEF TakeLock, Goto, Busy, Ended, Settled, Base, TypeOK, Prepared
<1>9. ASSUME NEW r \in Requests, GiveUp(r), probe' = probe, host' = host PROVE Prepared'
  BY <1>9 DEF GiveUp, Goto, Busy, Ended, Settled, Base, TypeOK, Prepared
<1>10. ASSUME NEW r \in Requests, Unwilling(r), probe' = probe, host' = host PROVE Prepared'
  BY <1>10 DEF Unwilling, Answer, Goto, Busy, Ended, Settled, Base, TypeOK, Prepared
<1>11. ASSUME NEW r \in Requests, Panics(r), probe' = probe, host' = host PROVE Prepared'
  BY <1>11 DEF Panics, Discover, Answer, Goto, Busy, Ended, Settled, Base, TypeOK, Prepared
<1>12. ASSUME NEW r \in Requests, Forget(r), probe' = probe, host' = host PROVE Prepared'
  <2>1. ask[r].op # "remove_provider" /\ pc[r] = "forget"
    BY <1>12 DEF ReadsUnderLock, Forget, Answer, Goto, Settled, Base, TypeOK
  <2> QED
    BY <2>1 DEF Settled, Base, Routed
<1>13. ASSUME NEW r \in Requests, DeclineHarvest(r), probe' = probe, host' = host PROVE Prepared'
  BY <1>13 DEF DeclineHarvest, Answer, Goto, Busy, Ended, Settled, Base, TypeOK, Prepared
<1>14. ASSUME NEW r \in Requests, Write(r), probe' = probe, host' = host PROVE Prepared'
  <2>1. \A q \in Requests \ {r} : pc'[q] = pc[q] /\ pc[q] # "write"
    BY <1>14 DEF Write, Answer, Goto, Settled, Base, TypeOK, Locked, Under
  <2>2. pc'[r] # "write"
    BY <1>14 DEF Write, Answer, Goto, Settled, Base, TypeOK
  <2> QED
    BY <2>1, <2>2 DEF Prepared
<1>15. ASSUME NEW r \in Requests, Crash(r), probe' = probe, host' = host PROVE Prepared'
  BY <1>15 DEF Crash, Answer, Goto, Busy, Ended, Settled, Base, TypeOK, Prepared
<1>16. ASSUME NEW r \in Requests, Revised(r), probe' = probe, host' = host PROVE Prepared'
  <2>1. doc # Unreadable => OnlyAsked(doc, draft'[r], ask[r])
    BY <1>16 DEF Revised, Lawful, Read
  <2> QED
    BY <1>16, <2>1 DEF Revised, Settled, Base, TypeOK, Prepared
<1>17. ASSUME NEW r \in Requests, Marked(r), probe' = probe, host' = host PROVE Prepared'
  <2>1. ask[r].op # "test"
    BY <1>17 DEF ReadsUnderLock, Marked, Settled, Base, TypeOK
  <2> QED
    BY <1>17, <2>1 DEF Marked
<1>18. ASSUME NEW r \in Requests, Dropped(r), probe' = probe, host' = host PROVE Prepared'
  BY <1>18 DEF Dropped, Busy, Ended, Settled, Base, TypeOK, Prepared
<1>19. ASSUME NEW r \in Requests, Probe(r), host' = host PROVE Prepared'
  BY <1>19 DEF Probe, AskControl, AskFormat, NoAnswer, Goto, Busy, Ended, Settled, Base, TypeOK,
     Prepared
<1>20. CASE Spoil /\ probe' = probe /\ host' = host
  BY <1>20 DEF Spoil, Settled, Base, TypeOK, Prepared
<1> QED
  BY <1>1, <1>2, <1>3, <1>4, <1>5, <1>6, <1>7, <1>8, <1>9, <1>10, <1>11, <1>12, <1>13, <1>14, <1>15,
     <1>16, <1>17, <1>18, <1>19, <1>20, NextIs DEF Settled

\* lib.rs: the lock is taken by "any write to the store".  Of the operations that read the file under
\* the lock, none undoes what another wrote, however many overlap, crash, or are refused by the store.
THEOREM NothingIsUndone ==
    ASSUME ReadsUnderLock
    PROVE  Spec => NoLostUpdate
<1> DEFINE Kept ==
        \A r \in Requests :
          pc[r] = "write" /\ pc'[r] = "changed" /\ doc # Unreadable => OnlyAsked(doc, doc', ask[r])
<1>1. Init => Prepared
  BY DEF Init, Prepared
<1>2. Settled /\ [Next]_vars => Settled'
  BY StepTypeOK, StepLocked, StepRouted, StepFound, StepPrepared DEF Settled, Base
<1>3. Settled /\ [Next]_vars => [Kept]_<<doc, pc>>
  <2> SUFFICES ASSUME Settled, Next, NEW r \in Requests,
                      pc[r] = "write", pc'[r] = "changed", doc # Unreadable
               PROVE  OnlyAsked(doc, doc', ask[r])
    BY DEF vars
  <2>1. doc' = draft[r]
    BY NextIs DEF Settled, Base, TypeOK, Start, Straight, ReadFirst, AskCatalogue, StoreKey,
       SetCredential, TakeLock, GiveUp, Unwilling, Panics, Discover, Forget, DeclineHarvest, Write,
       Crash, Revised, Marked, Dropped, Answer, Goto, Probe, AskControl, AskFormat, NoAnswer, Spoil
  <2> QED
    BY <2>1 DEF Settled, Prepared
<1> QED
  BY <1>1, <1>2, <1>3, BaseHolds, PTL DEF Spec, Settled, NoLostUpdate
-----------------------------------------------------------------------------
(* No key is left without a provider. *)

\* One call after another, in a store that can be written and that nobody breaks; and no call that
\* stores a key of whatever id it is given.
Orderly ==
    /\ ~Overlapping
    /\ Faults \cap {"store", "spoil", "crash"} = {}
    /\ \A a \in Asks : a.op # "set_credential"

Solo == \A q, r \in Requests : pc[q] \in Busy /\ pc[r] \in Busy => q = r

\* Every key has its record: in the file, or in what is about to be the file.
Homes ==
    /\ \/ keys \subseteq DOMAIN Read.providers
       \/ \E r \in Requests :
             /\ pc[r] \in {"lock", "locked", "write"} /\ ask[r].op = "accept_harvest"
             /\ keys \subseteq DOMAIN Read.providers \cup {ask[r].id}
    /\ \A r \in Requests :
          /\ pc[r] = "write" => keys \subseteq DOMAIN draft[r].providers
          /\ pc[r] = "forget" => keys \ {ask[r].id} \subseteq DOMAIN draft[r].providers
          /\ pc[r] \in {"asking", "lock", "locked"} /\ ask[r].op \in {"test", "remove_provider"} =>
                keys \subseteq DOMAIN draft[r].providers

Housed == Base /\ Solo /\ Homes

\* A call starts when no other is on its way.
LEMMA StepSolo ==
    ASSUME Housed, [Next]_vars, Orderly
    PROVE  Solo'
<1> USE ProfilesAssumption
<1>1. CASE UNCHANGED vars
  BY <1>1 DEF vars, Housed, Base, TypeOK, Solo
<1>2. ASSUME NEW r \in Requests, Start(r), probe' = probe, host' = host PROVE Solo'
  BY <1>2 DEF Start, Goto, Busy, Ended, Housed, Base, TypeOK, Solo, Orderly
<1>3. ASSUME NEW r \in Requests, Straight(r), probe' = probe, host' = host PROVE Solo'
  BY <1>3 DEF Straight, Goto, Busy, Ended, Plain, ProfileOps, ProviderOps, Housed, Base, TypeOK, Solo
<1>4. ASSUME NEW r \in Requests, ReadFirst(r), probe' = probe, host' = host PROVE Solo'
  BY <1>4 DEF ReadFirst, Goto, Busy, Ended, Reading, Housed, Base, TypeOK, Solo
<1>5. ASSUME NEW r \in Requests, AskCatalogue(r), probe' = probe, host' = host PROVE Solo'
  BY <1>5 DEF AskCatalogue, Goto, Busy, Ended, Housed, Base, TypeOK, Solo
<1>6. ASSUME NEW r \in Requests, StoreKey(r), probe' = probe, host' = host PROVE Solo'
  BY <1>6 DEF StoreKey, Goto, Busy, Ended, Housed, Base, TypeOK, Solo
<1>7. ASSUME NEW r \in Requests, SetCredential(r), probe' = probe, host' = host PROVE Solo'
  BY <1>7 DEF SetCredential, Goto, Busy, Ended, Housed, Base, TypeOK, Solo
<1>8. ASSUME NEW r \in Requests, TakeLock(r), probe' = probe, host' = host PROVE Solo'
  BY <1>8 DEF TakeLock, Goto, Busy, Ended, Housed, Base, TypeOK, Solo
<1>9. ASSUME NEW r \in Requests, GiveUp(r), probe' = probe, host' = host PROVE Solo'
  BY <1>9 DEF GiveUp, Goto, Busy, Ended, Housed, Base, TypeOK, Solo
<1>10. ASSUME NEW r \in Requests, Unwilling(r), probe' = probe, host' = host PROVE Solo'
  BY <1>10 DEF Unwilling, Answer, Goto, Busy, Ended, Housed, Base, TypeOK, Solo
<1>11. ASSUME NEW r \in Requests, Panics(r), probe' = probe, host' = host PROVE Solo'
  BY <1>11 DEF Panics, Discover, Answer, Goto, Busy, Ended, Housed, Base, TypeOK, Solo
<1>12. ASSUME NEW r \in Requests, Forget(r), probe' = probe, host' = host PROVE Solo'
  BY <1>12 DEF Forget, Answer, Goto, Busy, Ended, Housed, Base, TypeOK, Solo
<1>13. ASSUME NEW r \in Requests, DeclineHarvest(r), probe' = probe, host' = host PROVE Solo'
  BY <1>13 DEF DeclineHarvest, Answer, Goto, Busy, Ended, Housed, Base, TypeOK, Solo
<1>14. ASSUME NEW r \in Requests, Write(r), probe' = probe, host' = host PROVE Solo'
  BY <1>14 DEF Write, Answer, Goto, Busy, Ended, Housed, Base, TypeOK, Solo
<1>15. ASSUME NEW r \in Requests, Crash(r), probe' = probe, host' = host PROVE Solo'
  BY <1>15 DEF Crash, Answer, Goto, Busy, Ended, Housed, Base, TypeOK, Solo
<1>16. ASSUME NEW r \in Requests, Revised(r), probe' = probe, host' = host PROVE Solo'
  BY <1>16 DEF Revised, Busy, Ended, Housed, Base, TypeOK, Solo
<1>17. ASSUME NEW r \in Requests, Marked(r), probe' = probe, host' = host PROVE Solo'
  BY <1>17 DEF Marked, Busy, Ended, Housed, Base, TypeOK, Solo
<1>18. ASSUME NEW r \in Requests, Dropped(r), probe' = probe, host' = host PROVE Solo'
  BY <1>18 DEF Dropped, Busy, Ended, Housed, Base, TypeOK, Solo
<1>19. ASSUME NEW r \in Requests, Probe(r), host' = host PROVE Solo'
  BY <1>19 DEF Probe, AskControl, AskFormat, NoAnswer, Goto, Busy, Ended, Housed, Base, TypeOK, Solo
<1>20. CASE Spoil /\ probe' = probe /\ host' = host
  BY <1>20 DEF Spoil, Housed, Base, TypeOK, Solo
<1> QED
  BY <1>1, <1>2, <1>3, <1>4, <1>5, <1>6, <1>7, <1>8, <1>9, <1>10, <1>11, <1>12, <1>13, <1>14, <1>15,
     <1>16, <1>17, <1>18, <1>19, <1>20, NextIs DEF Housed

\* A key and its record come and go in the order that leaves no key alone.
LEMMA StepHomes ==
    ASSUME Housed, [Next]_vars, Orderly
    PROVE  Homes'
<1> USE ProfilesAssumption
<1>1. CASE UNCHANGED vars
  BY <1>1 DEF vars, Housed, Base, TypeOK, Homes, Solo, Read, Busy
<1>2. ASSUME NEW r \in Requests, Start(r), probe' = probe, host' = host PROVE Homes'
  BY <1>2 DEF Start, Goto, Busy, Ended, Housed, Base, TypeOK, Homes, Solo, Read, Busy
<1>3. ASSUME NEW r \in Requests, Straight(r), probe' = probe, host' = host PROVE Homes'
  BY <1>3 DEF Straight, Goto, Busy, Ended, Plain, ProfileOps, ProviderOps, Housed, Base, TypeOK,
     Homes, Solo, Read, Busy
<1>4. ASSUME NEW r \in Requests, ReadFirst(r), probe' = probe, host' = host PROVE Homes'
  BY <1>4 DEF ReadFirst, Goto, Busy, Ended, Reading, Housed, Base, TypeOK, Homes, Solo, Read, Busy
<1>5. ASSUME NEW r \in Requests, AskCatalogue(r), probe' = probe, host' = host PROVE Homes'
  BY <1>5 DEF AskCatalogue, Goto, Busy, Ended, Housed, Base, TypeOK, Homes, Solo, Read, Busy
<1>6. ASSUME NEW r \in Requests, StoreKey(r), probe' = probe, host' = host PROVE Homes'
  BY <1>6 DEF StoreKey, Goto, Busy, Ended, Housed, Base, TypeOK, Homes, Solo, Read, Busy
<1>7. ASSUME NEW r \in Requests, SetCredential(r), probe' = probe, host' = host PROVE Homes'
  <2>1. ask[r].op # "set_credential"
    BY <1>7 DEF SetCredential, Orderly, Housed, Base, TypeOK
  <2> QED
    BY <1>7, <2>1 DEF SetCredential
<1>8. ASSUME NEW r \in Requests, TakeLock(r), probe' = probe, host' = host PROVE Homes'
  BY <1>8 DEF TakeLock, Goto, Busy, Ended, Housed, Base, TypeOK, Homes, Solo, Read, Busy
<1>9. ASSUME NEW r \in Requests, GiveUp(r), probe' = probe, host' = host PROVE Homes'
  <2>1. lock \in Requests /\ pc[lock] \in Under
    BY <1>9 DEF GiveUp, Housed, Base, TypeOK, Locked
  <2>2. lock = r /\ pc[r] = "lock"
    BY <1>9, <2>1 DEF GiveUp, Goto, Housed, Solo, Busy, Under
  <2> QED
    BY <2>1, <2>2 DEF Under
<1>10. ASSUME NEW r \in Requests, Unwilling(r), probe' = probe, host' = host PROVE Homes'
  <2>1. pc[r] = "locked" /\ pc' = [pc EXCEPT ![r] = "refused"] /\ UNCHANGED <<doc, keys, ask, draft>>
    BY <1>10 DEF Unwilling, Answer, Goto
  <2>2. ask[r].op # "accept_harvest"
    BY <1>10 DEF Unwilling, ProfileOps, ProviderOps
  <2> QED
    BY <2>1, <2>2 DEF Housed, Homes, Base, TypeOK, Read, Solo, Busy
<1>11. ASSUME NEW r \in Requests, Panics(r), probe' = probe, host' = host PROVE Homes'
  BY <1>11 DEF Panics, Discover, Answer, Goto, Busy, Ended, Housed, Base, TypeOK, Homes, Solo, Read,
     Busy
<1>12. ASSUME NEW r \in Requests, Forget(r), probe' = probe, host' = host PROVE Homes'
  BY <1>12 DEF Forget, Answer, Goto, Busy, Ended, Housed, Base, TypeOK, Homes, Solo, Read, Busy
<1>13. ASSUME NEW r \in Requests, DeclineHarvest(r), probe' = probe, host' = host PROVE Homes'
  BY <1>13 DEF DeclineHarvest, Answer, Goto, Busy, Ended, Housed, Base, TypeOK, Homes, Solo, Read, Busy
<1>14. ASSUME NEW r \in Requests, Write(r), probe' = probe, host' = host PROVE Homes'
  <2>1. pc[r] = "write" /\ pc' = [pc EXCEPT ![r] = "changed"] /\ doc' = draft[r]
        /\ UNCHANGED <<keys, ask, draft>>
    BY <1>14 DEF Write, Answer, Goto, Orderly
  <2>2. Read' = draft[r]
    BY <2>1, ProfilesAssumption DEF Read, Housed, Base, TypeOK
  <2>3. keys \subseteq DOMAIN draft[r].providers
    BY <2>1 DEF Housed, Homes
  <2>4. \A q \in Requests : pc'[q] \notin Busy
    BY <2>1 DEF Housed, Solo, Base, TypeOK, Busy
  <2> QED
    BY <2>1, <2>2, <2>3, <2>4 DEF Homes, Busy
<1>15. ASSUME NEW r \in Requests, Crash(r), probe' = probe, host' = host PROVE Homes'
  BY <1>15 DEF Crash, Orderly
<1>16. ASSUME NEW r \in Requests, Revised(r), probe' = probe, host' = host PROVE Homes'
  <2>1. keys \subseteq DOMAIN Read.providers \cup {ask[r].id} /\ Read' = Read
    BY <1>16 DEF Revised, Housed, Homes, Solo, Busy, Read
  <2>2. keys \subseteq DOMAIN draft'[r].providers
    <3>1. CASE ask[r].op = "accept_harvest"
      BY <1>16, <2>1, <3>1 DEF Revised, Lawful
    <3>2. CASE ask[r].op # "accept_harvest"
      <4>1. keys \subseteq DOMAIN Read.providers
        BY <1>16, <3>2 DEF Revised, Housed, Homes, Solo, Busy
      <4> QED
        BY <1>16, <4>1 DEF Revised, Lawful
    <3> QED
      BY <3>1, <3>2
  <2>3. \A q \in Requests \ {r} : pc'[q] \notin Busy
    BY <1>16 DEF Revised, Housed, Solo, Base, TypeOK, Busy
  <2>4. \/ ask'[r].op = "accept_harvest" /\ keys' \subseteq DOMAIN Read'.providers \cup {ask'[r].id}
        \/ keys' \subseteq DOMAIN Read'.providers
    BY <1>16, <2>1 DEF Revised, Housed, Homes, Solo, Busy
  <2>5. pc'[r] = "write" /\ keys' = keys
    BY <1>16 DEF Revised, Housed, Base, TypeOK
  <2> QED
    BY <2>2, <2>3, <2>4, <2>5 DEF Homes, Busy
<1>17. ASSUME NEW r \in Requests, Marked(r), probe' = probe, host' = host PROVE Homes'
  BY <1>17 DEF Marked, Busy, Ended, Housed, Base, TypeOK, Homes, Solo, Read, Busy
<1>18. ASSUME NEW r \in Requests, Dropped(r), probe' = probe, host' = host PROVE Homes'
  BY <1>18 DEF Dropped, Busy, Ended, Housed, Base, TypeOK, Homes, Solo, Read, Busy
<1>19. ASSUME NEW r \in Requests, Probe(r), host' = host PROVE Homes'
  BY <1>19 DEF Probe, AskControl, AskFormat, NoAnswer, Goto, Busy, Ended, Housed, Base, TypeOK,
     Homes, Solo, Read, Busy
<1>20. CASE Spoil /\ probe' = probe /\ host' = host
  BY <1>20 DEF Spoil, Orderly
<1> QED
  BY <1>1, <1>2, <1>3, <1>4, <1>5, <1>6, <1>7, <1>8, <1>9, <1>10, <1>11, <1>12, <1>13, <1>14, <1>15,
     <1>16, <1>17, <1>18, <1>19, <1>20, NextIs DEF Housed

\* lib.rs, remove_provider: "a secret outliving its owner is a secret with no visible owner".
THEOREM EveryKeyHasAnOwner ==
    ASSUME Orderly
    PROVE  Spec => []NoOrphanKey
<1>1. Init /\ Base => Housed
  BY DEF Init, Housed, Solo, Homes, Read, Nothing, Busy
<1>2. Housed /\ [Next]_vars => Housed'
  BY StepTypeOK, StepLocked, StepRouted, StepFound, StepSolo, StepHomes DEF Housed, Base
<1>3. Housed => NoOrphanKey
  BY DEF Housed, Homes, NoOrphanKey, Busy
<1> QED
  BY <1>1, <1>2, <1>3, BaseHolds, PTL DEF Spec
=============================================================================
