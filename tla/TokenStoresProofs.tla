------------------------- MODULE TokenStoresProofs -------------------------

(***************************************************************************)
(* Proofs about TokenStores, for any number of replicas, providers, names, *)
(* keys and process starts, in every storage mode.                         *)
(***************************************************************************)
EXTENDS TokenStores, TLAPS

USE StoresAssumption, NoneAssumption
USE DEF Modes, Tables

(***************************************************************************)
(* Lemmas about the locations.                                             *)
(***************************************************************************)

\* Every location an operation uses is one of its replica's locations.
LEMMA LocationIsKnown ==
    ASSUME NEW p \in Replicas, NEW t \in Tables, NEW n \in Namespaces, NEW k \in Names
    PROVE  /\ Location(p, t, n, k) \in LocationsOf(p)
           /\ Location(p, t, n, k) \in Locations
BY DEF Locations, LocationsOf

\* The location of a token names its provider and its subject: no other provider's
\* token and no pending record has the same one, in whichever storage mode, as long as
\* in file mode the provider has a directory of its own.
LEMMA TokenLocationsDiffer ==
    ASSUME NEW p \in Replicas, NEW n \in Namespaces, NEW k \in Names,
           NEW q \in Replicas, NEW t \in Tables, NEW m \in Namespaces, NEW j \in Names,
           mode = "file" => OwnDirectory(n),
           Location(p, "token", n, k) = Location(q, t, m, j)
    PROVE  t = "token" /\ m = n /\ j = k
<1>1. CASE mode = "file"
  BY <1>1 DEF Location, FilePath, OwnDirectory
<1>2. CASE mode = "redis"
  BY <1>2 DEF Location, RedisKey
<1>3. CASE mode \notin {"file", "redis"}
  BY <1>3 DEF Location
<1> QED BY <1>1, <1>2, <1>3

\* The locations are those of the mode, which never changes.
LEMMA LocationsStay ==
    ASSUME mode' = mode
    PROVE  /\ Locations' = Locations
           /\ \A p \in Replicas : LocationsOf(p)' = LocationsOf(p)
BY DEF Locations, LocationsOf, Location

(***************************************************************************)
(* Lemmas about the keys.                                                  *)
(***************************************************************************)

\* The shared backends run with the configured key or not at all: a process never
\* falls back to a key it made up.
LEMMA RequiredKeyIsConfigured ==
    ASSUME NEW c \in Configs, NEW n, RequireEncryptionKey(c, n) # None
    PROVE  /\ RequireEncryptionKey(c, n) = ConfiguredKey(c)
           /\ ConfiguredKey(c) \in Int \ {Bad}
<1>1. c.env \in Keys \cup {Bad, None} /\ c.path \in Keys \cup {Bad, None}
  OBVIOUS
<1>2. c.env # None \/ c.path # None
  BY DEF RequireEncryptionKey
<1>3. RequireEncryptionKey(c, n) = NewCipher(ConfiguredKey(c))
  BY <1>2 DEF RequireEncryptionKey, NewCipherFromEnv, ConfiguredKey
<1>4. ConfiguredKey(c) \in Keys \cup {Bad}
  BY <1>1, <1>2 DEF ConfiguredKey
<1>5. ConfiguredKey(c) # Bad /\ RequireEncryptionKey(c, n) = ConfiguredKey(c)
  BY <1>3 DEF NewCipher
<1>6. ConfiguredKey(c) \in Keys
  BY <1>4, <1>5
<1>7. ConfiguredKey(c) \in Nat
  BY <1>6
<1> QED BY <1>5, <1>7

(***************************************************************************)
(* The inductive invariant.                                                *)
(***************************************************************************)

\* The maps that TypeOK describes cell by cell are functions.
CipherShape == cipher = [p \in Replicas |-> cipher[p]]

\* A running process uses the key of its configuration.
RunsWithConfiguredKey ==
    \A p \in Replicas :
        Up(p) => /\ mode \in {"memory", "file", "redis"}
                 /\ mode # "memory" => cipher[p] = ConfiguredKey(config[p])

\* A value is at the location its origin has on some replica.
StoredInPlace ==
    \A l \in Locations : data[l] # None =>
        \E q \in Replicas, t \in Tables, n \in Namespaces, k \in Names :
            data[l].origin = <<t, n, k>> /\ l = Location(q, t, n, k)

\* Without rotation every configuration stands for one key, the values in a shared
\* store are encrypted with it, and no Get found one it could not decrypt.
OneKey ==
    ~rotated =>
        /\ \A p, q \in Replicas : ConfiguredKey(config[p]) = ConfiguredKey(config[q])
        /\ mode # "memory" =>
            \A l \in Locations, p \in Replicas :
                data[l] # None => data[l].key = ConfiguredKey(config[p])
        /\ \A p \in Replicas : heal[p] = None

\* An acknowledged value is there.
AckedIsThere == ~rotated => \A l \in acked : data[l] # None

IInv ==
    /\ TypeOK /\ CipherShape /\ RunsWithConfiguredKey
    /\ StoredInPlace /\ OneKey /\ AckedIsThere

\* The initial state.
LEMMA InitInv == Init => IInv
<1> SUFFICES ASSUME Init PROVE IInv
  OBVIOUS
<1>1. TypeOK
  BY DEF Init, TypeOK, EnvOrDefault
<1> QED
  BY <1>1 DEF Init, IInv, CipherShape, RunsWithConfiguredKey, StoredInPlace, OneKey,
      AckedIsThere, Up

\* Start.
LEMMA StartInv ==
    ASSUME IInv, NEW p \in Replicas, Start(p)
    PROVE  IInv'
<1>1. mode' = mode /\ Locations' = Locations
  BY LocationsStay DEF Start
<1>2. config[p] \in Configs
  BY DEF IInv, TypeOK
<1> DEFINE key == RequireEncryptionKey(config[p], starts')
<1>3. key # None => key = ConfiguredKey(config[p]) /\ key \in Int \ {Bad}
  BY <1>2, RequiredKeyIsConfigured
<1> HIDE DEF key
<1>4. /\ cipher'[p] = CASE mode = "memory" -> "plain"
                        [] mode \in {"file", "redis"} -> key
                        [] OTHER -> None
      /\ \A q \in Replicas : q # p => cipher'[q] = cipher[q]
      /\ CipherShape'
  BY DEF Start, key, IInv, CipherShape
<1>5. TypeOK'
  BY <1>1, <1>3, <1>4 DEF IInv, TypeOK, IsValue, Start
<1>6. RunsWithConfiguredKey'
  BY <1>1, <1>3, <1>4 DEF IInv, RunsWithConfiguredKey, Up, Start
<1>7. StoredInPlace'
  BY <1>1 DEF IInv, StoredInPlace, Start, Location
<1>8. OneKey' /\ AckedIsThere'
  BY <1>1 DEF IInv, OneKey, AckedIsThere, Start
<1> QED BY <1>4, <1>5, <1>6, <1>7, <1>8 DEF IInv

\* Crash.
LEMMA CrashInv ==
    ASSUME IInv, NEW p \in Replicas, Crash(p)
    PROVE  IInv'
<1>1. mode' = mode /\ Locations' = Locations
  BY LocationsStay DEF Crash
<1>2. /\ cipher'[p] = None
      /\ \A q \in Replicas : q # p => cipher'[q] = cipher[q]
      /\ CipherShape'
  BY DEF Crash, IInv, CipherShape
<1> DEFINE lost == IF mode = "memory" THEN LocationsOf(p) ELSE {}
<1>3. /\ data' = [l \in Locations |-> IF l \in lost THEN None ELSE data[l]]
      /\ acked' = acked \ lost
  BY DEF Crash
<1> HIDE DEF lost
<1>4. /\ \A l \in Locations : data'[l] # None => data'[l] = data[l]
      /\ \A l \in acked' : data'[l] = data[l]
  BY <1>3 DEF IInv, TypeOK
<1>5. TypeOK'
  <2>1. \A q \in Replicas : cipher'[q] # None => cipher'[q] = cipher[q]
    BY <1>2
  <2>2. heal' \in [Replicas -> Locations \cup {None}] /\ acked' \subseteq Locations
    BY <1>3 DEF Crash, IInv, TypeOK
  <2> QED BY <1>1, <2>1, <2>2, <1>3, <1>4 DEF IInv, TypeOK, IsValue, Crash
<1>6. RunsWithConfiguredKey'
  BY <1>1, <1>2 DEF IInv, RunsWithConfiguredKey, Up, Crash
<1>7. StoredInPlace'
  BY <1>1, <1>4 DEF IInv, StoredInPlace, Location
<1>8. OneKey' /\ AckedIsThere'
  BY <1>1, <1>4 DEF IInv, TypeOK, OneKey, AckedIsThere, Crash
<1> QED BY <1>2, <1>5, <1>6, <1>7, <1>8 DEF IInv

\* Configure: a change of the key is on record.
LEMMA ConfigureInv ==
    ASSUME IInv, NEW p \in Replicas, NEW c \in Configs, Configure(p, c)
    PROVE  IInv'
<1>1. mode' = mode /\ Locations' = Locations
  BY LocationsStay DEF Configure
<1>2. /\ config'[p] = c
      /\ \A q \in Replicas : q # p => config'[q] = config[q]
      /\ ~rotated' => ~rotated /\ ConfiguredKey(c) = ConfiguredKey(config[p])
  BY DEF Configure, IInv, TypeOK
<1>3. ~rotated' => \A q \in Replicas : ConfiguredKey(config'[q]) = ConfiguredKey(config[q])
  BY <1>2
<1>4. TypeOK'
  BY <1>1 DEF IInv, TypeOK, IsValue, Configure
<1>5. CipherShape' /\ RunsWithConfiguredKey'
  BY <1>1, <1>2 DEF IInv, CipherShape, RunsWithConfiguredKey, Up, Configure
<1>6. StoredInPlace'
  BY <1>1 DEF IInv, StoredInPlace, Configure, Location
<1>7. OneKey' /\ AckedIsThere'
  BY <1>1, <1>2, <1>3 DEF IInv, OneKey, AckedIsThere, Configure
<1> QED BY <1>4, <1>5, <1>6, <1>7 DEF IInv

\* Set.
LEMMA SetInv ==
    ASSUME IInv, NEW p \in Replicas, NEW t \in Tables, NEW n \in Namespaces, NEW k \in Names,
           Set(p, t, n, k)
    PROVE  IInv'
<1> DEFINE l == Location(p, t, n, k)
           v == Encrypt(cipher[p], <<t, n, k>>)
<1>1. mode' = mode /\ Locations' = Locations
  BY LocationsStay DEF Set
<1>2. l \in Locations
  BY LocationIsKnown
<1>3. /\ v.key = cipher[p] /\ v.origin = <<t, n, k>>
      /\ IsValue(v) /\ v # None
  <2>1. v.key = cipher[p] /\ v.origin = <<t, n, k>> /\ v = [key |-> cipher[p], origin |-> <<t, n, k>>]
    BY DEF Encrypt
  <2>2. IF mode = "memory" THEN cipher[p] = "plain" ELSE cipher[p] \in Int
    BY DEF IInv, TypeOK, Set, Up
  <2> QED BY <2>1, <2>2 DEF IsValue
<1>4. /\ data'[l] = v /\ \A m \in Locations : m # l => data'[m] = data[m]
      /\ DOMAIN data' = Locations
      /\ acked' \subseteq acked \cup {l}
  BY <1>2 DEF Set, IInv, TypeOK
<1> HIDE DEF v
<1>5. TypeOK'
  BY <1>1, <1>2, <1>3, <1>4 DEF IInv, TypeOK, IsValue, Set
<1>6. CipherShape' /\ RunsWithConfiguredKey'
  BY <1>1 DEF IInv, CipherShape, RunsWithConfiguredKey, Up, Set
<1>7. StoredInPlace'
  <2> SUFFICES ASSUME NEW m \in Locations, data'[m] # None
               PROVE  \E q \in Replicas, u \in Tables, o \in Namespaces, j \in Names :
                        data'[m].origin = <<u, o, j>> /\ m = Location(q, u, o, j)
    BY <1>1 DEF StoredInPlace, Location
  <2>1. CASE m = l
    BY <2>1, <1>3, <1>4
  <2>2. CASE m # l
    BY <2>2, <1>4 DEF IInv, StoredInPlace
  <2> QED BY <2>1, <2>2
<1>8. OneKey'
  BY <1>1, <1>3, <1>4 DEF IInv, OneKey, RunsWithConfiguredKey, Set
<1>9. AckedIsThere'
  BY <1>3, <1>4 DEF IInv, TypeOK, AckedIsThere, Set
<1> QED BY <1>5, <1>6, <1>7, <1>8, <1>9 DEF IInv

\* A step that only removes values, and no acknowledged one.
LEMMA RemovalInv ==
    ASSUME IInv, UNCHANGED <<mode, config, cipher, starts, rotated>>,
           heal' \in [Replicas -> Locations \cup {None}],
           ~rotated => \A p \in Replicas : heal'[p] = None,
           DOMAIN data' = Locations,
           \A l \in Locations : data'[l] # None => data'[l] = data[l],
           acked' \subseteq acked,
           ~rotated => \A l \in acked' : data'[l] = data[l]
    PROVE  IInv'
<1>1. mode' = mode /\ Locations' = Locations
  BY LocationsStay
<1>2. TypeOK'
  BY <1>1 DEF IInv, TypeOK, IsValue
<1>3. CipherShape' /\ RunsWithConfiguredKey'
  BY <1>1 DEF IInv, CipherShape, RunsWithConfiguredKey, Up
<1>4. StoredInPlace'
  BY <1>1 DEF IInv, StoredInPlace, Location
<1>5. OneKey' /\ AckedIsThere'
  BY <1>1 DEF IInv, TypeOK, OneKey, AckedIsThere
<1> QED BY <1>2, <1>3, <1>4, <1>5 DEF IInv

\* Delete.
LEMMA DeleteInv ==
    ASSUME IInv, NEW p \in Replicas, NEW t \in Tables, NEW n \in Namespaces, NEW k \in Names,
           Delete(p, t, n, k)
    PROVE  IInv'
<1> DEFINE l == Location(p, t, n, k)
<1>1. l \in Locations
  BY LocationIsKnown
<1>2. data' \in {data, [data EXCEPT ![l] = None]} /\ acked' = acked \ {l}
      /\ UNCHANGED <<mode, config, cipher, starts, heal, rotated>>
  BY DEF Delete
<1> HIDE DEF l
<1>3. /\ DOMAIN data' = Locations
      /\ \A m \in Locations : data'[m] # None => data'[m] = data[m]
      /\ \A m \in Locations \ {l} : data'[m] = data[m]
  BY <1>1, <1>2 DEF IInv, TypeOK
<1>4. /\ heal' \in [Replicas -> Locations \cup {None}]
      /\ ~rotated => \A q \in Replicas : heal'[q] = None
  BY <1>2 DEF IInv, TypeOK, OneKey
<1>5. acked' \subseteq acked /\ \A m \in acked' : data'[m] = data[m]
  BY <1>2, <1>3 DEF IInv, TypeOK
<1> QED BY <1>2, <1>3, <1>4, <1>5, RemovalInv

\* Get: without rotation there is nothing it cannot decrypt.
LEMMA GetInv ==
    ASSUME IInv, NEW p \in Replicas, NEW t \in Tables, NEW n \in Namespaces, NEW k \in Names,
           Get(p, t, n, k)
    PROVE  IInv'
<1> DEFINE l == Location(p, t, n, k)
<1>1. l \in Locations
  BY LocationIsKnown
<1>2. /\ Up(p) /\ mode # "memory" /\ data[l] # None /\ data[l].key # cipher[p]
      /\ heal' = [heal EXCEPT ![p] = l]
      /\ UNCHANGED <<mode, config, cipher, starts, data, acked, rotated>>
  BY DEF Get, Unreadable, Decrypts
<1> HIDE DEF l
<1>3. rotated
  BY <1>1, <1>2 DEF IInv, OneKey, RunsWithConfiguredKey
<1>4. heal' \in [Replicas -> Locations \cup {None}]
  BY <1>1, <1>2 DEF IInv, TypeOK
<1> QED BY <1>2, <1>3, <1>4, RemovalInv DEF IInv, TypeOK

\* Heal: without rotation there is nothing to remove.
LEMMA HealInv ==
    ASSUME IInv, NEW p \in Replicas, Heal(p)
    PROVE  IInv'
<1>1. rotated
  BY DEF IInv, OneKey, Heal
<1>2. heal[p] \in Locations
  BY DEF IInv, TypeOK, Heal
<1>3. /\ DOMAIN data' = Locations
      /\ \A m \in Locations : data'[m] # None => data'[m] = data[m]
      /\ heal' \in [Replicas -> Locations \cup {None}]
  BY <1>2 DEF IInv, TypeOK, Heal
<1> QED BY <1>1, <1>3, RemovalInv DEF Heal

\* Every step preserves the invariant.
LEMMA NextInv == IInv /\ [Next]_vars => IInv'
<1> SUFFICES ASSUME IInv, [Next]_vars PROVE IInv'
  OBVIOUS
<1>1. CASE UNCHANGED vars
  BY <1>1, RemovalInv DEF vars, IInv, TypeOK, OneKey
<1>2. CASE Next
  BY <1>2, StartInv, CrashInv, HealInv, ConfigureInv, SetInv, DeleteInv, GetInv DEF Next
<1> QED BY <1>1, <1>2

\* The invariant holds throughout.
LEMMA InvHolds == Spec => []IInv
BY InitInv, NextInv, PTL DEF Spec

(***************************************************************************)
(* Theorems.                                                               *)
(***************************************************************************)

\* Every variable keeps its type; a replica runs with a usable key only.
THEOREM TypeCorrect == Spec => []TypeOK
<1>1. IInv => TypeOK
  BY DEF IInv
<1> QED BY <1>1, InvHolds, PTL

\* What a provider finds under a subject is its own token of that subject, in every
\* storage mode, whatever the names of the providers, provided that in file mode they
\* come to different directories.
THEOREM Isolation == Spec => []NamespacesIsolated
<1>1. IInv => NamespacesIsolated
  <2> SUFFICES ASSUME IInv, NEW p \in Replicas, NEW n \in Namespaces, NEW k \in Names,
                      mode = "file" => OwnDirectory(n),
                      data[Location(p, "token", n, k)] # None
               PROVE  data[Location(p, "token", n, k)].origin = <<"token", n, k>>
    BY DEF NamespacesIsolated
  <2>1. PICK q \in Replicas, t \in Tables, m \in Namespaces, j \in Names :
          /\ data[Location(p, "token", n, k)].origin = <<t, m, j>>
          /\ Location(p, "token", n, k) = Location(q, t, m, j)
    BY LocationIsKnown DEF IInv, StoredInPlace
  <2>2. t = "token" /\ m = n /\ j = k
    BY <2>1, TokenLocationsDiffer
  <2> QED BY <2>1, <2>2
<1> QED BY <1>1, InvHolds, PTL

\* As long as the replicas are given one key, no acknowledged value is lost and
\* every running replica that shares it can decrypt it.
THEOREM Durability == Spec => []NoLossWithoutRotation
<1>1. IInv => NoLossWithoutRotation
  <2> SUFFICES ASSUME IInv, ~rotated, NEW l \in acked
               PROVE  /\ data[l] # None
                      /\ \A p \in Replicas : Up(p) => cipher[p] = data[l].key
    BY DEF NoLossWithoutRotation, Decrypts
  <2>1. l \in Locations /\ data[l] # None
    BY DEF IInv, TypeOK, AckedIsThere
  <2>2. CASE mode = "memory"
    BY <2>1, <2>2 DEF IInv, TypeOK, IsValue, Up
  <2>3. CASE mode # "memory"
    BY <2>1, <2>3 DEF IInv, OneKey, RunsWithConfiguredKey
  <2> QED BY <2>1, <2>2, <2>3
<1> QED BY <1>1, InvHolds, PTL
=============================================================================
