---------------------------- MODULE TokenStores ----------------------------
(***************************************************************************)
(* CreateStores, the Cipher it gives its stores, and what the replicas of  *)
(* a deployment keep in the stores it creates: the three TokenStores, and  *)
(* the pending records as far as encryption goes (expiry and results are   *)
(* in the modules of the pending stores).  Replicas crash, are configured  *)
(* anew and restarted; in file and redis mode they share the data.         *)
(***************************************************************************)
EXTENDS Integers

CONSTANTS
    Replicas,
    Namespaces,  \* names of providers; None is the empty name
    Dir,         \* name -> the directory filepath.Join makes of storagePath, "tokens"
                 \* and the name (for None: of the first two)
    Names,       \* subjects of tokens and keys of pending records
    Keys,        \* the usable encryption keys 1, 2, ..., each 32 bytes
    Bad,         \* key material that is not base64, too short, or a file not there
    Configs,     \* values of STORAGE_ENCRYPTION_KEY and of what ..._KEY_PATH leads to
    MaxStarts,   \* bound on the number of process starts
    None

Modes == {"memory", "file", "redis"}

ASSUME StoresAssumption ==
    /\ Dir \in [Namespaces -> STRING]
    /\ Keys \subseteq Nat /\ Bad \in Nat \ Keys
    /\ Configs \subseteq [env: Keys \cup {Bad, None}, path: Keys \cup {Bad, None}]
    /\ MaxStarts \in Nat
    /\ None \notin Keys \cup {Bad} /\ None \notin Names \cup Replicas \cup Modes

VARIABLES
    mode,     \* what TOKEN_STORAGE_MODE comes to
    config,   \* the environment of each replica
    cipher,   \* the key of its Cipher, "plain" in memory mode, None when not running
    starts,
    data,     \* location -> value at rest
    heal,     \* the location a running Get is about to remove, None if there is none
    acked,    \* history: locations with an acknowledged Set and no Delete since
    rotated   \* history: the replicas were not always given the same key

vars == <<mode, config, cipher, starts, data, heal, acked, rotated>>

(***************************************************************************)
(* Where a value lives.  A memory store belongs to one process and one     *)
(* provider; the pending records of the shared backends are not separated  *)
(* by namespace.                                                           *)
(***************************************************************************)
Tables == {"token", "pending"}

\* NewFileTokenStore, NewFilePendingStore and the paths below their directories.
\* Join cleans what it joins: names as different as "" and ".", or "a" and "b/../a",
\* come to one directory, and a name with ".." may leave "tokens".
FilePath(t, n, k) == <<IF t = "pending" THEN "pending" ELSE Dir[n], k>>

\* NewRedisTokenStore, NewRedisPendingStore and their key functions.
RedisKey(t, n, k) ==
    IF t = "pending" \/ n = None THEN <<"mcp:auth", t, k>> ELSE <<"mcp:auth", n, t, k>>

\* Mutant: CreateStores does not pass its namespace on.
LocationNoNamespace(p, t, n, k) ==
    CASE mode = "file"  -> FilePath(t, None, k)
      [] mode = "redis" -> RedisKey(t, None, k)
      [] OTHER          -> <<p, n, t, k>>

Location(p, t, n, k) ==
    CASE mode = "file"  -> FilePath(t, n, k)
      [] mode = "redis" -> RedisKey(t, n, k)
      [] OTHER          -> <<p, n, t, k>>

LocationsOf(p) == {Location(p, t, n, k) : t \in Tables, n \in Namespaces, k \in Names}

Locations == UNION {LocationsOf(p) : p \in Replicas}

(***************************************************************************)
(* Keys.                                                                   *)
(***************************************************************************)

\* A key generated at the start of a process is different from all others.
Ephemeral(n) == -n

\* Mutant: the length of the key is not checked.
NewCipherUnchecked(material) == material

\* None is the error.
NewCipher(material) == IF material = Bad THEN None ELSE material

\* NewCipherFromEnv.
NewCipherFromEnv(c, n) ==
    NewCipher(IF c.env # None THEN c.env ELSE IF c.path # None THEN c.path ELSE Ephemeral(n))

\* Mutant: without a key the file and redis backends take a generated one.
RequireEncryptionKeyNot(c, n) == NewCipherFromEnv(c, n)

\* requireEncryptionKey.
RequireEncryptionKey(c, n) ==
    IF c.env = None /\ c.path = None THEN None ELSE NewCipherFromEnv(c, n)

\* Cipher.Encrypt; origin says, as history, what the value was stored as.
Encrypt(key, origin) == [key |-> key, origin |-> origin]

\* Cipher.Decrypt fails unless the value was encrypted with the same key.
Decrypts(key, v) == v.key = key

(***************************************************************************)
(* A deployment.                                                           *)
(***************************************************************************)
IsValue(v) == (IF mode = "memory" THEN v.key = "plain" ELSE v.key \in Int) /\ v.origin \in Tables \X Namespaces \X Names

\* The types of the variables; a replica runs with a usable key only.
TypeOK ==
    /\ mode \in Modes \cup {"unknown"}
    /\ config \in [Replicas -> Configs]
    /\ \A p \in Replicas : cipher[p] # None =>
        IF mode = "memory" THEN cipher[p] = "plain" ELSE cipher[p] \in Int \ {Bad}
    /\ starts \in 0 .. MaxStarts
    /\ DOMAIN data = Locations
    /\ \A l \in Locations : data[l] # None => IsValue(data[l])
    /\ heal \in [Replicas -> Locations \cup {None}]
    /\ acked \subseteq Locations
    /\ rotated \in BOOLEAN

\* nil is not a value at rest.
ASSUME NoneAssumption ==
    None \notin [key: Int \cup {"plain"}, origin: Tables \X Namespaces \X Names]

EnvOrDefault(value, env, fallback) ==
    IF value # None THEN value ELSE IF env # None THEN env ELSE fallback

\* The key the documentation says a configuration stands for.
ConfiguredKey(c) == IF c.env # None THEN c.env ELSE c.path

Init ==
    /\ \E option, env \in Modes \cup {"unknown", None} :
        mode = EnvOrDefault(option, env, "memory")
    /\ config \in [Replicas -> Configs]
    /\ cipher = [p \in Replicas |-> None]
    /\ starts = 0
    /\ data = [l \in Locations |-> None]
    /\ heal = [p \in Replicas |-> None]
    /\ acked = {}
    /\ rotated = \E p, q \in Replicas : ConfiguredKey(config[p]) # ConfiguredKey(config[q])

Up(p) == cipher[p] # None

\* CreateStores; a start that fails leaves the replica down.
Start(p) ==
    /\ ~Up(p) /\ starts < MaxStarts
    /\ starts' = starts + 1
    /\ cipher' = [cipher EXCEPT ![p] =
         CASE mode = "memory"            -> "plain"
           [] mode \in {"file", "redis"} -> RequireEncryptionKey(config[p], starts')
           [] OTHER                      -> None]
    /\ UNCHANGED <<mode, config, data, heal, acked, rotated>>

\* The process ends, at any point.
Crash(p) ==
    /\ Up(p)
    /\ cipher' = [cipher EXCEPT ![p] = None]
    /\ heal' = [heal EXCEPT ![p] = None]
    /\ LET lost == IF mode = "memory" THEN LocationsOf(p) ELSE {} IN
        /\ data' = [l \in Locations |-> IF l \in lost THEN None ELSE data[l]]
        /\ acked' = acked \ lost
    /\ UNCHANGED <<mode, config, starts, rotated>>

\* The operator changes the environment of a replica.
Configure(p, c) ==
    /\ ~Up(p) /\ c # config[p]
    /\ config' = [config EXCEPT ![p] = c]
    /\ rotated' = (rotated \/ ConfiguredKey(c) # ConfiguredKey(config[p]))
    /\ UNCHANGED <<mode, cipher, starts, data, heal, acked>>

\* TokenStore.Set and PendingStore.Create.  An error of the file backend comes before
\* the rename and changes nothing; redis may have executed a command that failed.
Set(p, t, n, k) ==
    LET l == Location(p, t, n, k) IN
    /\ Up(p)
    /\ data' = [data EXCEPT ![l] = Encrypt(cipher[p], <<t, n, k>>)]
    /\ \/ acked' = acked \cup {l}
       \/ mode = "redis" /\ UNCHANGED acked
    /\ UNCHANGED <<mode, config, cipher, starts, heal, rotated>>

\* TokenStore.Delete and the removal in PendingStore.Pop, which may fail.
Delete(p, t, n, k) ==
    LET l == Location(p, t, n, k) IN
    /\ Up(p)
    /\ acked' = acked \ {l}
    /\ \/ data' = [data EXCEPT ![l] = None]
       \/ mode # "memory" /\ UNCHANGED data
    /\ UNCHANGED <<mode, config, cipher, starts, heal, rotated>>

\* Read, but not decrypted.
Unreadable(p, l) == data[l] # None /\ ~Decrypts(cipher[p], data[l])

\* Mutant: any failure to read is taken for a value that cannot be decrypted.
GetHealsErrors(p, t, n, k) ==
    LET l == Location(p, t, n, k) IN
    /\ Up(p) /\ mode # "memory" /\ heal[p] = None
    /\ data[l] # None
    /\ heal' = [heal EXCEPT ![p] = l]
    /\ UNCHANGED <<mode, config, cipher, starts, data, acked, rotated>>

\* TokenStore.Get, PendingStore.Get and readRecord.  A Get that finds nothing, reads a
\* value it can decrypt or fails to read changes nothing; after one that cannot
\* decrypt what it read, the location is removed.
Get(p, t, n, k) ==
    LET l == Location(p, t, n, k) IN
    /\ Up(p) /\ mode # "memory" /\ heal[p] = None
    /\ Unreadable(p, l)
    /\ heal' = [heal EXCEPT ![p] = l]
    /\ UNCHANGED <<mode, config, cipher, starts, data, acked, rotated>>

\* The removal: of whatever is at the location by then; its errors are ignored.
Heal(p) ==
    /\ heal[p] # None
    /\ data' \in {data, [data EXCEPT ![heal[p]] = None]}
    /\ heal' = [heal EXCEPT ![p] = None]
    /\ UNCHANGED <<mode, config, cipher, starts, acked, rotated>>

Next ==
    \E p \in Replicas :
        \/ Start(p) \/ Crash(p) \/ Heal(p)
        \/ \E c \in Configs : Configure(p, c)
        \/ \E t \in Tables, n \in Namespaces, k \in Names :
            Set(p, t, n, k) \/ Delete(p, t, n, k) \/ Get(p, t, n, k)

Spec == Init /\ [][Next]_vars

(***************************************************************************)
(* Properties.                                                             *)
(***************************************************************************)

\* The name of a provider comes to a directory no other store uses.
OwnDirectory(n) == Dir[n] # "pending" /\ \A m \in Namespaces \ {n} : Dir[m] # Dir[n]

\* A provider finds under a subject only what it, or the same provider of another
\* replica, stored there as the token of that subject: neither another provider's
\* token nor a pending record.  Only the file backend asks for more than different
\* names: there their directories have to differ.
NamespacesIsolated ==
    \A p \in Replicas, n \in Namespaces, k \in Names :
        LET v == data[Location(p, "token", n, k)] IN
        (mode = "file" => OwnDirectory(n)) /\ v # None => v.origin = <<"token", n, k>>

\* As long as the operator gives every replica the same key, in whichever of the two
\* variables, a value whose Set was acknowledged stays there until it is deleted,
\* and every running replica that shares it can decrypt it: across crashes,
\* restarts and failed starts, and although reads remove what they cannot decrypt.
NoLossWithoutRotation ==
    ~rotated => \A l \in acked :
        /\ data[l] # None
        /\ \A p \in Replicas : Up(p) /\ l \in LocationsOf(p) => Decrypts(cipher[p], data[l])
=============================================================================
