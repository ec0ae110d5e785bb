---------------------------- MODULE ConfigCache ----------------------------
(***************************************************************************)
(* lib/system-config.ts: settings in the database behind an in-memory      *)
(* cache.  Readers look up what the cache does not have and store it some  *)
(* time later; a writer commits and then invalidates; other processes      *)
(* write without invalidating this one's cache.  The Rust SystemConfig has *)
(* the same shape.                                                         *)
(*                                                                         *)
(* A value is its version: 0 is what the environment says, which is cached *)
(* as well; deleting a row is a new version like any other.                *)
(***************************************************************************)
EXTENDS Integers, FiniteSets

CONSTANTS
    Keys,
    Ttl,             \* CACHE_TTL_MS, in ticks
    MaxLookup,       \* bound: ticks between a query and the use of its answer
    MaxTime,         \* bound on the clock
    MaxWrites        \* bound on the versions of a key

ASSUME CacheAssumption == {Ttl, MaxLookup, MaxTime, MaxWrites} \subseteq Nat

NoEntry == [value |-> 0, expiresAt |-> 0, set |-> FALSE]
NoRead == [pc |-> "idle", missing |-> {}, rows |-> <<>>, since |-> 0]

VARIABLES
    clock,
    db,          \* key -> version
    replacedAt,  \* key -> version -> when a newer one was committed
    cache,       \* key -> entry
    reader,      \* getSystemConfigs in progress
    writer       \* keys committed and not yet invalidated

configVars == <<clock, db, replacedAt, cache, reader, writer>>

ConfigInit ==
    /\ clock = 0
    /\ db = [k \in Keys |-> 0]
    /\ replacedAt = [k \in Keys |-> [v \in 0..MaxWrites |-> MaxTime + 1]]
    /\ cache = [k \in Keys |-> NoEntry]
    /\ reader = NoRead
    /\ writer = {}

-----------------------------------------------------------------------------

\* An entry is good through the instant at which it expires.
Live(entry) == entry.set /\ clock <= entry.expiresAt

\* Mutant: a hit starts the time to live again.
MutantgetCached(keys) ==
    [k \in Keys |-> IF k \notin keys THEN cache[k]
                    ELSE IF Live(cache[k])
                    THEN [cache[k] EXCEPT !.expiresAt = clock + Ttl]
                    ELSE NoEntry]

\* getCached deletes the entries it finds expired.
getCached(keys) ==
    [k \in Keys |-> IF k \in keys /\ ~Live(cache[k]) THEN NoEntry ELSE cache[k]]

\* Mutant: the database is asked even if nothing is missing.
MutantBeginRead(keys) ==
    /\ reader.pc = "idle" /\ keys # {}
    /\ cache' = getCached(keys)
    /\ reader' = [pc |-> "query", missing |-> {k \in keys : ~Live(cache[k])},
                  rows |-> <<>>, since |-> clock]
    /\ UNCHANGED <<clock, db, replacedAt, writer>>

\* getSystemConfig has one key, getSystemConfigs several; what is cached is
\* returned without a query.
BeginRead(keys) ==
    /\ reader.pc = "idle" /\ keys # {}
    /\ cache' = getCached(keys)
    /\ LET missing == {k \in keys : ~Live(cache[k])}
       IN reader' = IF missing = {} THEN NoRead
                    ELSE [pc |-> "query", missing |-> missing, rows |-> <<>>,
                          since |-> clock]
    /\ UNCHANGED <<clock, db, replacedAt, writer>>

QueryRows ==
    /\ reader.pc = "query"
    /\ reader' = [reader EXCEPT !.pc = "store", !.since = clock,
                                !.rows = [k \in reader.missing |-> db[k]]]
    /\ UNCHANGED <<clock, db, replacedAt, cache, writer>>

\* setCache, for every key that was missing; whatever happened meanwhile.
setCache(rows) ==
    [k \in Keys |-> IF k \in DOMAIN rows
                    THEN [value |-> rows[k], expiresAt |-> clock + Ttl, set |-> TRUE]
                    ELSE cache[k]]

StoreRows ==
    /\ reader.pc = "store"
    /\ cache' = setCache(reader.rows)
    /\ reader' = NoRead
    /\ UNCHANGED <<clock, db, replacedAt, writer>>

ReadFails ==
    /\ reader.pc = "query"
    /\ reader' = NoRead
    /\ UNCHANGED <<clock, db, replacedAt, cache, writer>>

Commit(keys) ==
    /\ \A k \in keys : db[k] < MaxWrites
    /\ db' = [k \in Keys |-> IF k \in keys THEN db[k] + 1 ELSE db[k]]
    /\ replacedAt' = [k \in Keys |-> IF k \in keys
                                     THEN [replacedAt[k] EXCEPT ![db[k]] = clock]
                                     ELSE replacedAt[k]]

\* setSystemConfig, setSystemConfigs and deleteSystemConfig.
CommitHere(keys) ==
    /\ writer = {} /\ keys # {}
    /\ Commit(keys)
    /\ writer' = keys
    /\ UNCHANGED <<clock, cache, reader>>

CommitElsewhere(keys) ==
    /\ keys # {} /\ Commit(keys)
    /\ UNCHANGED <<clock, cache, reader, writer>>

\* One key, or everything after a batch, which may have one key as well.
invalidateConfigCache ==
    /\ writer # {}
    /\ \E dropped \in {Keys} \cup {ks \in {writer} : Cardinality(ks) = 1} :
          cache' = [k \in Keys |-> IF k \in dropped THEN NoEntry ELSE cache[k]]
    /\ writer' = {}
    /\ UNCHANGED <<clock, db, replacedAt, reader>>

\* A lookup that takes longer than MaxLookup is not considered.
Tick ==
    /\ clock < MaxTime
    /\ reader.pc = "store" => clock < reader.since + MaxLookup
    /\ clock' = clock + 1
    /\ UNCHANGED <<db, replacedAt, cache, reader, writer>>

ConfigNext ==
    \/ \E keys \in SUBSET Keys :
          BeginRead(keys) \/ CommitHere(keys) \/ CommitElsewhere(keys)
    \/ QueryRows \/ StoreRows \/ ReadFails \/ invalidateConfigCache \/ Tick

ConfigSpec == ConfigInit /\ [][ConfigNext]_configVars

-----------------------------------------------------------------------------

\* What the cache answers is the current value, or was replaced no longer ago
\* than an entry lives and a lookup takes.  Invalidation shortens this for
\* values that were cached before a write; a reader that stores what it read
\* before the write, and every write of another process, are bounded by the
\* expiry alone (system-config.ts:7-29, 47-77, 79-105).
StalenessIsBounded ==
    \A k \in Keys :
        Live(cache[k]) /\ cache[k].value # db[k]
            => clock <= replacedAt[k][cache[k].value] + Ttl + MaxLookup

=============================================================================
