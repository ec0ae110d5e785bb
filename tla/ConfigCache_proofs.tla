------------------------- MODULE ConfigCache_proofs -------------------------
(***************************************************************************)
(* Why cached settings are stale for a bounded time, for any set of keys,  *)
(* time to live and length of a lookup.                                    *)
(*                                                                         *)
(* An entry's expiry is at most the time to live away; a value that was    *)
(* replaced while it sat in the cache therefore expires in time.  A value  *)
(* that was already replaced when a reader stored it had been read no more *)
(* than a lookup earlier, and was current then.                            *)
(***************************************************************************)
EXTENDS ConfigCache, TLAPS

Versions == 0..MaxWrites
Entries == [value : Versions, expiresAt : Nat, set : BOOLEAN]
Rows == UNION {[ks -> Versions] : ks \in SUBSET Keys}
Readers == [pc : {"idle", "query", "store"}, missing : SUBSET Keys,
            rows : Rows, since : Nat]

CacheTypes ==
    /\ clock \in Nat
    /\ db \in [Keys -> Versions]
    /\ replacedAt \in [Keys -> [Versions -> Nat]]
    /\ cache \in [Keys -> Entries]
    /\ reader \in Readers
    /\ writer \in SUBSET Keys

\* An entry does not outlive its time, is not newer than the row, and expires
\* soon after it was replaced.
EntryIsBounded(k) ==
    /\ cache[k].value <= db[k]
    /\ cache[k].set => cache[k].expiresAt <= clock + Ttl
    /\ cache[k].set /\ cache[k].value # db[k]
         => cache[k].expiresAt <= replacedAt[k][cache[k].value] + Ttl + MaxLookup

\* What a reader is about to store was current when it was read.
RowIsBounded(k) ==
    /\ reader.rows[k] <= db[k]
    /\ reader.rows[k] # db[k] => reader.since <= replacedAt[k][reader.rows[k]]

ReaderIsBounded ==
    reader.pc = "store" =>
        /\ DOMAIN reader.rows = reader.missing
        /\ reader.since <= clock /\ clock <= reader.since + MaxLookup
        /\ \A k \in reader.missing : RowIsBounded(k)

CacheInv ==
    /\ CacheTypes
    /\ \A k \in Keys : EntryIsBounded(k)
    /\ ReaderIsBounded

-----------------------------------------------------------------------------

\* The invariant says what it is for: an entry that is still good has not
\* expired, so the bound on its expiry bounds the clock.
LEMMA CacheInvImplies == CacheInv => StalenessIsBounded
  <1> SUFFICES ASSUME CacheInv, NEW k \in Keys,
                      Live(cache[k]), cache[k].value # db[k]
               PROVE  clock <= replacedAt[k][cache[k].value] + Ttl + MaxLookup
    BY DEF StalenessIsBounded
  <1>1. /\ clock \in Nat /\ cache[k] \in Entries
        /\ replacedAt[k][cache[k].value] \in Nat
    BY DEF CacheInv, CacheTypes, Entries
  <1>2. cache[k].expiresAt <= replacedAt[k][cache[k].value] + Ttl + MaxLookup
    BY DEF CacheInv, EntryIsBounded, Live
  <1>3. clock <= cache[k].expiresAt
    BY DEF Live
  <1> QED
    BY <1>1, <1>2, <1>3, CacheAssumption DEF Entries

LEMMA NoReadIsReader == NoRead \in Readers
  <1>1. <<>> \in [{} -> Versions]
    OBVIOUS
  <1>2. <<>> \in Rows
    BY <1>1 DEF Rows
  <1> QED
    BY <1>2 DEF NoRead, Readers

LEMMA InitCache == ConfigInit => CacheInv
  <1> SUFFICES ASSUME ConfigInit PROVE CacheInv
    OBVIOUS
  <1>1. CacheTypes
    BY NoReadIsReader, CacheAssumption
    DEF ConfigInit, CacheTypes, Versions, Entries, NoEntry
  <1>2. \A k \in Keys : EntryIsBounded(k)
    BY CacheAssumption DEF ConfigInit, EntryIsBounded, NoEntry
  <1>3. ReaderIsBounded
    BY DEF ConfigInit, ReaderIsBounded, NoRead
  <1> QED
    BY <1>1, <1>2, <1>3 DEF CacheInv

-----------------------------------------------------------------------------

\* A commit gives every key it writes a newer version, and notes when the
\* previous one was replaced.
LEMMA CommitPreserves ==
  ASSUME CacheInv, NEW keys \in SUBSET Keys, Commit(keys),
         UNCHANGED <<clock, cache, reader>>, writer' \in SUBSET Keys
  PROVE  CacheInv'
  <1>1. /\ clock \in Nat
        /\ db \in [Keys -> Versions]
        /\ replacedAt \in [Keys -> [Versions -> Nat]]
        /\ cache \in [Keys -> Entries]
        /\ reader \in Readers
    BY DEF CacheInv, CacheTypes
  <1>2. db' \in [Keys -> Versions]
    BY <1>1, CacheAssumption DEF Commit, Versions
  <1>3. replacedAt' \in [Keys -> [Versions -> Nat]]
    BY <1>1 DEF Commit
  <1>4. CacheTypes'
    BY <1>1, <1>2, <1>3 DEF CacheTypes
  <1>5. ASSUME NEW k \in Keys, NEW v \in Versions, v <= db[k]
        PROVE  /\ v <= db'[k]
               /\ v # db'[k] => \/ v # db[k] /\ replacedAt'[k][v] = replacedAt[k][v]
                                \/ v = db[k] /\ replacedAt'[k][v] = clock
    <2>1. CASE k \in keys
      <3>1. db'[k] = db[k] + 1
        BY <2>1 DEF Commit
      <3>2. replacedAt'[k] = [replacedAt[k] EXCEPT ![db[k]] = clock]
        BY <2>1 DEF Commit
      <3>3. v <= db'[k]
        BY <1>1, <1>5, <3>1 DEF Versions
      <3>4. replacedAt[k] \in [Versions -> Nat]
        BY <1>1
      <3>5. CASE v = db[k]
        BY <3>2, <3>3, <3>4, <3>5
      <3>6. CASE v # db[k]
        BY <3>2, <3>3, <3>4, <3>6
      <3> QED
        BY <3>5, <3>6
    <2>2. CASE k \notin keys
      BY <1>5, <2>2 DEF Commit
    <2> QED
      BY <2>1, <2>2
  <1>6. ASSUME NEW k \in Keys
        PROVE  EntryIsBounded(k)'
    <2>1. EntryIsBounded(k) /\ cache[k] \in Entries
      BY <1>1 DEF CacheInv
    <2>2. cache[k].value \in Versions /\ cache[k].value <= db[k]
      BY <2>1 DEF EntryIsBounded, Entries
    <2> QED
      BY <1>1, <1>5, <2>1, <2>2, CacheAssumption DEF EntryIsBounded, Entries
  <1>7. ReaderIsBounded'
    <2> SUFFICES ASSUME reader.pc = "store", NEW k \in reader.missing
                 PROVE  RowIsBounded(k)'
      BY DEF ReaderIsBounded, CacheInv
    <2>1. k \in Keys /\ reader.rows[k] \in Versions
      BY <1>1 DEF CacheInv, ReaderIsBounded, Readers, Rows
    <2>2. /\ RowIsBounded(k)
          /\ reader.since <= clock
      BY DEF CacheInv, ReaderIsBounded
    <2> QED
      BY <1>5, <2>1, <2>2 DEF RowIsBounded
  <1> QED
    BY <1>4, <1>6, <1>7 DEF CacheInv

\* Dropping entries leaves nothing stale.
LEMMA DropPreserves ==
  ASSUME CacheInv, NEW dropped,
         cache' = [k \in Keys |-> IF k \in dropped THEN NoEntry ELSE cache[k]],
         UNCHANGED <<clock, db, replacedAt>>
  PROVE  cache' \in [Keys -> Entries] /\ \A k \in Keys : EntryIsBounded(k)'
  <1>1. NoEntry \in Entries /\ db \in [Keys -> Versions] /\ cache \in [Keys -> Entries]
    BY CacheAssumption DEF CacheInv, CacheTypes, NoEntry, Entries, Versions
  <1>2. ASSUME NEW k \in Keys
        PROVE  EntryIsBounded(k)'
    <2>1. CASE k \in dropped
      <3>1. cache'[k] = NoEntry /\ db'[k] \in Versions
        BY <1>1, <2>1
      <3> QED
        BY <3>1, CacheAssumption DEF EntryIsBounded, NoEntry, Versions
    <2>2. CASE k \notin dropped
      BY <2>2 DEF CacheInv, EntryIsBounded
    <2> QED
      BY <2>1, <2>2
  <1> QED
    BY <1>1, <1>2

\* A reader stores what it read: current, or replaced after the query.
LEMMA StorePreserves ==
  ASSUME CacheInv, StoreRows
  PROVE  CacheInv'
  <1>1. /\ clock \in Nat
        /\ db \in [Keys -> Versions]
        /\ replacedAt \in [Keys -> [Versions -> Nat]]
        /\ cache \in [Keys -> Entries]
        /\ reader \in Readers
    BY DEF CacheInv, CacheTypes
  <1>2. /\ DOMAIN reader.rows = reader.missing
        /\ reader.since <= clock /\ clock <= reader.since + MaxLookup
        /\ \A k \in reader.missing : RowIsBounded(k)
    BY DEF CacheInv, ReaderIsBounded, StoreRows
  <1>3. \A k \in reader.missing : k \in Keys /\ reader.rows[k] \in Versions
    BY <1>1, <1>2 DEF Readers, Rows
  <1>4. /\ UNCHANGED <<clock, db, replacedAt, writer>>
        /\ reader' = NoRead
        /\ cache' = [k \in Keys |->
                       IF k \in reader.missing
                       THEN [value |-> reader.rows[k], expiresAt |-> clock + Ttl,
                             set |-> TRUE]
                       ELSE cache[k]]
    BY <1>2 DEF StoreRows, setCache
  <1>5. cache' \in [Keys -> Entries]
    BY <1>1, <1>3, <1>4, CacheAssumption DEF Entries
  <1>6. CacheTypes'
    BY <1>4, <1>5, NoReadIsReader DEF CacheInv, CacheTypes
  <1>7. ASSUME NEW k \in Keys
        PROVE  EntryIsBounded(k)'
    <2>1. CASE k \in reader.missing
      <3>1. /\ cache'[k].value = reader.rows[k]
            /\ cache'[k].expiresAt = clock + Ttl
        BY <1>4, <2>1
      <3>2. RowIsBounded(k) /\ reader.rows[k] \in Versions
        BY <1>2, <1>3, <2>1
      <3>3. reader.since \in Nat /\ replacedAt[k][reader.rows[k]] \in Nat
        BY <1>1, <3>2 DEF Readers
      <3> QED
        BY <1>1, <1>2, <1>4, <3>1, <3>2, <3>3, CacheAssumption
        DEF EntryIsBounded, RowIsBounded
    <2>2. CASE k \notin reader.missing
      BY <1>4, <2>2 DEF CacheInv, EntryIsBounded
    <2> QED
      BY <2>1, <2>2
  <1>8. ReaderIsBounded'
    BY <1>4 DEF ReaderIsBounded, NoRead
  <1> QED
    BY <1>6, <1>7, <1>8 DEF CacheInv

LEMMA NextCache == CacheInv /\ [ConfigNext]_configVars => CacheInv'
  <1> SUFFICES ASSUME CacheInv, [ConfigNext]_configVars PROVE CacheInv'
    OBVIOUS
  <1>1. ASSUME NEW keys \in SUBSET Keys, BeginRead(keys)
        PROVE  CacheInv'
    <2> DEFINE missing == {k \in keys : ~Live(cache[k])}
    <2>1. /\ cache' = [k \in Keys |-> IF k \in missing THEN NoEntry ELSE cache[k]]
          /\ UNCHANGED <<clock, db, replacedAt, writer>>
      BY <1>1 DEF BeginRead, getCached
    <2>2. /\ cache' \in [Keys -> Entries]
          /\ \A k \in Keys : EntryIsBounded(k)'
      BY <2>1, DropPreserves
    <2>3. <<>> \in Rows /\ clock \in Nat
      BY NoReadIsReader DEF NoRead, Readers, CacheInv, CacheTypes
    <2>4. reader' \in Readers /\ reader'.pc # "store"
      <3>1. CASE missing = {}
        BY <1>1, <3>1, NoReadIsReader DEF BeginRead, NoRead
      <3>2. CASE missing # {}
        BY <1>1, <2>3, <3>2 DEF BeginRead, Readers
      <3> QED
        BY <3>1, <3>2
    <2> QED
      BY <2>1, <2>2, <2>4 DEF CacheInv, CacheTypes, ReaderIsBounded
  <1>2. ASSUME NEW keys \in SUBSET Keys, CommitHere(keys)
        PROVE  CacheInv'
    BY <1>2, CommitPreserves DEF CommitHere
  <1>3. ASSUME NEW keys \in SUBSET Keys, CommitElsewhere(keys)
        PROVE  CacheInv'
    BY <1>3, CommitPreserves DEF CommitElsewhere, CacheInv, CacheTypes
  <1>4. CASE QueryRows
    <2>1. /\ clock \in Nat /\ db \in [Keys -> Versions] /\ reader \in Readers
          /\ reader.missing \in SUBSET Keys
      BY DEF CacheInv, CacheTypes, Readers
    <2> DEFINE rows == [k \in reader.missing |-> db[k]]
    <2>2. /\ reader'.pc = "store" /\ reader'.since = clock
          /\ reader'.missing = reader.missing /\ reader'.rows = rows
          /\ UNCHANGED <<clock, db, replacedAt, cache, writer>>
      BY <1>4, <2>1 DEF QueryRows, Readers
    <2>3. rows \in Rows
      BY <2>1 DEF Rows
    <2>4. reader' \in Readers
      BY <1>4, <2>1, <2>3 DEF QueryRows, Readers
    <2>5. ReaderIsBounded'
      <3>1. /\ DOMAIN rows = reader.missing
            /\ clock <= clock /\ clock <= clock + MaxLookup
        BY <2>1, CacheAssumption
      <3>2. ASSUME NEW k \in reader.missing
            PROVE  rows[k] <= db[k] /\ rows[k] = db[k]
        BY <2>1 DEF Versions
      <3> HIDE DEF rows
      <3>3. ASSUME NEW k \in reader.missing
            PROVE  RowIsBounded(k)'
        BY <2>2, <3>2 DEF RowIsBounded
      <3> QED
        BY <2>2, <3>1, <3>3 DEF ReaderIsBounded
    <2> QED
      BY <2>2, <2>4, <2>5 DEF CacheInv, CacheTypes, EntryIsBounded
  <1>5. CASE StoreRows
    BY <1>5, StorePreserves
  <1>6. CASE ReadFails
    BY <1>6, NoReadIsReader
    DEF ReadFails, CacheInv, CacheTypes, EntryIsBounded, ReaderIsBounded, NoRead
  <1>7. CASE invalidateConfigCache
    <2>1. PICK dropped :
             cache' = [k \in Keys |-> IF k \in dropped THEN NoEntry ELSE cache[k]]
      BY <1>7 DEF invalidateConfigCache
    <2>2. UNCHANGED <<clock, db, replacedAt, reader>> /\ writer' = {}
      BY <1>7 DEF invalidateConfigCache
    <2>3. /\ cache' \in [Keys -> Entries]
          /\ \A k \in Keys : EntryIsBounded(k)'
      BY <2>1, <2>2, DropPreserves
    <2> QED
      BY <2>2, <2>3 DEF CacheInv, CacheTypes, ReaderIsBounded, RowIsBounded
  <1>8. CASE Tick
    <2>1. /\ clock \in Nat /\ clock' = clock + 1
          /\ UNCHANGED <<db, replacedAt, cache, reader, writer>>
      BY <1>8 DEF Tick, CacheInv, CacheTypes
    <2>2. CacheTypes'
      BY <2>1 DEF CacheInv, CacheTypes
    <2>3. ASSUME NEW k \in Keys PROVE EntryIsBounded(k)'
      <3>1. EntryIsBounded(k) /\ cache[k].expiresAt \in Nat
        BY DEF CacheInv, CacheTypes, Entries
      <3> QED
        BY <2>1, <3>1, CacheAssumption DEF EntryIsBounded
    <2>4. ReaderIsBounded'
      <3> SUFFICES ASSUME reader.pc = "store"
                   PROVE  reader.since <= clock' /\ clock' <= reader.since + MaxLookup
        BY <2>1 DEF CacheInv, ReaderIsBounded, RowIsBounded
      <3>1. reader.since \in Nat /\ reader.since <= clock
        BY DEF CacheInv, CacheTypes, Readers, ReaderIsBounded
      <3>2. clock < reader.since + MaxLookup
        BY <1>8 DEF Tick
      <3> QED
        BY <2>1, <3>1, <3>2, CacheAssumption
    <2> QED
      BY <2>2, <2>3, <2>4 DEF CacheInv
  <1>9. CASE UNCHANGED configVars
    BY <1>9
    DEF configVars, CacheInv, CacheTypes, EntryIsBounded, ReaderIsBounded, RowIsBounded
  <1> QED
    BY <1>1, <1>2, <1>3, <1>4, <1>5, <1>6, <1>7, <1>8, <1>9 DEF ConfigNext

\* Whoever writes, whenever, and however readers and writers interleave: what
\* the cache answers was current no longer ago than an entry lives and a lookup
\* takes (system-config.ts:7-29, 47-77, 79-105).
THEOREM CachedSettingsAreFresh == ConfigSpec => []StalenessIsBounded
  <1>1. ConfigSpec => []CacheInv
    BY InitCache, NextCache, PTL DEF ConfigSpec
  <1> QED
    BY <1>1, CacheInvImplies, PTL
=============================================================================
