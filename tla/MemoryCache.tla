----------------------------- MODULE MemoryCache -----------------------------
(* One shard of the recursive resolver's cache (recursive/cache.go).  Get    *)
(* reads an entry under the read lock, the clock without a lock, and takes   *)
(* the write lock only to delete; Put runs under the write lock.             *)
EXTENDS Integers, FiniteSets, FiniteSetsExt

CONSTANTS
  Readers, Keys,
  Sections,    \* numbers of answer, authority and additional records offered
  Ttls, MaxSize, MaxRecords,
  MaxClock,    \* bound: the last moment
  None

VARIABLES clock, entries, pc, got, last

vars == <<clock, entries, pc, got, last>>

Init ==
  /\ clock = 0 /\ entries = [k \in {} |-> None]
  /\ pc = [r \in Readers |-> "idle"] /\ got = [r \in Readers |-> None]
  /\ last = None
-----------------------------------------------------------------------------
\* capEntryRecords: additional records go first, answers last.
capEntryRecords(s) ==
  LET trim == s.ans + s.auth + s.add - MaxRecords
      add == Min({s.add, trim})
      auth == Min({s.auth, trim - add})
      ans == Min({s.ans, trim - add - auth})
  IN  IF MaxRecords = 0 \/ trim <= 0 THEN s
      ELSE [ans |-> s.ans - ans, auth |-> s.auth - auth, add |-> s.add - add]

\* evictLocked: the expired entries, else the one that expires first.
evictLocked(now) ==
  LET kept == {k \in DOMAIN entries : entries[k].expiresAt > now}
      soonest == {k \in kept : \A j \in kept : entries[k].expiresAt <= entries[j].expiresAt}
  IN  IF Cardinality(kept) < MaxSize THEN {kept} ELSE {kept \ {k} : k \in soonest}

Full(k) == k \notin DOMAIN entries /\ MaxSize > 0 /\ Cardinality(DOMAIN entries) >= MaxSize

Put(k, s, ttl) ==
  /\ \E kept \in IF Full(k) THEN evictLocked(clock) ELSE {DOMAIN entries} :
       entries' = [j \in kept \cup {k} |->
                     IF j = k THEN [rec |-> capEntryRecords(s), expiresAt |-> clock + ttl]
                     ELSE entries[j]]
  /\ UNCHANGED <<clock, pc, got, last>>

\* Get: the lookup under the read lock.
GetRead(r, k) ==
  /\ pc[r] = "idle"
  /\ IF k \in DOMAIN entries
     THEN /\ pc' = [pc EXCEPT ![r] = "read"]
          /\ got' = [got EXCEPT ![r] = [key |-> k, entry |-> entries[k], now |-> None]]
          /\ last' = None
     ELSE last' = None /\ UNCHANGED <<pc, got>>
  /\ UNCHANGED <<clock, entries>>

\* Get: the clock, and the hit with what is left of the TTL.
GetTime(r) ==
  /\ pc[r] = "read"
  /\ LET left == got[r].entry.expiresAt - clock
     IN  IF left <= 0
         THEN /\ got' = [got EXCEPT ![r].now = clock] /\ pc' = [pc EXCEPT ![r] = "expired"]
              /\ UNCHANGED last
         ELSE /\ last' = [rec |-> got[r].entry.rec, ttl |-> left]
              /\ got' = [got EXCEPT ![r] = None] /\ pc' = [pc EXCEPT ![r] = "idle"]
  /\ UNCHANGED <<clock, entries>>

\* Get: the second look, under the write lock, before the entry is deleted.
StillExpired_Assumed(k, now) == k \in DOMAIN entries
StillExpired(k, now) == IF k \in DOMAIN entries THEN entries[k].expiresAt <= now ELSE FALSE

GetDelete(r) ==
  /\ pc[r] = "expired"
  /\ entries' = [j \in {i \in DOMAIN entries :
                          ~(i = got[r].key /\ StillExpired(i, got[r].now))} |-> entries[j]]
  /\ got' = [got EXCEPT ![r] = None] /\ pc' = [pc EXCEPT ![r] = "idle"]
  /\ UNCHANGED <<clock, last>>

Tick == clock < MaxClock /\ clock' = clock + 1 /\ UNCHANGED <<entries, pc, got, last>>

Next ==
  \/ \E k \in Keys, s \in Sections, t \in Ttls : Put(k, s, t)
  \/ \E r \in Readers : GetTime(r) \/ GetDelete(r) \/ \E k \in Keys : GetRead(r, k)
  \/ Tick

Spec == Init /\ [][Next]_vars
-----------------------------------------------------------------------------
(* Properties. *)

\* Apart from eviction by a Put, which always stores an entry, an entry leaves the
\* cache only when it has expired: a slow Get never deletes what a Put has just
\* stored under its key (cache.go:288-291).
FreshKept ==
  [][\A k \in DOMAIN entries \ DOMAIN entries' :
       \/ entries[k].expiresAt <= clock
       \/ \E j \in DOMAIN entries' : j \notin DOMAIN entries]_vars

\* The shard stays within its share of the cap, and a trimmed entry within the
\* records allowed.
Bounded ==
  /\ MaxSize > 0 => Cardinality(DOMAIN entries) <= MaxSize
  /\ MaxRecords > 0 => \A k \in DOMAIN entries : LET r == entries[k].rec IN
       r.ans + r.auth + r.add <= MaxRecords
=============================================================================
