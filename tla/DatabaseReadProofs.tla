------------------------- MODULE DatabaseReadProofs -------------------------
(***************************************************************************)
(* What the database returns and recovers, for every set of keys, values   *)
(* and threads, every record size, log length and number of restarts: log  *)
(* sequence numbers, reads of a session's keys, and the file after replay. *)
(***************************************************************************)
EXTENDS DatabaseProofs

-----------------------------------------------------------------------------
\* Log sequence numbers.

\* The constructor counts the records it has replayed; later the last number
\* given out is the number of records, unless a record can not be read.
LsnCounts ==
    /\ status = "down" => current_lsn = 0 /\ cursor = LogStart
    /\ status = "replay" =>
          /\ current_lsn = Replayed /\ Replayed <= Len(log)
          /\ \A j \in 1 .. Replayed : log[j].valid
    /\ status \in {"rebuild", "up"} =>
          /\ \A i \in ReadablePrefix : i <= current_lsn
          /\ (\A j \in 1 .. Len(log) : log[j].valid) => current_lsn = Len(log)
    /\ \A i \in ReadablePrefix : log[i].lsn = i

\* The log after a record is appended to it.
LEMMA LogAppended ==
    ASSUME NEW l \in Seq(WalRecords), NEW r \in WalRecords
    PROVE  /\ Len(Append(l, r)) = Len(l) + 1
           /\ Len(l) \in Nat
           /\ DOMAIN Append(l, r) = 1 .. Len(l) + 1
           /\ DOMAIN l = 1 .. Len(l)
           /\ \A i \in 1 .. Len(l) : Append(l, r)[i] = l[i]
           /\ Append(l, r)[Len(l) + 1] = r
  OBVIOUS

\* What an appended record holds.
LEMMA LogRecordFacts ==
    ASSUME current_lsn \in Nat, NEW k \in Keys, NEW v \in Values, NEW whole \in BOOLEAN
    PROVE  /\ LogRecord(k, v, whole) \in WalRecords
           /\ LogRecord(k, v, whole).lsn = current_lsn + 1
           /\ LogRecord(k, v, whole).key = k /\ LogRecord(k, v, whole).value = v
           /\ LogRecord(k, v, whole).valid <=> whole /\ LengthFits(v)
<1> DEFINE b == whole /\ LengthFits(v)
<1>1. b \in BOOLEAN
  BY DEF LengthFits
<1>2. LogRecord(k, v, whole) = [lsn |-> current_lsn + 1, key |-> k, value |-> v, valid |-> b]
  BY DEF LogRecord
<1> HIDE DEF b
<1>3. LogRecord(k, v, whole).valid = b
  BY <1>1, <1>2
<1>4. /\ LogRecord(k, v, whole) \in WalRecords
      /\ LogRecord(k, v, whole).lsn = current_lsn + 1
      /\ LogRecord(k, v, whole).key = k /\ LogRecord(k, v, whole).value = v
  BY <1>1, <1>2 DEF WalRecords
<1> QED
  BY <1>3, <1>4, Zenon DEF b

\* Logging a record in a running database gives it the next number.
LEMMA LsnAppend ==
    ASSUME TypeOK, LsnCounts, status = "up", status' = "up",
           NEW k \in Keys, NEW v \in Values, wal_append(k, v)
    PROVE  LsnCounts'
<1> DEFINE r == LogRecord(k, v, TRUE)
           n == Len(log)
<1>1. log \in Seq(WalRecords) /\ current_lsn \in Nat
  BY TypeParts
<1>2. r \in WalRecords /\ r.lsn = current_lsn + 1
  BY <1>1, LogRecordFacts
<1>3. log' = Append(log, r) /\ current_lsn' = current_lsn + 1
  BY DEF wal_append
<1> HIDE DEF r
<1>4. /\ Len(log') = n + 1 /\ n \in Nat /\ DOMAIN log' = 1 .. n + 1 /\ DOMAIN log = 1 .. n
      /\ \A i \in 1 .. n : log'[i] = log[i]
      /\ log'[n + 1] = r
  BY <1>1, <1>2, <1>3, LogAppended
<1> HIDE DEF n
<1>5. ASSUME \A j \in 1 .. n : log'[j].valid
      PROVE  current_lsn = n
  BY <1>4, <1>5 DEF LsnCounts, n
<1>6. ASSUME NEW i \in ReadablePrefix'
      PROVE  log'[i].lsn = i /\ i <= current_lsn'
  <2>1. i \in 1 .. n + 1 /\ \A j \in 1 .. i : log'[j].valid
    BY <1>4 DEF ReadablePrefix
  <2>2. CASE i = n + 1
    <3>1. \A j \in 1 .. n : log'[j].valid
      BY <1>4, <2>1, <2>2
    <3> QED
      BY <1>1, <1>2, <1>3, <1>4, <1>5, <2>2, <3>1
  <2>3. CASE i \in 1 .. n
    <3>1. \A j \in 1 .. i : log[j].valid
      BY <1>4, <2>1, <2>3
    <3>2. i \in ReadablePrefix
      BY <1>4, <2>3, <3>1 DEF ReadablePrefix
    <3>3. log[i].lsn = i /\ i <= current_lsn
      BY <3>2 DEF LsnCounts
    <3> QED
      BY <1>1, <1>3, <1>4, <2>3, <3>3
  <2> QED
    BY <1>4, <2>1, <2>2, <2>3
<1>7. (\A j \in 1 .. n + 1 : log'[j].valid) => current_lsn' = n + 1
  BY <1>3, <1>4, <1>5
<1> QED
  BY <1>4, <1>6, <1>7 DEF LsnCounts

\* A process that ends leaves the numbers of the readable records as they are;
\* a record torn by the crash is not readable.
LEMMA LsnVanish ==
    ASSUME TypeOK, LsnCounts, Vanish,
           \/ log' = log
           \/ \E k \in Keys, v \in Values : wal_tear(k, v)
    PROVE  LsnCounts'
<1>1. log \in Seq(WalRecords) /\ current_lsn \in Nat
  BY TypeParts
<1>2. status' = "down" /\ current_lsn' = 0 /\ cursor' = LogStart
  BY DEF Vanish
<1>3. CASE log' = log
  BY <1>2, <1>3 DEF LsnCounts, ReadablePrefix
<1>4. CASE \E k \in Keys, v \in Values : wal_tear(k, v)
  <2>1. PICK k \in Keys, v \in Values : wal_tear(k, v)
    BY <1>4
  <2> DEFINE r == LogRecord(k, v, FALSE)
             n == Len(log)
  <2>2. r \in WalRecords /\ ~ r.valid
    BY <1>1, LogRecordFacts
  <2>3. log' = Append(log, r)
    BY <2>1 DEF wal_tear
  <2> HIDE DEF r
  <2>4. /\ n \in Nat /\ DOMAIN log' = 1 .. n + 1 /\ DOMAIN log = 1 .. n
        /\ \A i \in 1 .. n : log'[i] = log[i]
        /\ log'[n + 1] = r
    BY <1>1, <2>2, <2>3, LogAppended
  <2> HIDE DEF n
  <2>5. ASSUME NEW i \in ReadablePrefix'
        PROVE  log'[i].lsn = i
    <3>1. i \in 1 .. n + 1 /\ \A j \in 1 .. i : log'[j].valid
      BY <2>4 DEF ReadablePrefix
    <3>2. i # n + 1
      BY <2>2, <2>4, <3>1
    <3>3. i \in 1 .. n /\ \A j \in 1 .. i : log[j].valid
      BY <2>4, <3>1, <3>2
    <3>4. i \in ReadablePrefix
      BY <2>4, <3>3 DEF ReadablePrefix
    <3> QED
      BY <2>4, <3>3, <3>4 DEF LsnCounts
  <2> QED
    BY <1>2, <2>5 DEF LsnCounts
<1> QED
  BY <1>3, <1>4

\* The constructor takes over the number of every record it reads.
LEMMA LsnReplay ==
    ASSUME TypeOK, LsnCounts, replay_record
    PROVE  LsnCounts'
<1> DEFINE n == Replayed + 1
<1>1. log \in Seq(WalRecords) /\ current_lsn \in Nat /\ cursor \in RecordIds /\ DOMAIN log = 1 .. Len(log)
  BY TypeParts DEF RestTypeOK
<1>2. /\ status = "replay" /\ status' = status /\ log' = log
      /\ n \in DOMAIN log /\ log[n].valid
      /\ current_lsn' = IF log[n].lsn > current_lsn THEN log[n].lsn ELSE current_lsn
  BY DEF replay_record, Readable, wal_replayed
<1>3. Replayed' = n /\ n \in Nat /\ Replayed \in Nat
  <2>1. cursor' = [cursor EXCEPT !.slot_id = @ + 1]
    BY Zenon DEF replay_record
  <2> QED
    BY <1>1, <2>1 DEF Replayed, RecordIds
<1>4. current_lsn = Replayed /\ \A j \in 1 .. Replayed : log[j].valid
  BY <1>2 DEF LsnCounts
<1> HIDE DEF Replayed
<1>5. \A j \in 1 .. n : log[j].valid
  BY <1>2, <1>3, <1>4
<1>6. n \in ReadablePrefix
  BY <1>2, <1>5 DEF ReadablePrefix
<1>7. log[n].lsn = n
  BY <1>6 DEF LsnCounts
<1>8. current_lsn' = n
  BY <1>2, <1>3, <1>4, <1>7
<1>9. n <= Len(log)
  BY <1>1, <1>2
<1>10. ReadablePrefix' = ReadablePrefix
  BY <1>2 DEF ReadablePrefix
<1> QED
  BY <1>2, <1>3, <1>5, <1>8, <1>9, <1>10 DEF LsnCounts

\* Replay ends at the end of the log or at the first unreadable record.
LEMMA LsnReplayEnd ==
    ASSUME TypeOK, LsnCounts, replay_end
    PROVE  LsnCounts'
<1> DEFINE n == Replayed + 1
<1>1. log \in Seq(WalRecords) /\ current_lsn \in Nat /\ cursor \in RecordIds
      /\ DOMAIN log = 1 .. Len(log) /\ Len(log) \in Nat
  BY TypeParts DEF RestTypeOK
<1>2. /\ status = "replay" /\ status' \in {"rebuild", "up"} /\ log' = log /\ current_lsn' = current_lsn
      /\ ~ (n \in DOMAIN log /\ log[n].valid)
  BY DEF replay_end, Readable
<1>3. current_lsn = Replayed /\ Replayed <= Len(log) /\ Replayed \in Nat /\ n = current_lsn + 1
  BY <1>1, <1>2 DEF LsnCounts
<1>4. ReadablePrefix' = ReadablePrefix /\ \A i \in ReadablePrefix : log[i].lsn = i
  BY <1>2 DEF ReadablePrefix, LsnCounts
<1> HIDE DEF Replayed, n
<1>5. ASSUME NEW i \in ReadablePrefix PROVE i <= current_lsn
  <2>1. i \in 1 .. Len(log) /\ \A j \in 1 .. i : log[j].valid
    BY <1>1 DEF ReadablePrefix
  <2>2. ASSUME ~ (i <= current_lsn) PROVE FALSE
    <3>1. n \in 1 .. i /\ n \in 1 .. Len(log)
      BY <1>1, <1>3, <2>1, <2>2
    <3> QED
      BY <1>1, <1>2, <2>1, <3>1
  <2> QED
    BY <2>2
<1>6. (\A j \in 1 .. Len(log) : log[j].valid) => current_lsn = Len(log)
  <2>1. current_lsn # Len(log) => n \in 1 .. Len(log)
    <3>1. current_lsn <= Len(log) /\ Len(log) \in Nat /\ current_lsn \in Nat /\ n = current_lsn + 1
      BY <1>1, <1>3
    <3> QED
      BY <3>1
  <2> QED
    BY <1>1, <1>2, <2>1
<1> QED
  BY <1>2, <1>4, <1>5, <1>6 DEF LsnCounts

\* Every step keeps the count.
LEMMA LsnStep == Inv /\ LsnCounts /\ [Next]_vars => LsnCounts'
<1> SUFFICES ASSUME Inv, LsnCounts, [Next]_vars PROVE LsnCounts'
  OBVIOUS
<1>1. TypeOK
  BY DEF Inv
<1>2. CASE open
  <2>1. /\ status = "down" /\ status' = "replay" /\ UNCHANGED <<log, current_lsn, cursor>>
    BY <1>2 DEF open
  <2>2. current_lsn' = 0 /\ Replayed' = 0
    BY <2>1 DEF LsnCounts, Replayed, LogStart
  <2>3. Len(log') \in Nat
    BY <1>1, <2>1, TypeParts
  <2>4. \A i \in ReadablePrefix' : log'[i].lsn = i
    BY <2>1 DEF LsnCounts, ReadablePrefix
  <2> QED
    BY <2>1, <2>2, <2>3, <2>4 DEF LsnCounts
<1>3. CASE replay_record
  BY <1>1, <1>3, LsnReplay
<1>4. CASE replay_end
  BY <1>1, <1>4, LsnReplayEnd
<1>5. CASE replay_throw \/ close \/ crash \/ (\E k \in Keys, v \in Values : crash_tear(k, v))
  <2>1. Vanish /\ (log' = log \/ \E k \in Keys, v \in Values : wal_tear(k, v))
    BY <1>5 DEF replay_throw, close, crash, crash_tear
  <2> QED
    BY <1>1, <2>1, LsnVanish
<1>6. ASSUME NEW t \in Threads, NEW k \in Keys, NEW v \in Values, put_log(t, k, v)
      PROVE  LsnCounts'
  BY <1>1, <1>6, LsnAppend DEF put_log
<1>7. CASE \/ rebuild_slot \/ rebuild_page \/ rebuild_end
           \/ \E t \in Threads : \/ \E k \in Keys : get_hit(t, k) \/ get_read(t, k)
                                 \/ put_store(t) \/ put_throw(t) \/ get_fill(t)
  <2>1. /\ status \in {"rebuild", "up"} /\ status' \in {"rebuild", "up"}
        /\ UNCHANGED <<log, current_lsn>>
    BY <1>7 DEF rebuild_slot, rebuild_page, rebuild_end, get_hit, get_read, put_store, put_throw,
                get_fill, volatile, Inv, CallsHoldRecords
  <2> QED
    BY <2>1 DEF LsnCounts, ReadablePrefix
<1>8. CASE UNCHANGED vars
  BY <1>8 DEF vars, volatile, LsnCounts, ReadablePrefix, Replayed
<1> QED
  BY <1>2, <1>3, <1>4, <1>5, <1>6, <1>7, <1>8 DEF Next, Construct

\* An empty log has no sequence numbers.
LEMMA LsnInit == Init => LsnCounts
  BY DEF Init, LsnCounts, ReadablePrefix

\* The numbers of the readable log records count up from 1 across restarts,
\* crashes and torn records, and the database continues from the last one.
THEOREM LsnsConsecutive == Spec => []LsnConsecutive
<1>1. LsnCounts => LsnConsecutive
  BY DEF LsnCounts, LsnConsecutive
<1> QED
  BY <1>1, LsnInit, LsnStep, Invariance, PTL DEF Spec
-----------------------------------------------------------------------------
\* The record cache.

\* One list behind another.
LEMMA ConcatFacts ==
    ASSUME NEW S, NEW a \in Seq(S), NEW b \in Seq(S)
    PROVE  /\ a \o b \in Seq(S) /\ Len(a \o b) = Len(a) + Len(b)
           /\ \A i \in 1 .. Len(a) + Len(b) : (a \o b)[i] = IF i <= Len(a) THEN a[i] ELSE b[i - Len(a)]
  OBVIOUS

\* Removing an element leaves the others in order.
LEMMA RemoveAtFacts ==
    ASSUME NEW S, NEW s \in Seq(S), NEW p \in DOMAIN s
    PROVE  /\ RemoveAt(s, p) \in Seq(S)
           /\ Len(RemoveAt(s, p)) = Len(s) - 1
           /\ \A i \in 1 .. Len(s) - 1 : RemoveAt(s, p)[i] = IF i < p THEN s[i] ELSE s[i + 1]
<1> DEFINE a == SubSeq(s, 1, p - 1)
           b == SubSeq(s, p + 1, Len(s))
           n == Len(s)
<1>1. n \in Nat /\ p \in 1 .. n
  OBVIOUS
<1>2. a \in Seq(S) /\ Len(a) = p - 1 /\ \A i \in 1 .. p - 1 : a[i] = s[i]
  BY <1>1
<1>3. b \in Seq(S) /\ Len(b) = n - p /\ \A i \in 1 .. n - p : b[i] = s[p + i]
  BY <1>1
<1>4. RemoveAt(s, p) = a \o b
  BY DEF RemoveAt
<1> HIDE DEF a, b, n
<1>5. a \o b \in Seq(S) /\ Len(a \o b) = n - 1
  <2>1. a \o b \in Seq(S) /\ Len(a \o b) = Len(a) + Len(b)
    BY <1>2, <1>3, ConcatFacts, Zenon
  <2> QED
    BY <1>1, <1>2, <1>3, <2>1
<1>6. \A i \in 1 .. n - 1 : (a \o b)[i] = IF i < p THEN a[i] ELSE b[i - (p - 1)]
  <2>0. \A i \in 1 .. Len(a) + Len(b) : (a \o b)[i] = IF i <= Len(a) THEN a[i] ELSE b[i - Len(a)]
    BY <1>2, <1>3, ConcatFacts, Zenon
  <2>1. \A i \in 1 .. (p - 1) + (n - p) : (a \o b)[i] = IF i <= p - 1 THEN a[i] ELSE b[i - (p - 1)]
    <3>1. Len(a) = p - 1 /\ Len(b) = n - p
      BY <1>2, <1>3
    <3> QED
      BY <2>0, <3>1, Zenon
  <2>2. (p - 1) + (n - p) = n - 1 /\ \A i \in 1 .. n - 1 : i <= p - 1 <=> i < p
    BY <1>1
  <2> QED
    BY <2>1, <2>2
<1>7. ASSUME NEW i \in 1 .. n - 1
      PROVE  (a \o b)[i] = IF i < p THEN s[i] ELSE s[i + 1]
  <2>1. CASE i < p
    BY <1>1, <1>2, <1>6, <2>1
  <2>2. CASE ~ (i < p)
    <3>1. i - (p - 1) \in 1 .. n - p /\ p + (i - (p - 1)) = i + 1
      BY <1>1, <2>2
    <3>2. b[i - (p - 1)] = s[i + 1]
      BY <1>3, <3>1
    <3> QED
      BY <1>6, <2>2, <3>2
  <2> QED
    BY <2>1, <2>2
<1> QED
  BY <1>4, <1>5, <1>7 DEF n

\* An entry in front of a list.
LEMMA FrontFacts ==
    ASSUME NEW S, NEW s \in Seq(S), NEW e \in S
    PROVE  /\ <<e>> \o s \in Seq(S) /\ Len(<<e>> \o s) = Len(s) + 1
           /\ (<<e>> \o s)[1] = e
           /\ \A i \in 2 .. Len(s) + 1 : (<<e>> \o s)[i] = s[i - 1]
  OBVIOUS

\* No key is cached twice.
UniqueKeys(list) == \A i, j \in DOMAIN list : list[i].key = list[j].key => i = j

\* Every entry of new but those equal to e is one of list, of another key.
EntriesFrom(new, list, e) ==
    \A i \in DOMAIN new : \/ new[i] = e
                          \/ new[i].key # e.key /\ \E j \in DOMAIN list : new[i] = list[j]

\* What moving to the front does to a list without one of its entries.
LEMMA MoveToFront ==
    ASSUME NEW list \in Seq(Entries), UniqueKeys(list),
           NEW p \in DOMAIN list, NEW e \in Entries,
           \A i \in DOMAIN list : i # p => list[i].key # e.key
    PROVE  /\ UniqueKeys(<<e>> \o RemoveAt(list, p))
           /\ EntriesFrom(<<e>> \o RemoveAt(list, p), list, e)
<1> DEFINE n == Len(list)
           r == RemoveAt(list, p)
           w == <<e>> \o r
           O(i) == IF i - 1 < p THEN i - 1 ELSE i
<1>1. n \in Nat /\ p \in 1 .. n /\ DOMAIN list = 1 .. n
  OBVIOUS
<1>2. r \in Seq(Entries) /\ Len(r) = n - 1 /\ \A i \in 1 .. n - 1 : r[i] = IF i < p THEN list[i] ELSE list[i + 1]
  BY RemoveAtFacts
<1> HIDE DEF r, n
<1>3. w \in Seq(Entries) /\ Len(w) = n /\ w[1] = e /\ \A i \in 2 .. n : w[i] = r[i - 1]
  <2>1. /\ w \in Seq(Entries) /\ Len(w) = Len(r) + 1 /\ w[1] = e
        /\ \A i \in 2 .. Len(r) + 1 : w[i] = r[i - 1]
    BY <1>2, FrontFacts
  <2>2. Len(r) + 1 = n
    BY <1>1, <1>2
  <2> QED
    BY <2>1, <2>2
<1> HIDE DEF w
<1>4. DOMAIN w = 1 .. n
  BY <1>3
<1>5. ASSUME NEW i \in 2 .. n
      PROVE  w[i] = list[O(i)] /\ O(i) \in DOMAIN list /\ O(i) # p
  <2>1. i - 1 \in 1 .. n - 1 /\ (i - 1) + 1 = i
    BY <1>1
  <2>2. w[i] = IF i - 1 < p THEN list[i - 1] ELSE list[i]
    BY <1>2, <1>3, <2>1
  <2> QED
    BY <1>1, <2>1, <2>2
<1>6. \A i, j \in 2 .. n : O(i) = O(j) => i = j
  BY <1>1
<1> HIDE DEF O
<1>7. \A i \in 2 .. n : w[i].key # e.key
  BY <1>5
<1>8. UniqueKeys(w)
  <2> SUFFICES ASSUME NEW i \in 1 .. n, NEW j \in 1 .. n, w[i].key = w[j].key PROVE i = j
    BY <1>4 DEF UniqueKeys
  <2>1. CASE i = 1 \/ j = 1
    <3>1. i # 1 => i \in 2 .. n
      BY <1>1
    <3>2. j # 1 => j \in 2 .. n
      BY <1>1
    <3> QED
      BY <1>3, <1>7, <2>1, <3>1, <3>2
  <2>2. CASE i # 1 /\ j # 1
    <3>1. i \in 2 .. n /\ j \in 2 .. n
      BY <1>1, <2>2
    <3>2. O(i) = O(j)
      BY <1>5, <3>1 DEF UniqueKeys
    <3> QED
      BY <1>6, <3>1, <3>2
  <2> QED
    BY <2>1, <2>2
<1>9. EntriesFrom(w, list, e)
  <2> SUFFICES ASSUME NEW i \in 1 .. n
               PROVE  w[i] = e \/ (w[i].key # e.key /\ \E j \in DOMAIN list : w[i] = list[j])
    BY <1>4 DEF EntriesFrom
  <2>1. CASE i = 1
    BY <1>3, <2>1
  <2>2. CASE i # 1
    <3>1. i \in 2 .. n
      BY <1>1, <2>2
    <3> QED
      BY <1>5, <1>7, <3>1
  <2> QED
    BY <2>1, <2>2
<1> QED
  BY <1>8, <1>9 DEF w, r

\* LruCache::put: the key's only entry is the new one, the others were there.
LEMMA CachePutFacts ==
    ASSUME NEW list \in Seq(Entries), UniqueKeys(list), NEW k \in Keys, NEW v \in Values
    PROVE  /\ UniqueKeys(CachePut(list, k, v))
           /\ EntriesFrom(CachePut(list, k, v), list, Entry(k, v))
<1> DEFINE e == Entry(k, v)
<1>1. e \in Entries /\ e.key = k
  BY DEF Entry, Entries
<1> HIDE DEF e
<1>2. CASE HasKey(list, k)
  <2> DEFINE p == PositionOf(list, k)
  <2>1. p \in DOMAIN list /\ list[p].key = k
    BY <1>2 DEF HasKey, PositionOf
  <2> HIDE DEF p
  <2>2. \A i \in DOMAIN list : i # p => list[i].key # e.key
    BY <1>1, <2>1 DEF UniqueKeys
  <2>3. CachePut(list, k, v) = <<e>> \o RemoveAt(list, p)
    BY <1>2 DEF CachePut, e, p
  <2> QED
    BY <1>1, <2>1, <2>2, <2>3, MoveToFront DEF e
<1>3. CASE ~ HasKey(list, k) /\ Len(list) >= RecordCacheSize
  <2>1. Len(list) \in DOMAIN list
    BY <1>3, RecordCacheAssumption
  <2>2. \A i \in DOMAIN list : i # Len(list) => list[i].key # e.key
    BY <1>1, <1>3 DEF HasKey
  <2>3. CachePut(list, k, v) = <<e>> \o RemoveAt(list, Len(list))
    BY <1>3 DEF CachePut, e
  <2> QED
    BY <1>1, <2>1, <2>2, <2>3, MoveToFront DEF e
<1>4. CASE ~ HasKey(list, k) /\ ~ (Len(list) >= RecordCacheSize)
  <2> DEFINE w == <<e>> \o list
             n == Len(list)
  <2>1. /\ n \in Nat /\ DOMAIN list = 1 .. n /\ w \in Seq(Entries) /\ Len(w) = n + 1 /\ w[1] = e
        /\ \A i \in 2 .. n + 1 : w[i] = list[i - 1]
    BY <1>1, FrontFacts
  <2> HIDE DEF w, n
  <2>2. DOMAIN w = 1 .. n + 1
    BY <2>1
  <2>3. ASSUME NEW i \in 1 .. n + 1, i # 1
        PROVE  i - 1 \in DOMAIN list /\ w[i] = list[i - 1] /\ w[i].key # k
    <3>1. i \in 2 .. n + 1 /\ i - 1 \in 1 .. n
      BY <2>1, <2>3
    <3> QED
      BY <1>4, <2>1, <3>1 DEF HasKey
  <2>4. UniqueKeys(w)
    <3> SUFFICES ASSUME NEW i \in 1 .. n + 1, NEW j \in 1 .. n + 1, w[i].key = w[j].key PROVE i = j
      BY <2>2 DEF UniqueKeys
    <3>1. CASE i = 1 \/ j = 1
      BY <1>1, <2>1, <2>3, <3>1
    <3>2. CASE i # 1 /\ j # 1
      <4>1. i - 1 = j - 1
        BY <2>3, <3>2 DEF UniqueKeys
      <4> QED
        BY <2>1, <4>1
    <3> QED
      BY <3>1, <3>2
  <2>5. EntriesFrom(w, list, e)
    BY <1>1, <2>1, <2>2, <2>3 DEF EntriesFrom
  <2>6. CachePut(list, k, v) = w
    BY <1>4 DEF CachePut, w, e
  <2> QED
    BY <2>4, <2>5, <2>6 DEF e
<1> QED
  BY <1>2, <1>3, <1>4

\* LruCache::get on a hit: the same entries.
LEMMA CacheTouchFacts ==
    ASSUME NEW list \in Seq(Entries), UniqueKeys(list), NEW k \in Keys, HasKey(list, k)
    PROVE  /\ UniqueKeys(CacheTouch(list, k))
           /\ \A i \in DOMAIN CacheTouch(list, k) : \E j \in DOMAIN list : CacheTouch(list, k)[i] = list[j]
<1> DEFINE p == PositionOf(list, k)
           w == CacheTouch(list, k)
<1>1. p \in DOMAIN list /\ list[p] \in Entries
  BY DEF HasKey, PositionOf
<1>2. w = <<list[p]>> \o RemoveAt(list, p)
  BY DEF CacheTouch
<1> HIDE DEF p, w
<1>3. \A i \in DOMAIN list : i # p => list[i].key # list[p].key
  BY <1>1 DEF UniqueKeys
<1>4. UniqueKeys(w) /\ EntriesFrom(w, list, list[p])
  BY <1>1, <1>2, <1>3, MoveToFront
<1>5. \A i \in DOMAIN w : \E j \in DOMAIN list : w[i] = list[j]
  BY <1>1, <1>4 DEF EntriesFrom
<1> QED
  BY <1>4, <1>5 DEF w
-----------------------------------------------------------------------------
\* Reads of the keys put in this session.

\* Only put adds to the session, in a running database; the record ids of its
\* keys lie behind the mapped pages, so only the cache can answer for them,
\* with the value put last; and a value read from the file is never on its way
\* into the cache for such a key, since put waits for the readers to leave.
SessionFresh ==
    /\ status # "up" => session = {}
    /\ UniqueKeys(cache)
    /\ \A k \in session : mapped <= index[k].page_id
    /\ \A k \in session : \A i \in DOMAIN cache : cache[i].key = k => cache[i].value = acked[k]
    /\ \A t \in Threads : pc[t] = "fill" => arg[t].key \notin session
    /\ \A t, u \in Threads : pc[t] = "store" /\ u # t => pc[u] = "idle"

\* A key whose record id lies behind the mapped pages is not found in them.
LEMMA NotFound ==
    ASSUME TypeOK, NEW k \in Keys, mapped <= index[k].page_id
    PROVE  ~ Found(k)
<1>1. mapped \in Nat /\ index[k] \in RecordIds \cup {NoRid}
  BY TypeParts DEF RestTypeOK
<1>2. index[k].page_id \in Int
  BY <1>1 DEF RecordIds, NoRid
<1>3. ~ (index[k].page_id < mapped)
  BY <1>1, <1>2
<1> QED
  BY <1>3 DEF Found, Reads

\* The record id of a new record lies behind the mapped pages.
LEMMA AppendedBehind ==
    ASSUME Inv, status # "down", NEW k \in Keys, NEW v \in Values,
           append_here(k, v) \/ append_next(k, v)
    PROVE  AppendedRid \in RecordIds /\ mapped <= AppendedRid.page_id /\ AppendKeeps
<1>1. /\ file \in Seq(Seq(SlotEntries)) /\ writer \in WriterPages /\ RestTypeOK
      /\ writer.page_id = Len(file) /\ PagesWellFormed
  BY TypeParts DEF Inv, WriterAligned
<1>2. AppendKeeps /\ AppendedRid \in RecordIds
  BY <1>1, FillPage, NextPage
<1>3. AppendedRid.page_id = Len(file') /\ Len(file) <= Len(file')
  BY <1>2 DEF AppendKeeps, AppendedRid
<1>4. mapped <= Len(file) /\ mapped \in Nat /\ Len(file) \in Nat /\ Len(file') \in Nat
  BY <1>1, <1>2 DEF Inv, MappedInFile, RestTypeOK, AppendKeeps
<1>5. mapped <= AppendedRid.page_id
  BY <1>3, <1>4
<1> QED
  BY <1>2, <1>5

\* put stores its record.
LEMMA FreshStore ==
    ASSUME Inv, SessionFresh, NEW t \in Threads, put_store(t)
    PROVE  SessionFresh'
<1> DEFINE k == arg[t].key
           v == arg[t].value
<1>1. RestTypeOK /\ pc[t] = "store" /\ status = "up" /\ arg[t] \in Entries
  BY TypeParts DEF put_store, Inv, CallsHoldRecords
<1>2. k \in Keys /\ v \in Values
  BY <1>1 DEF Entries
<1>3. /\ append_here(k, v) \/ append_next(k, v)
      /\ index' = [index EXCEPT ![k] = AppendedRid]
      /\ cache' = CachePut(cache, k, v)
      /\ acked' = [acked EXCEPT ![k] = v]
      /\ session' = session \cup {k}
      /\ pc' = [pc EXCEPT ![t] = "idle"]
      /\ mapped' = mapped /\ status' = status
  BY DEF put_store, Publish, Returns
<1> HIDE DEF k, v
<1>4. mapped <= AppendedRid.page_id
  BY <1>1, <1>2, <1>3, AppendedBehind
<1>5. /\ cache \in Seq(Entries) /\ index \in [Keys -> RecordIds \cup {NoRid}]
      /\ acked \in [Keys -> Values \cup {NoValue}] /\ session \subseteq Keys
      /\ pc \in [Threads -> {"idle", "store", "fill"}]
  BY <1>1 DEF RestTypeOK
<1>6. UniqueKeys(cache') /\ EntriesFrom(cache', cache, Entry(k, v))
  BY <1>2, <1>3, <1>5, CachePutFacts DEF SessionFresh
<1>7. Entry(k, v).key = k /\ Entry(k, v).value = v
  BY DEF Entry
<1>8. \A j \in session' : mapped' <= index'[j].page_id
  BY <1>2, <1>3, <1>4, <1>5 DEF SessionFresh
<1>9. ASSUME NEW j \in session', NEW i \in DOMAIN cache', cache'[i].key = j
      PROVE  cache'[i].value = acked'[j]
  <2>1. CASE cache'[i] = Entry(k, v)
    BY <1>2, <1>3, <1>5, <1>7, <1>9, <2>1
  <2>2. CASE cache'[i].key # k /\ \E m \in DOMAIN cache : cache'[i] = cache[m]
    <3>1. j # k /\ j \in session /\ acked'[j] = acked[j]
      BY <1>2, <1>3, <1>5, <1>9, <2>2
    <3> QED
      BY <1>9, <2>2, <3>1 DEF SessionFresh
  <2> QED
    BY <1>6, <1>7, <2>1, <2>2 DEF EntriesFrom
<1>10. \A u \in Threads : pc'[u] = "idle"
  BY <1>1, <1>3, <1>5 DEF SessionFresh
<1>11. status' = "up"
  BY <1>1, <1>3
<1> QED
  BY <1>6, <1>8, <1>9, <1>10, <1>11 DEF SessionFresh

\* get reads, fills or touches the cache.
LEMMA FreshGet ==
    ASSUME Inv, SessionFresh, NEW t \in Threads,
           (\E k \in Keys : get_hit(t, k) \/ get_read(t, k)) \/ get_fill(t)
    PROVE  SessionFresh'
<1>1. RestTypeOK /\ TypeOK
  BY TypeParts DEF Inv
<1>2. /\ cache \in Seq(Entries) /\ pc \in [Threads -> {"idle", "store", "fill"}]
      /\ arg \in [Threads -> Entries \cup {NoArg}] /\ session \subseteq Keys
  BY <1>1 DEF RestTypeOK
<1>3. ASSUME NEW k \in Keys, get_hit(t, k) PROVE SessionFresh'
  <2>1. /\ cache' = CacheTouch(cache, k) /\ HasKey(cache, k)
        /\ UNCHANGED <<mapped, index, status, pc, arg, acked, session>>
    BY <1>3 DEF get_hit
  <2>2. /\ UniqueKeys(cache')
        /\ \A i \in DOMAIN cache' : \E j \in DOMAIN cache : cache'[i] = cache[j]
    BY <1>2, <2>1, CacheTouchFacts DEF SessionFresh
  <2>3. \A j \in session' : \A i \in DOMAIN cache' : cache'[i].key = j => cache'[i].value = acked'[j]
    BY <2>1, <2>2 DEF SessionFresh
  <2> QED
    BY <2>1, <2>2, <2>3 DEF SessionFresh
<1>4. ASSUME NEW k \in Keys, get_read(t, k) PROVE SessionFresh'
  <2> DEFINE e == Entry(k, RecordAt(index[k]).value)
  <2>1. /\ Found(k) /\ lock_shared
        /\ pc' = [pc EXCEPT ![t] = "fill"] /\ arg' = [arg EXCEPT ![t] = e]
        /\ UNCHANGED <<mapped, index, cache, status, acked, session>>
    BY <1>4 DEF get_read, volatile
  <2>2. e.key = k
    BY DEF Entry
  <2> HIDE DEF e
  <2>3. k \notin session
    BY <1>1, <2>1, NotFound DEF SessionFresh
  <2>4. \A u \in Threads : pc'[u] = "fill" => arg'[u].key \notin session'
    BY <1>2, <2>1, <2>2, <2>3 DEF SessionFresh
  <2>5. \A u \in Threads : pc'[u] # "store"
    BY <1>2, <2>1 DEF lock_shared
  <2> QED
    BY <2>1, <2>4, <2>5 DEF SessionFresh
<1>5. CASE get_fill(t)
  <2> DEFINE k == arg[t].key
             v == arg[t].value
  <2>1. /\ pc[t] = "fill" /\ cache' = CachePut(cache, k, v)
        /\ pc' = [pc EXCEPT ![t] = "idle"] /\ arg' = [arg EXCEPT ![t] = NoArg]
        /\ UNCHANGED <<mapped, index, status, acked, session>>
    BY <1>5 DEF get_fill, Returns
  <2>2. arg[t] \in Entries
    BY <2>1 DEF Inv, CallsHoldRecords
  <2>3. k \in Keys /\ v \in Values /\ k \notin session
    BY <2>1, <2>2 DEF Entries, SessionFresh
  <2> HIDE DEF k, v
  <2>4. UniqueKeys(cache') /\ EntriesFrom(cache', cache, Entry(k, v))
    BY <1>2, <2>1, <2>3, CachePutFacts DEF SessionFresh
  <2>5. Entry(k, v).key = k
    BY DEF Entry
  <2>6. \A j \in session' : \A i \in DOMAIN cache' : cache'[i].key = j => cache'[i].value = acked'[j]
    BY <2>1, <2>3, <2>4, <2>5 DEF SessionFresh, EntriesFrom
  <2>7. \A u \in Threads : pc'[u] = "fill" => arg'[u].key \notin session'
    BY <1>2, <2>1 DEF SessionFresh
  <2>8. \A x, u \in Threads : pc'[x] = "store" /\ u # x => pc'[u] = "idle"
    BY <1>2, <2>1 DEF SessionFresh
  <2> QED
    BY <2>1, <2>4, <2>6, <2>7, <2>8 DEF SessionFresh
<1> QED
  BY <1>3, <1>4, <1>5

\* Every step keeps the session fresh.
LEMMA FreshStep == Inv /\ SessionFresh /\ [Next]_vars => SessionFresh'
<1> SUFFICES ASSUME Inv, SessionFresh, [Next]_vars PROVE SessionFresh'
  OBVIOUS
<1>1. RestTypeOK /\ log \in Seq(WalRecords)
  BY TypeParts DEF Inv
<1>2. pc \in [Threads -> {"idle", "store", "fill"}] /\ cache \in Seq(Entries)
  BY <1>1 DEF RestTypeOK
<1>3. ASSUME status # "up", status' # "down",
             UNCHANGED <<pc, arg, session>>, UniqueKeys(cache')
      PROVE  SessionFresh'
  <2>1. session' = {} /\ \A t \in Threads : pc'[t] = "idle"
    BY <1>2, <1>3 DEF SessionFresh, Inv, CallsHoldRecords
  <2> QED
    BY <1>3, <2>1 DEF SessionFresh
<1>4. CASE open
  BY <1>3, <1>4 DEF open, SessionFresh
<1>5. CASE replay_record
  <2> DEFINE rec == log[Replayed + 1]
  <2>1. rec \in WalRecords
    BY <1>1, <1>5 DEF replay_record, Readable
  <2>2. rec.key \in Keys /\ rec.value \in Values
    BY <2>1 DEF WalRecords
  <2>3. cache' = CachePut(cache, rec.key, rec.value)
    BY <1>5 DEF replay_record, Publish
  <2> HIDE DEF rec
  <2>4. UniqueKeys(cache')
    BY <1>2, <2>2, <2>3, CachePutFacts DEF SessionFresh
  <2> QED
    BY <1>3, <1>5, <2>4 DEF replay_record
<1>6. CASE replay_end \/ rebuild_slot \/ rebuild_page \/ rebuild_end
  <2>1. status # "up" /\ status' # "down" /\ UNCHANGED <<pc, arg, session, cache>>
    BY <1>6 DEF replay_end, rebuild_slot, rebuild_page, rebuild_end
  <2> QED
    BY <1>3, <2>1 DEF SessionFresh
<1>7. CASE replay_throw \/ close \/ crash \/ (\E k \in Keys, v \in Values : crash_tear(k, v))
  <2>1. session' = {} /\ cache' = <<>> /\ pc' = Idle
    BY <1>7 DEF replay_throw, close, crash, crash_tear, Vanish
  <2> QED
    BY <2>1 DEF SessionFresh, Idle, UniqueKeys
<1>8. ASSUME NEW t \in Threads, NEW k \in Keys, NEW v \in Values, put_log(t, k, v)
      PROVE  SessionFresh'
  <2>1. /\ pc' = [pc EXCEPT ![t] = "store"] /\ \A u \in Threads : pc[u] = "idle"
        /\ UNCHANGED <<mapped, index, cache, status, acked, session>>
    BY <1>8 DEF put_log, lock
  <2>2. \A u \in Threads : pc'[u] = IF u = t THEN "store" ELSE "idle"
    BY <1>2, <2>1
  <2> QED
    BY <2>1, <2>2 DEF SessionFresh
<1>9. ASSUME NEW t \in Threads, put_store(t) PROVE SessionFresh'
  BY <1>9, FreshStore
<1>10. ASSUME NEW t \in Threads, put_throw(t) PROVE SessionFresh'
  <2>1. /\ pc' = [pc EXCEPT ![t] = "idle"] /\ arg' = [arg EXCEPT ![t] = NoArg]
        /\ UNCHANGED <<mapped, index, cache, status, acked, session>>
    BY <1>10 DEF put_throw, Returns
  <2>2. \A u \in Threads : pc'[u] # "idle" => u # t /\ pc'[u] = pc[u]
    BY <1>2, <2>1
  <2>3. \A u \in Threads : pc'[u] = "fill" => arg'[u] = arg[u]
    BY <1>1, <2>1, <2>2 DEF RestTypeOK
  <2>4. \A x, u \in Threads : pc'[x] = "store" /\ u # x => pc'[u] = "idle"
    BY <1>2, <2>1, <2>2 DEF SessionFresh
  <2> QED
    BY <2>1, <2>2, <2>3, <2>4 DEF SessionFresh
<1>11. ASSUME NEW t \in Threads,
              (\E k \in Keys : get_hit(t, k) \/ get_read(t, k)) \/ get_fill(t)
       PROVE  SessionFresh'
  BY <1>11, FreshGet
<1>12. CASE UNCHANGED vars
  BY <1>12 DEF vars, volatile, SessionFresh
<1> QED
  BY <1>4, <1>5, <1>6, <1>7, <1>8, <1>9, <1>10, <1>11, <1>12 DEF Next, Construct

\* A closed database has no session.
LEMMA FreshInit == Init => SessionFresh
  BY DEF Init, SessionFresh, UniqueKeys, Idle

\* A key put in this session is never read with an older value, however many
\* threads read and write, whatever the file holds of it and whatever the
\* cache has dropped.
THEOREM SessionReadsNotStale == Spec => []NoStaleSessionRead
<1>1. Inv /\ SessionFresh => NoStaleSessionRead
  <2> SUFFICES ASSUME Inv, SessionFresh, NEW k \in session
               PROVE  {ReadResult(k)} \cup InFlight(k) \subseteq {acked[k], NoValue}
    BY DEF NoStaleSessionRead
  <2>1. k \in Keys /\ TypeOK
    BY TypeParts DEF Inv, RestTypeOK
  <2>2. ~ Found(k)
    BY <2>1, NotFound DEF SessionFresh
  <2>3. ReadResult(k) \in {acked[k], NoValue}
    <3>1. CASE HasKey(cache, k)
      <4>1. PositionOf(cache, k) \in DOMAIN cache /\ cache[PositionOf(cache, k)].key = k
        BY <3>1 DEF HasKey, PositionOf
      <4>2. CachedValue(cache, k) = acked[k]
        BY <4>1 DEF CachedValue, SessionFresh
      <4> QED
        BY <3>1, <4>2 DEF ReadResult
    <3>2. CASE ~ HasKey(cache, k)
      BY <2>2, <3>2 DEF ReadResult
    <3> QED
      BY <3>1, <3>2
  <2>4. InFlight(k) = {}
    BY DEF InFlight, SessionFresh
  <2> QED
    BY <2>3, <2>4
<1> QED
  BY <1>1, FreshInit, FreshStep, Invariance, PTL DEF Spec
=============================================================================
