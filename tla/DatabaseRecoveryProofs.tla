----------------------- MODULE DatabaseRecoveryProofs -----------------------
(***************************************************************************)
(* What recovery achieves, for every set of keys, values and threads,      *)
(* every record size, log length and number of restarts: a replay makes    *)
(* the file agree with the log, and across clean restarts every key reads  *)
(* as it was put last.                                                     *)
(***************************************************************************)
EXTENDS DatabaseReadProofs, WellFoundedInduction

-----------------------------------------------------------------------------
\* Places in a sequence of pages.

PageSeqs == Seq(Seq(SlotEntries))

\* Place (q, u) comes before place (p, s) in a scan, or is the same.
UpTo(q, u, p, s) == q < p \/ (q = p /\ u <= s)

\* The last record of key k in the pages is at place (p, s).
LastAt(pages, p, s, k) ==
    /\ p \in DOMAIN pages /\ s \in DOMAIN pages[p] /\ pages[p][s].key = k
    /\ \A q \in DOMAIN pages : \A u \in DOMAIN pages[q] :
          pages[q][u].key = k => UpTo(q, u, p, s)

\* more holds the records of pages and, behind them all, a record (k, v).
AddsRecord(pages, more, k, v) ==
    \E p \in DOMAIN more : \E s \in DOMAIN more[p] :
        /\ more[p][s].key = k /\ more[p][s].value = v
        /\ \A q \in DOMAIN more : \A u \in DOMAIN more[q] :
              /\ UpTo(q, u, p, s)
              /\ q # p \/ u # s => q \in DOMAIN pages /\ u \in DOMAIN pages[q]
        /\ \A q \in DOMAIN pages : \A u \in DOMAIN pages[q] :
              /\ q \in DOMAIN more /\ u \in DOMAIN more[q] /\ more[q][u] = pages[q][u]
              /\ q # p \/ u # s

\* The i-th of the first n log records is the last of its key among them.
LastOfKey(l, n, i) == i \in 1 .. n /\ \A j \in 1 .. n : l[j].key = l[i].key => j <= i

\* The pages agree with the first n log records: the last record in them of a
\* key logged there has the value logged last.
Agrees(pages, l, n) ==
    \A i \in 1 .. n : LastOfKey(l, n, i) =>
        \E p \in DOMAIN pages : \E s \in DOMAIN pages[p] :
            LastAt(pages, p, s, l[i].key) /\ pages[p][s].value = l[i].value

\* A record added behind the others is the last one of its key.
LEMMA AddedIsLast ==
    ASSUME NEW pages, NEW more, NEW k, NEW v, AddsRecord(pages, more, k, v)
    PROVE  \E p \in DOMAIN more : \E s \in DOMAIN more[p] :
              LastAt(more, p, s, k) /\ more[p][s].value = v
<1>1. PICK p \in DOMAIN more : \E s \in DOMAIN more[p] :
        /\ more[p][s].key = k /\ more[p][s].value = v
        /\ \A q \in DOMAIN more : \A u \in DOMAIN more[q] :
              /\ UpTo(q, u, p, s)
              /\ q # p \/ u # s => q \in DOMAIN pages /\ u \in DOMAIN pages[q]
        /\ \A q \in DOMAIN pages : \A u \in DOMAIN pages[q] :
              /\ q \in DOMAIN more /\ u \in DOMAIN more[q] /\ more[q][u] = pages[q][u]
              /\ q # p \/ u # s
  BY DEF AddsRecord
<1>2. PICK s \in DOMAIN more[p] :
        /\ more[p][s].key = k /\ more[p][s].value = v
        /\ \A q \in DOMAIN more : \A u \in DOMAIN more[q] :
              /\ UpTo(q, u, p, s)
              /\ q # p \/ u # s => q \in DOMAIN pages /\ u \in DOMAIN pages[q]
        /\ \A q \in DOMAIN pages : \A u \in DOMAIN pages[q] :
              /\ q \in DOMAIN more /\ u \in DOMAIN more[q] /\ more[q][u] = pages[q][u]
              /\ q # p \/ u # s
  BY <1>1
<1>3. LastAt(more, p, s, k)
  BY <1>2, Zenon DEF LastAt
<1> QED
  BY <1>2, <1>3, Zenon

\* It leaves the last record of every other key where it is.
LEMMA OthersStayLast ==
    ASSUME NEW pages, NEW more, NEW k, NEW v, AddsRecord(pages, more, k, v),
           NEW j, NEW q, NEW u, j # k, LastAt(pages, q, u, j)
    PROVE  LastAt(more, q, u, j) /\ more[q][u] = pages[q][u]
<1>1. PICK p \in DOMAIN more : \E s \in DOMAIN more[p] :
        /\ more[p][s].key = k /\ more[p][s].value = v
        /\ \A x \in DOMAIN more : \A y \in DOMAIN more[x] :
              /\ UpTo(x, y, p, s)
              /\ x # p \/ y # s => x \in DOMAIN pages /\ y \in DOMAIN pages[x]
        /\ \A x \in DOMAIN pages : \A y \in DOMAIN pages[x] :
              /\ x \in DOMAIN more /\ y \in DOMAIN more[x] /\ more[x][y] = pages[x][y]
              /\ x # p \/ y # s
  BY DEF AddsRecord
<1>2. PICK s \in DOMAIN more[p] :
        /\ more[p][s].key = k /\ more[p][s].value = v
        /\ \A x \in DOMAIN more : \A y \in DOMAIN more[x] :
              /\ UpTo(x, y, p, s)
              /\ x # p \/ y # s => x \in DOMAIN pages /\ y \in DOMAIN pages[x]
        /\ \A x \in DOMAIN pages : \A y \in DOMAIN pages[x] :
              /\ x \in DOMAIN more /\ y \in DOMAIN more[x] /\ more[x][y] = pages[x][y]
              /\ x # p \/ y # s
  BY <1>1
<1>3. q \in DOMAIN pages /\ u \in DOMAIN pages[q] /\ pages[q][u].key = j
  BY Zenon DEF LastAt
<1>4. q \in DOMAIN more /\ u \in DOMAIN more[q] /\ more[q][u] = pages[q][u]
  BY <1>2, <1>3, Zenon
<1>5. ASSUME NEW x \in DOMAIN more, NEW y \in DOMAIN more[x], more[x][y].key = j
      PROVE  UpTo(x, y, q, u)
  <2>1. x # p \/ y # s
    BY <1>2, <1>5, Zenon
  <2>2. x \in DOMAIN pages /\ y \in DOMAIN pages[x]
    BY <1>2, <2>1, Zenon
  <2>3. pages[x][y].key = j
    BY <1>2, <1>5, <2>2, Zenon
  <2> QED
    BY <2>2, <2>3, Zenon DEF LastAt
<1> QED
  BY <1>3, <1>4, <1>5, Zenon DEF LastAt

\* Storing the next log record makes the pages agree with one more.
LEMMA AgreesWithNext ==
    ASSUME NEW pages, NEW more, NEW l, NEW n \in Nat,
           Agrees(pages, l, n), AddsRecord(pages, more, l[n + 1].key, l[n + 1].value)
    PROVE  Agrees(more, l, n + 1)
<1> DEFINE k == l[n + 1].key
           v == l[n + 1].value
<1>0. AddsRecord(pages, more, k, v)
  OBVIOUS
<1> HIDE DEF k, v
<1>1. \E p \in DOMAIN more : \E s \in DOMAIN more[p] :
         LastAt(more, p, s, k) /\ more[p][s].value = v
  BY <1>0, AddedIsLast
<1> SUFFICES ASSUME NEW i \in 1 .. n + 1, LastOfKey(l, n + 1, i)
             PROVE  \E p \in DOMAIN more : \E s \in DOMAIN more[p] :
                       LastAt(more, p, s, l[i].key) /\ more[p][s].value = l[i].value
  BY DEF Agrees
<1>3. CASE i = n + 1
  BY <1>1, <1>3 DEF k, v
<1>4. CASE i # n + 1
  <2>1. i \in 1 .. n /\ n + 1 \in 1 .. n + 1 /\ ~ (n + 1 <= i)
    BY <1>4
  <2>2. l[i].key # k
    BY <2>1, Zenon DEF LastOfKey, k
  <2>3. LastOfKey(l, n, i)
    <3>1. \A j \in 1 .. n : j \in 1 .. n + 1
      OBVIOUS
    <3> QED
      BY <2>1, <3>1, Zenon DEF LastOfKey
  <2>4. PICK p \in DOMAIN pages : \E s \in DOMAIN pages[p] :
           LastAt(pages, p, s, l[i].key) /\ pages[p][s].value = l[i].value
    BY <2>1, <2>3, Zenon DEF Agrees
  <2>5. PICK s \in DOMAIN pages[p] : LastAt(pages, p, s, l[i].key) /\ pages[p][s].value = l[i].value
    BY <2>4
  <2>6. LastAt(more, p, s, l[i].key) /\ more[p][s] = pages[p][s]
    BY <1>0, <2>2, <2>5, OthersStayLast
  <2>7. p \in DOMAIN more /\ s \in DOMAIN more[p]
    BY <2>6, Zenon DEF LastAt
  <2> QED
    BY <2>5, <2>6, <2>7, Zenon
<1> QED
  BY <1>3, <1>4

\* What the pages agree with depends on the first n records only.
LEMMA AgreesPrefix ==
    ASSUME NEW pages, NEW l, NEW m, NEW n \in Nat, \A i \in 1 .. n : m[i] = l[i],
           Agrees(pages, l, n)
    PROVE  Agrees(pages, m, n)
<1> SUFFICES ASSUME NEW i \in 1 .. n, LastOfKey(m, n, i)
             PROVE  \E p \in DOMAIN pages : \E s \in DOMAIN pages[p] :
                       LastAt(pages, p, s, m[i].key) /\ pages[p][s].value = m[i].value
  BY DEF Agrees
<1>1. LastOfKey(l, n, i) /\ m[i] = l[i]
  BY DEF LastOfKey
<1> QED
  BY <1>1 DEF Agrees

\* A sequence of pages with one more page.
LEMMA PageAppended ==
    ASSUME NEW f \in PageSeqs, NEW w \in Seq(SlotEntries)
    PROVE  /\ Append(f, w) \in PageSeqs /\ Len(f) \in Nat
           /\ DOMAIN f = 1 .. Len(f) /\ DOMAIN Append(f, w) = 1 .. Len(f) + 1
           /\ \A p \in 1 .. Len(f) : Append(f, w)[p] = f[p]
           /\ Append(f, w)[Len(f) + 1] = w
  BY DEF PageSeqs

\* A page with one more slot.
LEMMA SlotAppended ==
    ASSUME NEW w \in Seq(SlotEntries), NEW e \in SlotEntries
    PROVE  /\ Append(w, e) \in Seq(SlotEntries) /\ Len(w) \in Nat
           /\ DOMAIN w = 1 .. Len(w) /\ DOMAIN Append(w, e) = 1 .. Len(w) + 1
           /\ \A s \in 1 .. Len(w) : Append(w, e)[s] = w[s]
           /\ Append(w, e)[Len(w) + 1] = e
  OBVIOUS

\* A slot added to the last page is a record behind all others.
LEMMA FillAdds ==
    ASSUME NEW f \in PageSeqs, NEW w \in Seq(SlotEntries), NEW e \in SlotEntries
    PROVE  AddsRecord(Append(f, w), Append(f, Append(w, e)), e.key, e.value)
<1> DEFINE x == Append(w, e)
           g == Append(f, w)
           h == Append(f, x)
           n == Len(f) + 1
           m == Len(w) + 1
<1>1. /\ x \in Seq(SlotEntries) /\ Len(w) \in Nat /\ DOMAIN w = 1 .. Len(w) /\ DOMAIN x = 1 .. m
      /\ (\A s \in 1 .. Len(w) : x[s] = w[s]) /\ x[m] = e
  BY SlotAppended
<1> HIDE DEF x
<1>2. /\ Len(f) \in Nat /\ DOMAIN f = 1 .. Len(f)
      /\ DOMAIN g = 1 .. n /\ (\A p \in 1 .. Len(f) : g[p] = f[p]) /\ g[n] = w
      /\ DOMAIN h = 1 .. n /\ (\A p \in 1 .. Len(f) : h[p] = f[p]) /\ h[n] = x
  BY <1>1, PageAppended
<1> HIDE DEF g, h
<1>3. n \in DOMAIN h /\ m \in DOMAIN h[n] /\ h[n][m].key = e.key /\ h[n][m].value = e.value
  BY <1>1, <1>2
<1>4. ASSUME NEW q \in DOMAIN h, NEW u \in DOMAIN h[q]
      PROVE  /\ UpTo(q, u, n, m)
             /\ q # n \/ u # m => q \in DOMAIN g /\ u \in DOMAIN g[q]
  <2>1. CASE q = n
    BY <1>1, <1>2, <2>1 DEF UpTo
  <2>2. CASE q # n
    BY <1>2, <2>2 DEF UpTo
  <2> QED
    BY <2>1, <2>2
<1>5. ASSUME NEW q \in DOMAIN g, NEW u \in DOMAIN g[q]
      PROVE  /\ q \in DOMAIN h /\ u \in DOMAIN h[q] /\ h[q][u] = g[q][u]
             /\ q # n \/ u # m
  <2>1. CASE q = n
    BY <1>1, <1>2, <2>1
  <2>2. CASE q # n
    BY <1>2, <2>2
  <2> QED
    BY <2>1, <2>2
<1>6. AddsRecord(g, h, e.key, e.value)
  <2> HIDE DEF n, m
  <2> QED
    BY <1>3, <1>4, <1>5 DEF AddsRecord
<1> QED
  BY <1>6 DEF g, h, x

\* So is the slot of a new page.
LEMMA NextAdds ==
    ASSUME NEW g \in PageSeqs, NEW e \in SlotEntries
    PROVE  AddsRecord(g, Append(g, Append(<<>>, e)), e.key, e.value)
<1> DEFINE x == Append(<<>>, e)
           h == Append(g, x)
           n == Len(g) + 1
<1>1. x \in Seq(SlotEntries) /\ DOMAIN x = 1 .. 1 /\ x[1] = e
  OBVIOUS
<1> HIDE DEF x
<1>2. /\ Len(g) \in Nat /\ DOMAIN g = 1 .. Len(g)
      /\ DOMAIN h = 1 .. n /\ (\A p \in 1 .. Len(g) : h[p] = g[p]) /\ h[n] = x
  BY <1>1, PageAppended
<1> HIDE DEF h
<1>3. n \in DOMAIN h /\ 1 \in DOMAIN h[n] /\ h[n][1].key = e.key /\ h[n][1].value = e.value
  BY <1>1, <1>2
<1>4. ASSUME NEW q \in DOMAIN h, NEW u \in DOMAIN h[q]
      PROVE  /\ UpTo(q, u, n, 1)
             /\ q # n \/ u # 1 => q \in DOMAIN g /\ u \in DOMAIN g[q]
  <2>1. CASE q = n
    BY <1>1, <1>2, <2>1 DEF UpTo
  <2>2. CASE q # n
    BY <1>2, <2>2 DEF UpTo
  <2> QED
    BY <2>1, <2>2
<1>5. ASSUME NEW q \in DOMAIN g, NEW u \in DOMAIN g[q]
      PROVE  /\ q \in DOMAIN h /\ u \in DOMAIN h[q] /\ h[q][u] = g[q][u]
             /\ q # n \/ u # 1
  BY <1>2
<1>6. AddsRecord(g, h, e.key, e.value)
  <2> HIDE DEF n
  <2> QED
    BY <1>3, <1>4, <1>5 DEF AddsRecord
<1> QED
  BY <1>6 DEF h, x

\* StorageWriter::append adds its record behind all others.
LEMMA StoreAdds ==
    ASSUME file \in PageSeqs, writer \in WriterPages, NEW k \in Keys, NEW v \in Values,
           append_here(k, v) \/ append_next(k, v)
    PROVE  AddsRecord(Image, Image', k, v)
<1>1. writer.slots \in Seq(SlotEntries) /\ writer.page_id + 1 \in Nat
  BY DEF WriterPages
<1>2. CASE append_here(k, v)
  <2> DEFINE e == [key |-> k, value |-> v,
                   offset |-> writer.free_space_offset - record_data_size(v),
                   length |-> record_data_size(v)]
  <2>1. writer'.slots = Append(writer.slots, e) /\ e \in SlotEntries /\ file' = file
    BY <1>2, InsertFacts DEF append_here
  <2>2. e.key = k /\ e.value = v
    OBVIOUS
  <2> HIDE DEF e
  <2>3. AddsRecord(Append(file, writer.slots), Append(file, Append(writer.slots, e)), k, v)
    BY <1>1, <2>1, <2>2, FillAdds
  <2> QED
    BY <2>1, <2>3 DEF Image
<1>3. CASE append_next(k, v)
  <2> DEFINE fresh == EmptyPage(writer.page_id + 1)
             e == [key |-> k, value |-> v,
                   offset |-> fresh.free_space_offset - record_data_size(v),
                   length |-> record_data_size(v)]
  <2>1. fresh \in WriterPages /\ fresh.slots = <<>>
    BY <1>1, EmptyPageFacts
  <2>2. Fits(fresh, v) /\ writer' = Insert(fresh, k, v) /\ file' = Append(file, writer.slots)
    BY <1>3 DEF append_next
  <2> HIDE DEF fresh
  <2>3. writer'.slots = Append(<<>>, e) /\ e \in SlotEntries
    BY <2>1, <2>2, InsertFacts
  <2>4. e.key = k /\ e.value = v
    OBVIOUS
  <2> HIDE DEF e
  <2>5. Append(file, writer.slots) \in PageSeqs
    BY <1>1, PageAppended
  <2>6. AddsRecord(Append(file, writer.slots), Append(Append(file, writer.slots), Append(<<>>, e)), k, v)
    BY <2>3, <2>4, <2>5, NextAdds
  <2> QED
    BY <2>2, <2>3, <2>6 DEF Image
<1> QED
  BY <1>2, <1>3

\* Whether a record fits in a fresh page does not depend on the page's id.
LEMMA FitsFresh ==
    ASSUME NEW v, NEW id
    PROVE  Fits(EmptyPage(id), v) <=> Fits(EmptyPage(0), v)
  BY DEF Fits, EmptyPage

\* A nonempty set of log positions has a largest one.
LEMMA LargestOf ==
    ASSUME NEW n \in Nat, NEW S \in SUBSET (1 .. n), S # {}
    PROVE  \E i \in S : \A j \in S : j <= i
<1> DEFINE R == {ss \in Nat \X Nat : ss[1] < ss[2]}
           D == {n - i : i \in S}
<1>1. OpToRel(<, Nat) = R
  BY Zenon DEF OpToRel
<1>2. IsWellFoundedOn(R, Nat)
  BY <1>1, NatLessThanWellFounded, Zenon
<1>3. D \in SUBSET Nat /\ D # {}
  <2>1. \A i \in S : n - i \in Nat
    OBVIOUS
  <2>2. PICK i \in S : TRUE
    OBVIOUS
  <2> QED
    BY <2>1, <2>2, Zenon
<1>4. PICK x \in D : \A y \in D : ~ (<<y, x>> \in R)
  BY <1>2, <1>3, WFMin
<1>5. PICK i \in S : x = n - i
  BY <1>4
<1>6. ASSUME NEW j \in S PROVE j <= i
  <2>1. n - j \in D /\ n - j \in Nat /\ n - i \in Nat
    BY <1>3
  <2>2. ~ (<<n - j, n - i>> \in R)
    BY <1>4, <1>5, <2>1
  <2>3. ~ (n - j < n - i)
    BY <2>1, <2>2
  <2> QED
    BY <2>3
<1> QED
  BY <1>6
-----------------------------------------------------------------------------
\* Replay heals the file.

\* Every record in the pages is of a logged key.
AllLogged(pages, l) ==
    \A q \in DOMAIN pages : \A u \in DOMAIN pages[q] :
        \E i \in DOMAIN l : l[i].key = pages[q][u].key

\* The invariant.  While the constructor replays a sound log, the image agrees
\* with the records replayed so far; from then on with the whole log, but for
\* the record that a put has logged and not stored yet.
Heals ==
    /\ AllLogged(Image, log)
    /\ status = "replay" /\ LogReplayable => Agrees(Image, log, Replayed)
    /\ status \in {"rebuild", "up"} /\ LogReplayable /\ lock_shared => Agrees(Image, log, Len(log))
    /\ \A t \in Threads : pc[t] = "store" =>
          /\ Len(log) > 0
          /\ log[Len(log)].key = arg[t].key /\ log[Len(log)].value = arg[t].value
          /\ LogReplayable => Agrees(Image, log, Len(log) - 1)

\* A stored record of a logged key keeps every record one of a logged key.
LEMMA LoggedStore ==
    ASSUME NEW pages, NEW more, NEW k, NEW v, NEW l, AddsRecord(pages, more, k, v),
           AllLogged(pages, l), \E i \in DOMAIN l : l[i].key = k
    PROVE  AllLogged(more, l)
<1> SUFFICES ASSUME NEW x \in DOMAIN more, NEW y \in DOMAIN more[x]
             PROVE  \E i \in DOMAIN l : l[i].key = more[x][y].key
  BY DEF AllLogged
<1>1. PICK p \in DOMAIN more : \E s \in DOMAIN more[p] :
        /\ more[p][s].key = k
        /\ \A q \in DOMAIN more : \A u \in DOMAIN more[q] :
              q # p \/ u # s => q \in DOMAIN pages /\ u \in DOMAIN pages[q]
        /\ \A q \in DOMAIN pages : \A u \in DOMAIN pages[q] : more[q][u] = pages[q][u]
  BY DEF AddsRecord
<1>2. PICK s \in DOMAIN more[p] :
        /\ more[p][s].key = k
        /\ \A q \in DOMAIN more : \A u \in DOMAIN more[q] :
              q # p \/ u # s => q \in DOMAIN pages /\ u \in DOMAIN pages[q]
        /\ \A q \in DOMAIN pages : \A u \in DOMAIN pages[q] : more[q][u] = pages[q][u]
  BY <1>1
<1>3. CASE x = p /\ y = s
  BY <1>2, <1>3, Zenon
<1>4. CASE x # p \/ y # s
  <2>1. x \in DOMAIN pages /\ y \in DOMAIN pages[x] /\ more[x][y] = pages[x][y]
    BY <1>2, <1>4, Zenon
  <2> QED
    BY <2>1, Zenon DEF AllLogged
<1> QED
  BY <1>3, <1>4

\* What is logged stays logged, also when a page is dropped or an empty one added.
LEMMA LoggedStays ==
    ASSUME NEW f \in PageSeqs, NEW w \in Seq(SlotEntries), NEW l, NEW m,
           \A i \in DOMAIN l : i \in DOMAIN m /\ m[i] = l[i],
           AllLogged(Append(f, w), l)
    PROVE  /\ AllLogged(Append(f, w), m)
           /\ AllLogged(Append(f, <<>>), m)
           /\ AllLogged(Append(Append(f, w), <<>>), m)
<1> DEFINE g == Append(f, w)
           h == Append(f, <<>>)
           x == Append(g, <<>>)
           n == Len(f)
<1>1. <<>> \in Seq(SlotEntries) /\ DOMAIN <<>> = {}
  OBVIOUS
<1>2. /\ n \in Nat /\ DOMAIN g = 1 .. n + 1 /\ (\A p \in 1 .. n : g[p] = f[p]) /\ g[n + 1] = w
      /\ DOMAIN h = 1 .. n + 1 /\ (\A p \in 1 .. n : h[p] = f[p]) /\ h[n + 1] = <<>>
      /\ g \in PageSeqs
  BY <1>1, PageAppended
<1>3. Len(g) = n + 1
  BY <1>2 DEF PageSeqs
<1> HIDE DEF g, h
<1>4. DOMAIN x = 1 .. n + 2 /\ (\A p \in 1 .. n + 1 : x[p] = g[p]) /\ x[n + 2] = <<>>
  <2>1. /\ DOMAIN x = 1 .. Len(g) + 1 /\ (\A p \in 1 .. Len(g) : x[p] = g[p])
        /\ x[Len(g) + 1] = <<>>
    BY <1>1, <1>2, PageAppended
  <2>2. Len(g) + 1 = n + 2
    BY <1>2, <1>3
  <2> QED
    BY <1>3, <2>1, <2>2
<1> HIDE DEF x, n
<1>5. AllLogged(g, m)
  BY DEF AllLogged, g
<1>6. AllLogged(h, m)
  <2> SUFFICES ASSUME NEW q \in DOMAIN h, NEW u \in DOMAIN h[q]
               PROVE  \E i \in DOMAIN m : m[i].key = h[q][u].key
    BY DEF AllLogged
  <2>1. q # n + 1
    BY <1>1, <1>2
  <2>2. q \in 1 .. n /\ q \in DOMAIN g
    BY <1>2, <2>1
  <2>3. h[q] = g[q]
    BY <1>2, <2>2
  <2> QED
    BY <1>5, <2>2, <2>3 DEF AllLogged
<1>7. AllLogged(x, m)
  <2> SUFFICES ASSUME NEW q \in DOMAIN x, NEW u \in DOMAIN x[q]
               PROVE  \E i \in DOMAIN m : m[i].key = x[q][u].key
    BY DEF AllLogged
  <2>1. q # n + 2
    BY <1>1, <1>4
  <2>2. q \in 1 .. n + 1 /\ q \in DOMAIN g
    BY <1>2, <1>4, <2>1
  <2>3. x[q] = g[q]
    BY <1>4, <2>2
  <2> QED
    BY <1>5, <2>2, <2>3 DEF AllLogged
<1> QED
  BY <1>5, <1>6, <1>7 DEF g, h, x

\* The types the steps below use.
LEMMA HealTypes ==
    ASSUME Inv
    PROVE  /\ file \in PageSeqs /\ writer \in WriterPages /\ writer.slots \in Seq(SlotEntries)
           /\ log \in Seq(WalRecords) /\ Len(log) \in Nat /\ DOMAIN log = 1 .. Len(log)
           /\ pc \in [Threads -> {"idle", "store", "fill"}]
           /\ arg \in [Threads -> Entries \cup {NoArg}]
<1>1. /\ log \in Seq(WalRecords) /\ file \in Seq(Seq(SlotEntries)) /\ writer \in WriterPages /\ RestTypeOK
  BY TypeParts DEF Inv
<1> QED
  BY <1>1 DEF RestTypeOK, PageSeqs, WriterPages

\* A process that ends leaves records of logged keys.
LEMMA HealsVanish ==
    ASSUME Inv, Heals, Vanish,
           file' = file \/ file' = Append(file, writer.slots),
           log' = log \/ \E k \in Keys, v \in Values : wal_tear(k, v)
    PROVE  Heals'
<1>1. /\ file \in PageSeqs /\ writer.slots \in Seq(SlotEntries)
      /\ log \in Seq(WalRecords) /\ Len(log) \in Nat /\ DOMAIN log = 1 .. Len(log) /\ current_lsn \in Nat
  BY HealTypes, TypeParts DEF Inv
<1>2. \A i \in DOMAIN log : i \in DOMAIN log' /\ log'[i] = log[i]
  <2>1. CASE log' = log
    BY <2>1
  <2>2. ASSUME NEW k \in Keys, NEW v \in Values, wal_tear(k, v)
        PROVE  \A i \in DOMAIN log : i \in DOMAIN log' /\ log'[i] = log[i]
    <3> DEFINE r == LogRecord(k, v, FALSE)
    <3>1. log' = Append(log, r) /\ r \in WalRecords
      BY <1>1, <2>2, LogRecordFacts DEF wal_tear
    <3> HIDE DEF r
    <3>2. DOMAIN log' = 1 .. Len(log) + 1 /\ \A i \in 1 .. Len(log) : log'[i] = log[i]
      BY <1>1, <3>1, LogAppended
    <3> QED
      BY <1>1, <3>2
  <2> QED
    BY <2>1, <2>2
<1>3. writer'.slots = <<>> /\ status' = "down" /\ pc' = Idle
  BY DEF Vanish, EmptyPage
<1>4. AllLogged(Append(file, writer.slots), log)
  BY DEF Heals, Image
<1>5. AllLogged(Append(file, <<>>), log') /\ AllLogged(Append(Append(file, writer.slots), <<>>), log')
  BY <1>1, <1>2, <1>4, LoggedStays
<1>6. AllLogged(Image', log')
  BY <1>3, <1>5 DEF Image
<1> QED
  BY <1>3, <1>6 DEF Heals, Idle

\* Replaying a record.
LEMMA HealsReplay ==
    ASSUME Inv, Heals, replay_record
    PROVE  Heals'
<1> DEFINE n == Replayed
           k == log[n + 1].key
           v == log[n + 1].value
<1>1. /\ file \in PageSeqs /\ writer \in WriterPages
      /\ log \in Seq(WalRecords) /\ DOMAIN log = 1 .. Len(log)
  BY HealTypes
<1>2. /\ status = "replay" /\ UNCHANGED <<log, status, pc, arg>>
      /\ n + 1 \in DOMAIN log
      /\ append_here(k, v) \/ append_next(k, v)
  BY DEF replay_record, Readable
<1>3. Replayed' = n + 1 /\ n \in Nat
  <2>1. cursor' = [cursor EXCEPT !.slot_id = @ + 1]
    BY Zenon DEF replay_record
  <2>2. cursor \in RecordIds
    BY TypeParts DEF Inv, RestTypeOK
  <2> QED
    BY <2>1, <2>2 DEF Replayed, RecordIds
<1>4. log[n + 1] \in WalRecords
  BY <1>1, <1>2
<1>5. k \in Keys /\ v \in Values
  BY <1>4 DEF WalRecords
<1> HIDE DEF n
<1>6. AddsRecord(Image, Image', k, v)
  BY <1>1, <1>2, <1>5, StoreAdds
<1>7. AllLogged(Image', log')
  BY <1>2, <1>6, LoggedStore DEF Heals
<1>8. LogReplayable' => Agrees(Image', log', n + 1)
  <2> SUFFICES ASSUME LogReplayable' PROVE Agrees(Image', log', n + 1)
    OBVIOUS
  <2>1. LogReplayable
    BY <1>2 DEF LogReplayable
  <2>2. Agrees(Image, log, n)
    BY <1>2, <2>1 DEF Heals, n
  <2> QED
    BY <1>2, <1>3, <1>6, <2>2, AgreesWithNext
<1>9. \A t \in Threads : pc'[t] = "idle"
  BY <1>2, HealTypes DEF Inv, CallsHoldRecords
<1> QED
  BY <1>2, <1>3, <1>7, <1>8, <1>9 DEF Heals

\* A count of records without a next one is the count of all.
LEMMA EndOfLog ==
    ASSUME NEW n \in Nat, NEW m \in Nat, m <= n, m + 1 \notin 1 .. n
    PROVE  m = n
OBVIOUS

\* The replay of a sound log ends at its end.
LEMMA HealsReplayEnd ==
    ASSUME Inv, LsnCounts, Heals, replay_end
    PROVE  Heals'
<1>1. log \in Seq(WalRecords) /\ Len(log) \in Nat /\ DOMAIN log = 1 .. Len(log)
  BY HealTypes
<1>2. /\ status = "replay" /\ status' \in {"rebuild", "up"} /\ UNCHANGED <<log, file, writer, pc, arg>>
      /\ ~ Readable(Replayed + 1)
  BY DEF replay_end
<1>3. Image' = Image /\ (LogReplayable' <=> LogReplayable)
  BY <1>2 DEF Image, LogReplayable
<1>4. LogReplayable => Agrees(Image, log, Len(log))
  <2> SUFFICES ASSUME LogReplayable PROVE Agrees(Image, log, Len(log))
    OBVIOUS
  <2>1. Replayed <= Len(log) /\ Replayed \in Nat
    BY <1>2, TypeParts DEF LsnCounts, Inv
  <2>2. Replayed + 1 \notin DOMAIN log
    BY <1>2 DEF Readable, LogReplayable
  <2> HIDE DEF Replayed
  <2>3. Replayed = Len(log)
    BY <1>1, <2>1, <2>2, EndOfLog
  <2> QED
    BY <1>2, <2>3 DEF Heals
<1>5. \A t \in Threads : pc'[t] = "idle"
  BY <1>2, HealTypes DEF Inv, CallsHoldRecords
<1> QED
  BY <1>2, <1>3, <1>4, <1>5 DEF Heals

\* put logs its record.
LEMMA HealsLog ==
    ASSUME Inv, Heals, NEW t \in Threads, NEW k \in Keys, NEW v \in Values, put_log(t, k, v)
    PROVE  Heals'
<1> DEFINE r == LogRecord(k, v, TRUE)
           n == Len(log)
<1>1. /\ file \in PageSeqs /\ writer.slots \in Seq(SlotEntries)
      /\ log \in Seq(WalRecords) /\ n \in Nat /\ DOMAIN log = 1 .. n /\ current_lsn \in Nat
      /\ pc \in [Threads -> {"idle", "store", "fill"}] /\ arg \in [Threads -> Entries \cup {NoArg}]
  BY HealTypes, TypeParts DEF Inv
<1>2. /\ status = "up" /\ status' = "up" /\ \A u \in Threads : pc[u] = "idle"
      /\ pc' = [pc EXCEPT ![t] = "store"] /\ arg' = [arg EXCEPT ![t] = Entry(k, v)]
      /\ log' = Append(log, r) /\ UNCHANGED <<file, writer>>
  BY DEF put_log, lock, wal_append
<1>3. r \in WalRecords /\ r.key = k /\ r.value = v
  BY <1>1, LogRecordFacts
<1> HIDE DEF r
<1>4. /\ Len(log') = n + 1 /\ DOMAIN log' = 1 .. n + 1
      /\ \A i \in 1 .. n : log'[i] = log[i]
      /\ log'[n + 1] = r
  BY <1>1, <1>2, <1>3, LogAppended
<1> HIDE DEF n
<1>5. \A i \in DOMAIN log : i \in DOMAIN log' /\ log'[i] = log[i]
  BY <1>1, <1>4
<1>6. Image' = Image
  BY <1>2 DEF Image
<1>7. AllLogged(Image', log')
  <2>1. AllLogged(Append(file, writer.slots), log)
    BY DEF Heals, Image
  <2>2. AllLogged(Append(file, writer.slots), log')
    BY <1>1, <1>5, <2>1, LoggedStays
  <2> QED
    BY <1>6, <2>2 DEF Image
<1>8. LogReplayable' => Agrees(Image', log', n)
  <2> SUFFICES ASSUME LogReplayable' PROVE Agrees(Image', log', n)
    OBVIOUS
  <2>1. LogReplayable
    BY <1>5 DEF LogReplayable
  <2>2. Agrees(Image, log, n)
    BY <1>2, <2>1 DEF Heals, lock_shared, n
  <2> QED
    BY <1>1, <1>4, <1>6, <2>2, AgreesPrefix
<1>9. \A u \in Threads : pc'[u] = IF u = t THEN "store" ELSE "idle"
  BY <1>1, <1>2
<1>10. arg'[t].key = k /\ arg'[t].value = v
  BY <1>1, <1>2 DEF Entry
<1>11. ~ lock_shared'
  BY <1>9 DEF lock_shared
<1>12. Len(log') > 0 /\ Len(log') - 1 = n
  BY <1>1, <1>4
<1> QED
  BY <1>2, <1>3, <1>4, <1>7, <1>8, <1>9, <1>10, <1>11, <1>12 DEF Heals

\* put stores its record.
LEMMA HealsStore ==
    ASSUME Inv, SessionFresh, Heals, NEW t \in Threads, put_store(t)
    PROVE  Heals'
<1> DEFINE k == arg[t].key
           v == arg[t].value
           n == Len(log)
<1>1. /\ file \in PageSeqs /\ writer \in WriterPages
      /\ log \in Seq(WalRecords) /\ n \in Nat /\ DOMAIN log = 1 .. n
      /\ pc \in [Threads -> {"idle", "store", "fill"}]
  BY HealTypes
<1>2. /\ pc[t] = "store" /\ status = "up" /\ arg[t] \in Entries
  BY DEF put_store, Inv, CallsHoldRecords
<1>3. /\ append_here(k, v) \/ append_next(k, v)
      /\ pc' = [pc EXCEPT ![t] = "idle"] /\ UNCHANGED <<log, status>>
  BY DEF put_store, Returns
<1>4. k \in Keys /\ v \in Values
  BY <1>2 DEF Entries
<1>5. n > 0 /\ log[n].key = k /\ log[n].value = v /\ (LogReplayable => Agrees(Image, log, n - 1))
  BY <1>2 DEF Heals
<1> HIDE DEF k, v, n
<1>6. AddsRecord(Image, Image', k, v)
  BY <1>1, <1>3, <1>4, StoreAdds
<1>7. AllLogged(Image', log')
  <2>1. n \in DOMAIN log
    BY <1>1, <1>5
  <2> QED
    BY <1>3, <1>5, <1>6, <2>1, LoggedStore DEF Heals
<1>8. LogReplayable' => Agrees(Image', log', n)
  <2> SUFFICES ASSUME LogReplayable' PROVE Agrees(Image', log', n)
    OBVIOUS
  <2>1. LogReplayable
    BY <1>3 DEF LogReplayable
  <2>2. Agrees(Image, log, n - 1) /\ n - 1 \in Nat /\ (n - 1) + 1 = n
    BY <1>1, <1>5, <2>1
  <2>3. AddsRecord(Image, Image', log[(n - 1) + 1].key, log[(n - 1) + 1].value)
    BY <1>5, <1>6, <2>2
  <2>4. Agrees(Image', log, (n - 1) + 1)
    BY <2>2, <2>3, AgreesWithNext
  <2> QED
    BY <1>3, <2>2, <2>4
<1>9. \A u \in Threads : pc'[u] = "idle"
  BY <1>1, <1>2, <1>3 DEF SessionFresh
<1> QED
  BY <1>2, <1>3, <1>7, <1>8, <1>9 DEF Heals, n

\* put gives a record up, which no record of a sound log makes it do.
LEMMA HealsThrow ==
    ASSUME Inv, SessionFresh, Heals, NEW t \in Threads, put_throw(t)
    PROVE  Heals'
<1> DEFINE v == arg[t].value
           n == Len(log)
<1>1. /\ file \in PageSeqs /\ writer.slots \in Seq(SlotEntries)
      /\ log \in Seq(WalRecords) /\ n \in Nat /\ DOMAIN log = 1 .. n
      /\ pc \in [Threads -> {"idle", "store", "fill"}]
  BY HealTypes
<1>2. /\ pc[t] = "store" /\ status = "up"
      /\ ~ Fits(EmptyPage(writer.page_id + 1), v)
      /\ file' = Append(file, writer.slots) /\ writer' = EmptyPage(writer.page_id + 1)
      /\ pc' = [pc EXCEPT ![t] = "idle"] /\ UNCHANGED <<log, status>>
  BY DEF put_throw, append_throw, Returns, Inv, CallsHoldRecords
<1>3. n > 0 /\ log[n].value = v
  BY <1>2 DEF Heals
<1>4. ~ LogReplayable'
  <2>1. n \in DOMAIN log
    BY <1>1, <1>3
  <2>2. ~ Fits(EmptyPage(0), v)
    BY <1>2, FitsFresh
  <2> QED
    BY <1>2, <1>3, <2>1, <2>2 DEF LogReplayable
<1>5. AllLogged(Image', log')
  <2>1. AllLogged(Append(file, writer.slots), log)
    BY DEF Heals, Image
  <2>2. AllLogged(Append(Append(file, writer.slots), <<>>), log)
    BY <1>1, <2>1, LoggedStays
  <2>3. writer'.slots = <<>>
    BY <1>2 DEF EmptyPage
  <2> QED
    BY <1>2, <2>2, <2>3 DEF Image
<1>6. \A u \in Threads : pc'[u] = "idle"
  BY <1>1, <1>2 DEF SessionFresh
<1> QED
  BY <1>4, <1>5, <1>6 DEF Heals

\* Every step of the database.
LEMMA HealsStep == Inv /\ LsnCounts /\ SessionFresh /\ Heals /\ [Next]_vars => Heals'
<1> SUFFICES ASSUME Inv, LsnCounts, SessionFresh, Heals, [Next]_vars PROVE Heals'
  OBVIOUS
<1>1. /\ file \in PageSeqs /\ writer.slots \in Seq(SlotEntries)
      /\ log \in Seq(WalRecords) /\ Len(log) \in Nat /\ DOMAIN log = 1 .. Len(log)
      /\ pc \in [Threads -> {"idle", "store", "fill"}] /\ arg \in [Threads -> Entries \cup {NoArg}]
  BY HealTypes
<1>2. CASE open
  <2>1. /\ status = "down" /\ status' = "replay" /\ writer' = EmptyPage(Len(file))
        /\ UNCHANGED <<log, file, cursor, pc, arg>>
    BY <1>2 DEF open, open_writer
  <2>2. Replayed' = 0
    BY <2>1 DEF LsnCounts, Replayed, LogStart
  <2>3. AllLogged(Append(file, writer.slots), log)
    BY DEF Heals, Image
  <2>4. AllLogged(Append(file, <<>>), log)
    BY <1>1, <2>3, LoggedStays
  <2>5. AllLogged(Image', log')
    BY <2>1, <2>4 DEF Image, EmptyPage
  <2>6. Agrees(Image', log', 0)
    BY DEF Agrees
  <2>7. \A t \in Threads : pc'[t] = "idle"
    BY <2>1 DEF Inv, DownIsBlank, Idle
  <2> QED
    BY <2>1, <2>2, <2>5, <2>6, <2>7 DEF Heals
<1>3. CASE replay_record
  BY <1>3, HealsReplay
<1>4. CASE replay_end
  BY <1>4, HealsReplayEnd
<1>5. CASE replay_throw \/ close \/ crash \/ (\E k \in Keys, v \in Values : crash_tear(k, v))
  <2>1. /\ Vanish /\ (log' = log \/ \E k \in Keys, v \in Values : wal_tear(k, v))
        /\ file' = file \/ file' = Append(file, writer.slots)
    BY <1>5 DEF replay_throw, close, crash, crash_tear, Flushed
  <2> QED
    BY <2>1, HealsVanish
<1>6. ASSUME NEW t \in Threads, NEW k \in Keys, NEW v \in Values, put_log(t, k, v)
      PROVE  Heals'
  BY <1>6, HealsLog
<1>7. ASSUME NEW t \in Threads, put_store(t) PROVE Heals'
  BY <1>7, HealsStore
<1>8. ASSUME NEW t \in Threads, put_throw(t) PROVE Heals'
  BY <1>8, HealsThrow
<1>9. ASSUME UNCHANGED <<log, file, writer>>,
             \/ status = status' /\ UNCHANGED cursor
             \/ status \in {"rebuild", "up"} /\ status' \in {"rebuild", "up"},
             \A u \in Threads : pc'[u] = "store" <=> pc[u] = "store",
             \A u \in Threads : pc[u] = "store" => arg'[u] = arg[u]
      PROVE  Heals'
  <2>1. Image' = Image /\ (LogReplayable' <=> LogReplayable) /\ (lock_shared' <=> lock_shared)
    BY <1>9 DEF Image, LogReplayable, lock_shared
  <2>2. cursor' = cursor => Replayed' = Replayed
    BY DEF Replayed
  <2> QED
    BY <1>9, <2>1, <2>2 DEF Heals
<1>10. CASE rebuild_slot \/ rebuild_page \/ rebuild_end
  BY <1>9, <1>10 DEF rebuild_slot, rebuild_page, rebuild_end
<1>11. ASSUME NEW t \in Threads, NEW k \in Keys, get_hit(t, k) PROVE Heals'
  BY <1>9, <1>11 DEF get_hit
<1>12. ASSUME NEW t \in Threads, NEW k \in Keys, get_read(t, k) PROVE Heals'
  <2>1. /\ UNCHANGED <<log, file, writer, cursor, status>>
        /\ pc[t] = "idle" /\ pc' = [pc EXCEPT ![t] = "fill"]
        /\ arg' = [arg EXCEPT ![t] = Entry(k, RecordAt(index[k]).value)]
    BY <1>12 DEF get_read, volatile
  <2>2. \A u \in Threads : (pc'[u] = "store" <=> pc[u] = "store") /\ (pc[u] = "store" => arg'[u] = arg[u])
    BY <1>1, <2>1
  <2> QED
    BY <1>9, <2>1, <2>2
<1>13. ASSUME NEW t \in Threads, get_fill(t) PROVE Heals'
  <2>1. /\ UNCHANGED <<log, file, writer, cursor, status>>
        /\ pc[t] = "fill" /\ pc' = [pc EXCEPT ![t] = "idle"]
        /\ arg' = [arg EXCEPT ![t] = NoArg]
    BY <1>13 DEF get_fill, Returns
  <2>2. \A u \in Threads : (pc'[u] = "store" <=> pc[u] = "store") /\ (pc[u] = "store" => arg'[u] = arg[u])
    BY <1>1, <2>1
  <2> QED
    BY <1>9, <2>1, <2>2
<1>14. CASE UNCHANGED vars
  BY <1>9, <1>14 DEF vars, volatile
<1> QED
  BY <1>2, <1>3, <1>4, <1>5, <1>6, <1>7, <1>8, <1>10, <1>11, <1>12, <1>13, <1>14
  DEF Next, Construct

\* A scan of the image ends with the value that the invariant speaks of.
LEMMA LastStoredIs ==
    ASSUME Inv, NEW k \in Keys, NEW p, NEW s, LastAt(Image, p, s, k)
    PROVE  LastStored(k) = Image[p][s].value
<1>1. Image \in PageSeqs
  BY HealTypes, PageAppended DEF Image
<1> DEFINE I == Image
<1>2. \A q \in DOMAIN I : q \in Nat /\ \A u \in DOMAIN I[q] : u \in Nat
  BY <1>1 DEF PageSeqs
<1>3. \A q \in DOMAIN I : \A u \in DOMAIN I[q] : I[q][u].key = k => <<q, u>> \in Places(k)
  BY DEF Places
<1>4. \A r \in Places(k) : \E q \in DOMAIN I : \E u \in DOMAIN I[q] : r = <<q, u>> /\ I[q][u].key = k
  BY DEF Places
<1> HIDE DEF I
<1>5. /\ p \in DOMAIN I /\ s \in DOMAIN I[p] /\ I[p][s].key = k
      /\ \A q \in DOMAIN I : \A u \in DOMAIN I[q] : I[q][u].key = k => UpTo(q, u, p, s)
  BY DEF LastAt, I
<1> DEFINE IsLast(r) == \A q \in Places(k) : q[1] < r[1] \/ (q[1] = r[1] /\ q[2] <= r[2])
<1>6. <<p, s>> \in Places(k)
  BY <1>3, <1>5
<1>7. IsLast(<<p, s>>)
  <2> SUFFICES ASSUME NEW r \in Places(k)
               PROVE  r[1] < p \/ (r[1] = p /\ r[2] <= s)
    OBVIOUS
  <2>1. PICK q \in DOMAIN I : \E u \in DOMAIN I[q] : r = <<q, u>> /\ I[q][u].key = k
    BY <1>4
  <2>2. PICK u \in DOMAIN I[q] : r = <<q, u>> /\ I[q][u].key = k
    BY <2>1
  <2>3. UpTo(q, u, p, s)
    BY <1>5, <2>2
  <2> QED
    BY <2>2, <2>3 DEF UpTo
<1>8. ASSUME NEW r \in Places(k), IsLast(r) PROVE r = <<p, s>>
  <2>1. PICK q \in DOMAIN I : \E u \in DOMAIN I[q] : r = <<q, u>> /\ I[q][u].key = k
    BY <1>4
  <2>2. PICK u \in DOMAIN I[q] : r = <<q, u>> /\ I[q][u].key = k
    BY <2>1
  <2>3. UpTo(q, u, p, s)
    BY <1>5, <2>2
  <2>4. p < q \/ (p = q /\ s <= u)
    BY <1>6, <1>8, <2>2
  <2>5. p \in Nat /\ q \in Nat /\ s \in Nat /\ u \in Nat
    BY <1>2, <1>5
  <2>6. p = q /\ s = u
    BY <2>3, <2>4, <2>5 DEF UpTo
  <2> QED
    BY <2>2, <2>6
<1> DEFINE c == CHOOSE r \in Places(k) : IsLast(r)
<1>9. LastStored(k) = Image[c[1]][c[2]].value
  BY <1>6, Zenon DEF LastStored
<1>10. c \in Places(k) /\ IsLast(c)
  <2> HIDE DEF IsLast
  <2> QED
    BY <1>6, <1>7
<1> HIDE DEF c
<1>11. c = <<p, s>>
  BY <1>8, <1>10
<1> QED
  BY <1>9, <1>11

\* The record logged last is the one the invariant speaks of.
LEMMA LastLoggedIs ==
    ASSUME Inv, NEW k \in Keys, Logged(k) # {}
    PROVE  \E i \in DOMAIN log : /\ LastOfKey(log, Len(log), i) /\ log[i].key = k
                                 /\ LastLogged(k) = log[i].value
<1>1. Len(log) \in Nat /\ DOMAIN log = 1 .. Len(log)
  BY HealTypes
<1>2. Logged(k) \in SUBSET (1 .. Len(log)) /\ \A i \in Logged(k) : log[i].key = k
  BY <1>1 DEF Logged
<1>3. PICK i \in Logged(k) : \A j \in Logged(k) : j <= i
  BY <1>1, <1>2, LargestOf
<1>4. \A x \in Logged(k) : (\A j \in Logged(k) : j <= x) => x = i
  <2> SUFFICES ASSUME NEW x \in Logged(k), \A j \in Logged(k) : j <= x PROVE x = i
    OBVIOUS
  <2>1. x <= i /\ i <= x
    BY <1>3
  <2>2. x \in Nat /\ i \in Nat
    BY <1>2
  <2> QED
    BY <2>1, <2>2
<1>5. (CHOOSE x \in Logged(k) : \A j \in Logged(k) : j <= x) = i
  BY <1>3, <1>4
<1>6. LastLogged(k) = log[i].value
  BY <1>5 DEF LastLogged
<1>7. LastOfKey(log, Len(log), i)
  BY <1>1, <1>2, <1>3 DEF LastOfKey, Logged
<1> QED
  BY <1>1, <1>2, <1>6, <1>7

\* The invariant holds in an empty, closed database.
LEMMA HealsInit == Init => Heals
<1> SUFFICES ASSUME Init PROVE Heals
  OBVIOUS
<1>1. Image = Append(<<>>, <<>>) /\ status = "down" /\ pc = Idle
  BY DEF Init, Image, EmptyPage
<1>2. DOMAIN Image = 1 .. 1 /\ DOMAIN Image[1] = {}
  BY <1>1
<1>3. \A q \in DOMAIN Image : DOMAIN Image[q] = {}
  BY <1>2
<1> QED
  BY <1>1, <1>3 DEF Heals, AllLogged, Idle

\* What the invariant says of an open database.
LEMMA HealsMeans == Inv /\ Heals => ReplayHealsFile
<1> SUFFICES ASSUME Inv, Heals, status = "up", lock_shared, LogReplayable, NEW k \in Keys
             PROVE  LastStored(k) = LastLogged(k)
  BY DEF ReplayHealsFile
<1>1. CASE Logged(k) = {}
  <2>1. Places(k) = {}
    <3>1. ASSUME NEW p \in DOMAIN Image, NEW s \in DOMAIN Image[p] PROVE Image[p][s].key # k
      BY <1>1 DEF Heals, AllLogged, Logged
    <3> QED
      BY <3>1 DEF Places
  <2> QED
    BY <1>1, <2>1 DEF LastStored, LastLogged
<1>2. CASE Logged(k) # {}
  <2>1. PICK i \in DOMAIN log : /\ LastOfKey(log, Len(log), i) /\ log[i].key = k
                                /\ LastLogged(k) = log[i].value
    BY <1>2, LastLoggedIs
  <2>2. Agrees(Image, log, Len(log))
    BY DEF Heals
  <2>3. i \in 1 .. Len(log)
    BY <2>1 DEF LastOfKey
  <2>4. PICK p \in DOMAIN Image : \E s \in DOMAIN Image[p] :
           LastAt(Image, p, s, k) /\ Image[p][s].value = log[i].value
    BY <2>1, <2>2, <2>3, Zenon DEF Agrees
  <2>5. PICK s \in DOMAIN Image[p] : LastAt(Image, p, s, k) /\ Image[p][s].value = log[i].value
    BY <2>4
  <2> QED
    BY <2>1, <2>5, LastStoredIs
<1> QED
  BY <1>1, <1>2

\* Whatever crashes and restarts came before, once the constructor has
\* replayed a log it can read and store to the end, the last record of every
\* key in the file and the writer's page is the one logged last: the next
\* clean close leaves a file from which recovery is exact.
THEOREM ReplayHeals == Spec => []ReplayHealsFile
<1>1. Init => LsnCounts /\ SessionFresh
  BY LsnInit, FreshInit
<1> QED
  BY <1>1, Invariance, LsnStep, FreshStep, HealsInit, HealsStep, HealsMeans, PTL DEF Spec
-----------------------------------------------------------------------------
\* Clean restarts.

\* The process never dies, and no value is too large for a page.
CleanOnly == ~ MayCrash /\ \A v \in Values : Fits(EmptyPage(0), v)

\* The first n log records say x of key k: the value logged last, or nothing.
LogHolds(l, n, k, x) ==
    \/ x = NoValue /\ \A i \in 1 .. n : l[i].key # k
    \/ \E i \in 1 .. n : LastOfKey(l, n, i) /\ l[i].key = k /\ l[i].value = x

\* The first n pages say x of key k: the value stored last, or nothing.
PagesHold(pages, n, k, x) ==
    \/ x = NoValue /\ \A q \in 1 .. n : \A u \in DOMAIN pages[q] : pages[q][u].key # k
    \/ \E p \in 1 .. n : \E s \in DOMAIN pages[p] :
          /\ pages[p][s].key = k /\ pages[p][s].value = x
          /\ \A q \in 1 .. n : \A u \in DOMAIN pages[q] :
                pages[q][u].key = k => UpTo(q, u, p, s)

\* A scan that has come to cursor c has seen place (q, u).
Scanned(q, u, c) == q <= c.page_id \/ (q = c.page_id + 1 /\ u <= c.slot_id)

\* The index finds the last record of key k that a scan up to cursor c sees.
IndexedTo(k, c) ==
    /\ index[k] = NoRid =>
          \A q \in 1 .. mapped : \A u \in DOMAIN file[q] : Scanned(q, u, c) => file[q][u].key # k
    /\ index[k] # NoRid =>
          /\ Found(k)
          /\ \A q \in 1 .. mapped : \A u \in DOMAIN file[q] :
                Scanned(q, u, c) /\ file[q][u].key = k =>
                    UpTo(q, u, index[k].page_id + 1, index[k].slot_id + 1)

ScanEnd == [page_id |-> mapped, slot_id |-> 0]

\* The invariant, in four parts.  The log can be replayed and says of every
\* key what was put last, but for the record that a put has logged and not
\* stored yet.
LogClean ==
    /\ LogReplayable
    /\ lock_shared => \A k \in Keys : LogHolds(log, Len(log), k, acked[k])
    /\ \A t \in Threads : pc[t] = "store" => \A k \in Keys : LogHolds(log, Len(log) - 1, k, acked[k])

\* So does the file that is closed, and the mapped part of the file that is
\* open, for the keys not put since.
FileClean ==
    /\ status = "down" => \A k \in Keys : PagesHold(file, Len(file), k, acked[k])
    /\ status # "down" => \A k \in Keys \ session : PagesHold(file, mapped, k, acked[k])

\* The index finds the last mapped record of each of these keys.
IndexClean ==
    /\ status = "rebuild" => \A k \in Keys : IndexedTo(k, cursor)
    /\ status = "up" /\ mapped > 0 => \A k \in Keys \ session : IndexedTo(k, ScanEnd)

\* The cache follows the log while it is replayed and holds what was put last
\* afterwards, and a value on its way into the cache is what was put last.
CacheClean ==
    /\ status = "down" => cache = <<>>
    /\ status = "replay" => \A i \in DOMAIN cache : LogHolds(log, Replayed, cache[i].key, cache[i].value)
    /\ status \in {"rebuild", "up"} => \A i \in DOMAIN cache : cache[i].value = acked[cache[i].key]
    /\ \A t \in Threads : pc[t] = "fill" => arg[t].value = acked[arg[t].key]

\* One more log record says the same of other keys.
LEMMA LogHoldsNext ==
    ASSUME NEW l, NEW n \in Nat, NEW k, NEW x, LogHolds(l, n, k, x), l[n + 1].key # k
    PROVE  LogHolds(l, n + 1, k, x)
<1>1. \A i \in 1 .. n + 1 : i \in 1 .. n \/ i = n + 1
  OBVIOUS
<1>2. CASE x = NoValue /\ \A i \in 1 .. n : l[i].key # k
  BY <1>1, <1>2 DEF LogHolds
<1>3. CASE \E i \in 1 .. n : LastOfKey(l, n, i) /\ l[i].key = k /\ l[i].value = x
  <2>1. PICK i \in 1 .. n : LastOfKey(l, n, i) /\ l[i].key = k /\ l[i].value = x
    BY <1>3
  <2>2. i \in 1 .. n + 1 /\ LastOfKey(l, n + 1, i)
    BY <1>1, <2>1 DEF LastOfKey
  <2> QED
    BY <2>1, <2>2 DEF LogHolds
<1> QED
  BY <1>2, <1>3 DEF LogHolds

\* Of its own key it says its value.
LEMMA LogHoldsLast ==
    ASSUME NEW l, NEW n \in Nat, NEW k, NEW x, l[n + 1].key = k, l[n + 1].value = x
    PROVE  LogHolds(l, n + 1, k, x)
<1>1. n + 1 \in 1 .. n + 1 /\ LastOfKey(l, n + 1, n + 1)
  BY DEF LastOfKey
<1> QED
  BY <1>1 DEF LogHolds

\* What the first n records say depends on them only.
LEMMA LogHoldsPrefix ==
    ASSUME NEW l, NEW m, NEW n \in Nat, \A i \in 1 .. n : m[i] = l[i],
           NEW k, NEW x, LogHolds(l, n, k, x)
    PROVE  LogHolds(m, n, k, x)
  BY DEF LogHolds, LastOfKey

\* Records say one thing of a key.
LEMMA LogHoldsUnique ==
    ASSUME NEW l, NEW n \in Nat, NEW k, NEW x, NEW y, LogHolds(l, n, k, x), LogHolds(l, n, k, y)
    PROVE  x = y
<1>1. CASE \A i \in 1 .. n : l[i].key # k
  BY <1>1 DEF LogHolds
<1>2. CASE ~ \A i \in 1 .. n : l[i].key # k
  <2>1. PICK i \in 1 .. n : LastOfKey(l, n, i) /\ l[i].key = k /\ l[i].value = x
    BY <1>2 DEF LogHolds
  <2>2. PICK j \in 1 .. n : LastOfKey(l, n, j) /\ l[j].key = k /\ l[j].value = y
    BY <1>2 DEF LogHolds
  <2>3. i <= j /\ j <= i
    BY <2>1, <2>2 DEF LastOfKey
  <2>4. i = j
    BY <2>3
  <2> QED
    BY <2>1, <2>2, <2>4
<1> QED
  BY <1>1, <1>2

\* Pages that agree with the log say what it says.
LEMMA PagesSayLog ==
    ASSUME NEW pages, NEW n, DOMAIN pages = 1 .. n, NEW l, NEW m, DOMAIN l = 1 .. m,
           Agrees(pages, l, m), AllLogged(pages, l), NEW k, NEW x, LogHolds(l, m, k, x)
    PROVE  PagesHold(pages, n, k, x)
<1>1. CASE x = NoValue /\ \A i \in 1 .. m : l[i].key # k
  BY <1>1 DEF AllLogged, PagesHold
<1>2. CASE \E i \in 1 .. m : LastOfKey(l, m, i) /\ l[i].key = k /\ l[i].value = x
  <2>1. PICK i \in 1 .. m : LastOfKey(l, m, i) /\ l[i].key = k /\ l[i].value = x
    BY <1>2
  <2>2. PICK p \in DOMAIN pages : \E s \in DOMAIN pages[p] :
           LastAt(pages, p, s, k) /\ pages[p][s].value = x
    BY <2>1, Zenon DEF Agrees
  <2>3. PICK s \in DOMAIN pages[p] : LastAt(pages, p, s, k) /\ pages[p][s].value = x
    BY <2>2
  <2> QED
    BY <2>3 DEF LastAt, PagesHold
<1> QED
  BY <1>1, <1>2 DEF LogHolds

\* What the first n pages say depends on them only.
LEMMA PagesHoldPrefix ==
    ASSUME NEW pages, NEW more, NEW n, \A q \in 1 .. n : more[q] = pages[q],
           NEW k, NEW x, PagesHold(pages, n, k, x)
    PROVE  PagesHold(more, n, k, x)
  BY DEF PagesHold

\* An empty last page says nothing.
LEMMA PagesHoldShort ==
    ASSUME NEW pages, NEW n \in Nat, DOMAIN pages[n + 1] = {},
           NEW k, NEW x, PagesHold(pages, n + 1, k, x)
    PROVE  PagesHold(pages, n, k, x)
<1>1. \A q \in 1 .. n : q \in 1 .. n + 1
  OBVIOUS
<1>2. \A q \in 1 .. n + 1 : q # n + 1 => q \in 1 .. n
  OBVIOUS
<1>3. CASE x = NoValue /\ \A q \in 1 .. n + 1 : \A u \in DOMAIN pages[q] : pages[q][u].key # k
  BY <1>1, <1>3 DEF PagesHold
<1>4. CASE \E p \in 1 .. n + 1 : \E s \in DOMAIN pages[p] :
              /\ pages[p][s].key = k /\ pages[p][s].value = x
              /\ \A q \in 1 .. n + 1 : \A u \in DOMAIN pages[q] :
                    pages[q][u].key = k => UpTo(q, u, p, s)
  <2>1. PICK p \in 1 .. n + 1 : \E s \in DOMAIN pages[p] :
              /\ pages[p][s].key = k /\ pages[p][s].value = x
              /\ \A q \in 1 .. n + 1 : \A u \in DOMAIN pages[q] :
                    pages[q][u].key = k => UpTo(q, u, p, s)
    BY <1>4
  <2>2. p \in 1 .. n
    BY <1>2, <2>1
  <2> QED
    BY <1>1, <2>1, <2>2 DEF PagesHold
<1> QED
  BY <1>3, <1>4 DEF PagesHold

\* Without crashes and oversized values no call and no replay fails, and every
\* record is logged whole.
LEMMA NothingFails ==
    ASSUME CleanOnly, Inv
    PROVE  /\ ~ replay_throw /\ ~ crash /\ ~ \E k \in Keys, v \in Values : crash_tear(k, v)
           /\ \A t \in Threads : ~ put_throw(t)
           /\ \A v \in Values : LengthFits(v) /\ Fits(EmptyPage(0), v)
<1>1. ~ MayCrash /\ \A v \in Values : Fits(EmptyPage(0), v)
  BY DEF CleanOnly
<1>2. ~ crash /\ ~ \E k \in Keys, v \in Values : crash_tear(k, v)
  BY <1>1 DEF crash, crash_tear
<1>3. ~ replay_throw
  <2> SUFFICES ASSUME replay_throw PROVE FALSE
    OBVIOUS
  <2>1. Replayed + 1 \in DOMAIN log /\ ~ Fits(EmptyPage(writer.page_id + 1), log[Replayed + 1].value)
    BY DEF replay_throw, Readable
  <2>2. log[Replayed + 1] \in WalRecords
    BY <2>1, HealTypes
  <2>3. log[Replayed + 1].value \in Values
    BY <2>2 DEF WalRecords
  <2> QED
    BY <1>1, <2>1, <2>3, FitsFresh
<1>4. ASSUME NEW t \in Threads, put_throw(t) PROVE FALSE
  <2>1. pc[t] = "store" /\ ~ Fits(EmptyPage(writer.page_id + 1), arg[t].value)
    BY <1>4 DEF put_throw, append_throw
  <2>2. arg[t] \in Entries
    BY <2>1 DEF Inv, CallsHoldRecords
  <2>3. arg[t].value \in Values
    BY <2>2 DEF Entries
  <2> QED
    BY <1>1, <2>1, <2>3, FitsFresh
<1>5. ASSUME NEW v \in Values PROVE LengthFits(v)
  <2>1. KeyLen \in Nat /\ ByteLen[v] \in Nat
    BY RecordsAssumption
  <2>2. Fits(EmptyPage(0), v)
    BY <1>1
  <2>3. EmptyPage(0).free_space_offset = 4096 /\ Len(EmptyPage(0).slots) = 0
    BY DEF EmptyPage, PAGE_SIZE
  <2>4. ByteLen[v] < 65536
    BY <2>1, <2>2, <2>3
    DEF Fits, SlotsEnd, record_data_size, PAGE_HEADER_SIZE, SLOT_COUNT_SIZE, SLOT_SIZE, RECORD_HEADER_SIZE
  <2>5. 2 ^ 16 = 65536
    OBVIOUS
  <2> QED
    BY <2>4, <2>5 DEF LengthFits
<1> QED
  BY <1>1, <1>2, <1>3, <1>4, <1>5

\* The pages of the file stay as they are when a record is stored.
LEMMA FileStays ==
    ASSUME file \in PageSeqs, writer \in WriterPages, NEW k, NEW v,
           append_here(k, v) \/ append_next(k, v)
    PROVE  Len(file) \in Nat /\ \A q \in 1 .. Len(file) : file'[q] = file[q]
<1>1. writer.slots \in Seq(SlotEntries)
  BY DEF WriterPages
<1>2. file' = file \/ file' = Append(file, writer.slots)
  BY DEF append_here, append_next
<1> QED
  BY <1>1, <1>2, PageAppended

\* The log after every step.
LEMMA LogCleanStep ==
    ASSUME CleanOnly, Inv, SessionFresh, Heals, LogClean, [Next]_vars
    PROVE  LogClean'
<1>1. /\ log \in Seq(WalRecords) /\ Len(log) \in Nat /\ DOMAIN log = 1 .. Len(log) /\ current_lsn \in Nat
      /\ pc \in [Threads -> {"idle", "store", "fill"}] /\ acked \in [Keys -> Values \cup {NoValue}]
  BY HealTypes, TypeParts DEF Inv, RestTypeOK
<1>2. ASSUME UNCHANGED <<log, acked>>, \A u \in Threads : pc'[u] = "store" <=> pc[u] = "store"
      PROVE  LogClean'
  BY <1>2 DEF LogClean, LogReplayable, lock_shared
<1>3. CASE open \/ replay_record \/ replay_end \/ rebuild_slot \/ rebuild_page \/ rebuild_end
  BY <1>2, <1>3 DEF open, replay_record, replay_end, rebuild_slot, rebuild_page, rebuild_end
<1>4. CASE close
  BY <1>2, <1>4 DEF close, Vanish
<1>5. ASSUME NEW t \in Threads, NEW k \in Keys, NEW v \in Values, put_log(t, k, v)
      PROVE  LogClean'
  <2> DEFINE r == LogRecord(k, v, TRUE)
             n == Len(log)
  <2>1. /\ \A u \in Threads : pc[u] = "idle"
        /\ pc' = [pc EXCEPT ![t] = "store"] /\ log' = Append(log, r) /\ acked' = acked
    BY <1>5 DEF put_log, lock, wal_append
  <2>2. r \in WalRecords /\ r.value = v /\ r.valid /\ Fits(EmptyPage(0), v)
    BY <1>1, LogRecordFacts, NothingFails
  <2> HIDE DEF r
  <2>3. /\ Len(log') = n + 1 /\ DOMAIN log' = 1 .. n + 1
        /\ \A i \in 1 .. n : log'[i] = log[i]
        /\ log'[n + 1] = r
    BY <1>1, <2>1, <2>2, LogAppended
  <2>4. Len(log') - 1 = n /\ n \in Nat /\ DOMAIN log = 1 .. n
    BY <1>1, <2>3
  <2>5. lock_shared
    BY <2>1 DEF lock_shared
  <2>6. \A j \in Keys : LogHolds(log, n, j, acked[j])
    BY <2>5 DEF LogClean
  <2> HIDE DEF n
  <2>7. LogReplayable'
    <3>1. \A i \in DOMAIN log' : i \in 1 .. n \/ i = n + 1
      BY <2>3, <2>4
    <3>2. \A i \in 1 .. n : log[i].valid /\ Fits(EmptyPage(0), log[i].value)
      BY <2>4 DEF LogClean, LogReplayable
    <3> QED
      BY <2>2, <2>3, <3>1, <3>2 DEF LogReplayable
  <2>8. \A j \in Keys : LogHolds(log', Len(log') - 1, j, acked'[j])
    <3> SUFFICES ASSUME NEW j \in Keys PROVE LogHolds(log', n, j, acked[j])
      BY <2>1, <2>4
    <3>1. LogHolds(log, n, j, acked[j])
      BY <2>6
    <3> QED
      BY <2>3, <2>4, <3>1, LogHoldsPrefix
  <2>9. ~ lock_shared'
    BY <1>1, <2>1 DEF lock_shared
  <2> QED
    BY <2>7, <2>8, <2>9 DEF LogClean
<1>6. ASSUME NEW t \in Threads, put_store(t) PROVE LogClean'
  <2> DEFINE k == arg[t].key
             v == arg[t].value
             n == Len(log)
  <2>1. /\ pc[t] = "store" /\ pc' = [pc EXCEPT ![t] = "idle"]
        /\ log' = log /\ acked' = [acked EXCEPT ![k] = v]
    BY <1>6 DEF put_store, Returns
  <2>2. n > 0 /\ log[n].key = k /\ log[n].value = v
    BY <2>1 DEF Heals
  <2>3. n - 1 \in Nat /\ (n - 1) + 1 = n
    BY <1>1, <2>2
  <2>4. \A j \in Keys : LogHolds(log, n - 1, j, acked[j])
    BY <2>1 DEF LogClean
  <2> HIDE DEF n, k, v
  <2>5. ASSUME NEW j \in Keys PROVE LogHolds(log, n, j, acked'[j])
    <3>1. CASE j = k
      <4>1. acked'[j] = v
        BY <1>1, <2>1, <3>1
      <4>2. log[(n - 1) + 1].key = k /\ log[(n - 1) + 1].value = v
        BY <2>2, <2>3
      <4>3. LogHolds(log, (n - 1) + 1, k, v)
        BY <2>3, <4>2, LogHoldsLast
      <4> QED
        BY <2>3, <3>1, <4>1, <4>3
    <3>2. CASE j # k
      <4>1. acked'[j] = acked[j]
        BY <1>1, <2>1, <3>2
      <4>2. log[(n - 1) + 1].key # j
        BY <2>2, <2>3, <3>2
      <4>3. LogHolds(log, (n - 1) + 1, j, acked[j])
        BY <2>3, <2>4, <4>2, LogHoldsNext
      <4> QED
        BY <2>3, <4>1, <4>3
    <3> QED
      BY <3>1, <3>2
  <2>6. \A u \in Threads : pc'[u] = "idle"
    BY <1>1, <2>1 DEF SessionFresh
  <2>7. LogReplayable'
    BY <2>1 DEF LogReplayable, LogClean
  <2> QED
    BY <2>1, <2>5, <2>6, <2>7 DEF LogClean, n
<1>7. ASSUME NEW t \in Threads, NEW k \in Keys, get_hit(t, k) \/ get_read(t, k) PROVE LogClean'
  <2>1. /\ UNCHANGED <<log, acked>>
        /\ pc' = pc \/ (pc[t] = "idle" /\ pc' = [pc EXCEPT ![t] = "fill"])
    BY <1>7 DEF get_hit, get_read
  <2>2. \A u \in Threads : pc'[u] = "store" <=> pc[u] = "store"
    BY <1>1, <2>1
  <2> QED
    BY <1>2, <2>1, <2>2
<1>8. ASSUME NEW t \in Threads, get_fill(t) PROVE LogClean'
  <2>1. UNCHANGED <<log, acked>> /\ pc[t] = "fill" /\ pc' = [pc EXCEPT ![t] = "idle"]
    BY <1>8 DEF get_fill, Returns
  <2>2. \A u \in Threads : pc'[u] = "store" <=> pc[u] = "store"
    BY <1>1, <2>1
  <2> QED
    BY <1>2, <2>1, <2>2
<1>9. CASE UNCHANGED vars
  BY <1>2, <1>9 DEF vars
<1> QED
  BY <1>3, <1>4, <1>5, <1>6, <1>7, <1>8, <1>9, NothingFails DEF Next, Construct

\* The file after every step.
LEMMA FileCleanStep ==
    ASSUME CleanOnly, Inv, SessionFresh, Heals, LogClean, FileClean, [Next]_vars
    PROVE  FileClean'
<1>1. /\ file \in PageSeqs /\ writer \in WriterPages /\ writer.slots \in Seq(SlotEntries)
      /\ mapped \in Nat /\ Len(file) \in Nat /\ mapped <= Len(file)
      /\ acked \in [Keys -> Values \cup {NoValue}] /\ DOMAIN log = 1 .. Len(log)
  <2>1. RestTypeOK /\ mapped <= Len(file) /\ file \in PageSeqs
    BY HealTypes, TypeParts DEF Inv, MappedInFile
  <2>2. Len(file) \in Nat
    BY <2>1 DEF PageSeqs
  <2> QED
    BY <2>1, <2>2, HealTypes DEF RestTypeOK
<1>2. ASSUME UNCHANGED <<file, mapped, acked, session>>, status # "down", status' # "down"
      PROVE  FileClean'
  BY <1>2 DEF FileClean
<1>3. CASE open
  <2>1. status = "down" /\ status' = "replay" /\ mapped' = Len(file) /\ UNCHANGED <<file, acked>>
    BY <1>3 DEF open, map_file
  <2> QED
    BY <2>1 DEF FileClean
<1>4. CASE replay_end \/ rebuild_slot \/ rebuild_page \/ rebuild_end
  <2>1. UNCHANGED <<file, mapped, acked, session>> /\ status # "down" /\ status' # "down"
    BY <1>4 DEF replay_end, rebuild_slot, rebuild_page, rebuild_end
  <2> QED
    BY <1>2, <2>1
<1>5. ASSUME NEW k, NEW v, append_here(k, v) \/ append_next(k, v),
             status # "down", status' # "down", mapped' = mapped,
             \A j \in Keys \ session' : j \in Keys \ session /\ acked'[j] = acked[j]
      PROVE  FileClean'
  <2>1. \A q \in 1 .. Len(file) : file'[q] = file[q]
    BY <1>1, <1>5, FileStays
  <2>2. \A q \in 1 .. mapped : file'[q] = file[q]
    BY <1>1, <2>1
  <2> QED
    BY <1>5, <2>2, PagesHoldPrefix DEF FileClean
<1>6. CASE replay_record
  <2> DEFINE k == log[Replayed + 1].key
             v == log[Replayed + 1].value
  <2>1. /\ append_here(k, v) \/ append_next(k, v)
        /\ status = "replay" /\ UNCHANGED <<status, mapped, acked, session>>
    BY <1>6 DEF replay_record
  <2> HIDE DEF k, v
  <2> QED
    BY <1>5, <2>1
<1>7. ASSUME NEW t \in Threads, put_store(t) PROVE FileClean'
  <2> DEFINE k == arg[t].key
             v == arg[t].value
  <2>1. /\ append_here(k, v) \/ append_next(k, v)
        /\ status = "up" /\ UNCHANGED <<status, mapped>>
        /\ acked' = [acked EXCEPT ![k] = v] /\ session' = session \cup {k}
    BY <1>7 DEF put_store, Inv, CallsHoldRecords
  <2> HIDE DEF k, v
  <2>2. \A j \in Keys \ session' : j \in Keys \ session /\ acked'[j] = acked[j]
    BY <1>1, <2>1
  <2> QED
    BY <1>5, <2>1, <2>2
<1>8. ASSUME NEW t \in Threads,
             \/ \E k \in Keys : (\E v \in Values : put_log(t, k, v)) \/ get_hit(t, k) \/ get_read(t, k)
             \/ get_fill(t)
      PROVE  FileClean'
  <2>1. UNCHANGED <<file, mapped, acked, session, status>> /\ status # "down"
    BY <1>8 DEF put_log, get_hit, get_read, get_fill, volatile, Inv, CallsHoldRecords
  <2> QED
    BY <1>2, <2>1
<1>9. CASE close
  <2> DEFINE n == Len(file)
  <2>1. status = "up" /\ status' = "down" /\ pc = Idle /\ file' = Flushed /\ acked' = acked
    BY <1>9 DEF close, Vanish
  <2>2. lock_shared
    BY <2>1 DEF lock_shared, Idle
  <2>3. /\ DOMAIN Image = 1 .. n + 1 /\ (\A p \in 1 .. n : Image[p] = file[p])
        /\ Image[n + 1] = writer.slots /\ Image \in PageSeqs
    BY <1>1, PageAppended DEF Image
  <2>4. Len(Image) = n + 1
    BY <1>1, <2>3 DEF PageSeqs
  <2>5. ASSUME NEW k \in Keys PROVE PagesHold(Image, n + 1, k, acked[k])
    <3>1. Agrees(Image, log, Len(log)) /\ AllLogged(Image, log)
      BY <2>1, <2>2 DEF Heals, LogClean
    <3>2. LogHolds(log, Len(log), k, acked[k])
      BY <2>2 DEF LogClean
    <3> QED
      BY <1>1, <2>3, <3>1, <3>2, PagesSayLog
  <2>6. ASSUME NEW k \in Keys PROVE PagesHold(file', Len(file'), k, acked'[k])
    <3>1. CASE file' = Image
      BY <2>1, <2>4, <2>5, <3>1
    <3>2. CASE file' = file /\ writer.slots = <<>>
      <4>1. DOMAIN Image[n + 1] = {}
        BY <2>3, <3>2
      <4>2. PagesHold(Image, n, k, acked[k])
        BY <1>1, <2>5, <4>1, PagesHoldShort
      <4>3. \A q \in 1 .. n : file[q] = Image[q]
        BY <2>3
      <4>4. PagesHold(file, n, k, acked[k])
        BY <4>2, <4>3, PagesHoldPrefix
      <4> QED
        BY <2>1, <3>2, <4>4
    <3> QED
      BY <2>1, <3>1, <3>2 DEF Flushed, Image
  <2> QED
    BY <2>1, <2>6 DEF FileClean
<1>10. CASE UNCHANGED vars
  BY <1>10 DEF vars, volatile, FileClean
<1> QED
  BY <1>3, <1>4, <1>6, <1>7, <1>8, <1>9, <1>10, NothingFails DEF Next, Construct

\* In an open database the index leads to what was put last.
LEMMA ReadsAcked ==
    ASSUME Inv, FileClean, IndexClean, status = "up", NEW k \in Keys \ session
    PROVE  (IF Found(k) THEN RecordAt(index[k]).value ELSE NoValue) = acked[k]
<1> DEFINE p == index[k].page_id + 1
           s == index[k].slot_id + 1
<1>1. /\ file \in PageSeqs /\ mapped \in Nat /\ index[k] \in RecordIds \cup {NoRid} /\ mapped <= Len(file)
  BY HealTypes, TypeParts DEF Inv, RestTypeOK, MappedInFile
<1>2. PagesHold(file, mapped, k, acked[k])
  BY DEF FileClean
<1>3. Len(file) \in Nat /\ DOMAIN file = 1 .. Len(file) /\ \A q \in 1 .. mapped : file[q] \in Seq(SlotEntries)
  BY <1>1 DEF PageSeqs
<1>4. CASE mapped = 0
  <2>1. ~ Found(k)
    BY <1>1, <1>4 DEF Found, Reads, RecordIds, NoRid
  <2>2. acked[k] = NoValue
    BY <1>2, <1>4 DEF PagesHold
  <2> QED
    BY <2>1, <2>2
<1>5. CASE mapped > 0
  <2>1. IndexedTo(k, ScanEnd)
    BY <1>5 DEF IndexClean
  <2>2. \A q \in 1 .. mapped : \A u : Scanned(q, u, ScanEnd)
    BY <1>1 DEF Scanned, ScanEnd
  <2>3. CASE index[k] = NoRid
    <3>1. ~ Found(k)
      BY <2>3 DEF Found, Reads, NoRid
    <3>2. \A q \in 1 .. mapped : \A u \in DOMAIN file[q] : file[q][u].key # k
      BY <2>1, <2>2, <2>3 DEF IndexedTo
    <3>3. acked[k] = NoValue
      BY <1>2, <3>2 DEF PagesHold
    <3> QED
      BY <3>1, <3>3
  <2>4. CASE index[k] # NoRid
    <3>1. Found(k) /\ index[k].page_id \in Nat /\ index[k].slot_id \in Nat
      BY <1>1, <2>1, <2>4 DEF IndexedTo, RecordIds
    <3>2. /\ p \in 1 .. mapped /\ index[k].slot_id < Len(file[p])
          /\ RecordAt(index[k]) = file[p][s] /\ file[p][s].key = k
      BY <1>1, <3>1 DEF Found, Reads, RecordAt
    <3>3. s \in DOMAIN file[p] /\ s \in Nat /\ p \in Nat
      <4>1. Len(file[p]) \in Nat /\ DOMAIN file[p] = 1 .. Len(file[p])
        BY <1>3, <3>2
      <4> HIDE DEF p
      <4>2. s \in 1 .. Len(file[p])
        BY <3>1, <3>2, <4>1
      <4> QED
        BY <1>1, <3>1, <3>2, <4>1, <4>2
    <3>4. \A q \in 1 .. mapped : \A u \in DOMAIN file[q] : file[q][u].key = k => UpTo(q, u, p, s)
      BY <2>1, <2>2, <2>4 DEF IndexedTo
    <3> HIDE DEF p, s
    <3>5. PICK q \in 1 .. mapped : \E u \in DOMAIN file[q] :
            /\ file[q][u].key = k /\ file[q][u].value = acked[k]
            /\ \A x \in 1 .. mapped : \A y \in DOMAIN file[x] : file[x][y].key = k => UpTo(x, y, q, u)
      BY <1>2, <3>2, <3>3, Zenon DEF PagesHold
    <3>6. PICK u \in DOMAIN file[q] :
            /\ file[q][u].key = k /\ file[q][u].value = acked[k]
            /\ \A x \in 1 .. mapped : \A y \in DOMAIN file[x] : file[x][y].key = k => UpTo(x, y, q, u)
      BY <3>5
    <3>7. UpTo(q, u, p, s) /\ UpTo(p, s, q, u)
      BY <3>2, <3>3, <3>4, <3>6
    <3>8. u \in Nat /\ q \in Nat
      BY <1>3
    <3>9. q = p /\ u = s
      BY <3>3, <3>7, <3>8 DEF UpTo
    <3> QED
      BY <3>1, <3>2, <3>6, <3>9
  <2> QED
    BY <2>3, <2>4
<1> QED
  BY <1>1, <1>4, <1>5

\* The index after every step.
LEMMA IndexCleanStep ==
    ASSUME CleanOnly, Inv, SessionFresh, IndexClean, [Next]_vars
    PROVE  IndexClean'
<1>1. /\ file \in PageSeqs /\ writer \in WriterPages
      /\ mapped \in Nat /\ Len(file) \in Nat /\ mapped <= Len(file)
      /\ index \in [Keys -> RecordIds \cup {NoRid}] /\ cursor \in RecordIds
      /\ DOMAIN file = 1 .. Len(file) /\ \A q \in 1 .. mapped : file[q] \in Seq(SlotEntries)
  <2>1. RestTypeOK /\ mapped <= Len(file) /\ file \in PageSeqs
    BY HealTypes, TypeParts DEF Inv, MappedInFile
  <2>2. Len(file) \in Nat /\ DOMAIN file = 1 .. Len(file) /\ \A q \in 1 .. Len(file) : file[q] \in Seq(SlotEntries)
    BY <2>1 DEF PageSeqs
  <2>3. mapped \in Nat
    BY <2>1 DEF RestTypeOK
  <2>4. \A q \in 1 .. mapped : q \in 1 .. Len(file)
    BY <2>1, <2>2, <2>3
  <2> QED
    BY <2>1, <2>2, <2>4, HealTypes DEF RestTypeOK
<1>2. cursor.page_id \in Nat /\ cursor.slot_id \in Nat
  BY <1>1 DEF RecordIds
<1>3. ASSUME UNCHANGED <<file, mapped, index, cursor, status, session>>
      PROVE  IndexClean'
  <2>1. \A k \in Keys : Found(k)' <=> Found(k)
    BY <1>3 DEF Found, Reads, RecordAt
  <2>2. \A k \in Keys : IndexedTo(k, cursor)' <=> IndexedTo(k, cursor)
    BY <1>3, <2>1 DEF IndexedTo
  <2>3. \A k \in Keys : IndexedTo(k, ScanEnd)' <=> IndexedTo(k, ScanEnd)
    BY <1>3, <2>1 DEF IndexedTo, ScanEnd
  <2> QED
    BY <1>3, <2>2, <2>3 DEF IndexClean
<1>4. CASE open \/ replay_record \/ close
  BY <1>4 DEF open, replay_record, close, Vanish, IndexClean
<1>5. CASE replay_end
  <2>1. CASE mapped > 0
    <3>1. status' = "rebuild" /\ index' = EmptyIndex /\ cursor' = LogStart /\ UNCHANGED <<file, mapped>>
      BY <1>5, <2>1 DEF replay_end
    <3>2. \A q \in 1 .. mapped : \A u \in DOMAIN file[q] : ~ Scanned(q, u, LogStart)
      BY <1>1 DEF Scanned, LogStart
    <3>3. \A k \in Keys : index'[k] = NoRid
      BY <3>1, BlankTypes
    <3> QED
      BY <3>1, <3>2, <3>3 DEF IndexClean, IndexedTo
  <2>2. CASE ~ (mapped > 0)
    BY <1>5, <2>2 DEF replay_end, IndexClean
  <2> QED
    BY <2>1, <2>2
<1>6. CASE rebuild_slot
  <2> DEFINE p == cursor.page_id + 1
             s == cursor.slot_id + 1
             k == RecordAt(cursor).key
  <2>1. /\ status = "rebuild" /\ status' = "rebuild" /\ Reads(mapped, cursor)
        /\ index' = [index EXCEPT ![k] = cursor]
        /\ UNCHANGED <<file, mapped>>
    BY <1>6 DEF rebuild_slot
  <2>2. cursor' = [cursor EXCEPT !.slot_id = @ + 1]
    BY <1>6, Zenon DEF rebuild_slot
  <2>3. cursor'.page_id = cursor.page_id /\ cursor'.slot_id = s
    BY <1>1, <2>2 DEF RecordIds
  <2>4. cursor # NoRid
    BY <1>2 DEF NoRid
  <2>5. k = file[p][s].key
    BY DEF RecordAt
  <2>6. ASSUME NEW q \in 1 .. mapped, NEW u \in DOMAIN file[q], Scanned(q, u, cursor')
        PROVE  Scanned(q, u, cursor) \/ (q = p /\ u = s)
    <3>1. u \in Nat
      BY <1>1
    <3> QED
      BY <1>2, <2>3, <2>6, <3>1 DEF Scanned
  <2>7. ASSUME NEW q \in 1 .. mapped, NEW u \in DOMAIN file[q], Scanned(q, u, cursor')
        PROVE  UpTo(q, u, p, s)
    <3>1. u \in Nat
      BY <1>1
    <3> QED
      BY <1>2, <2>3, <2>7, <3>1 DEF Scanned, UpTo
  <2>8. ASSUME NEW j \in Keys PROVE IndexedTo(j, cursor)'
    <3>1. CASE j = k
      <4>1. index'[j] = cursor
        BY <1>1, <2>1, <3>1
      <4>2. Found(j)'
        BY <2>1, <3>1, <4>1 DEF Found, Reads, RecordAt
      <4> QED
        BY <2>1, <2>4, <2>7, <4>1, <4>2 DEF IndexedTo
    <3>2. CASE j # k
      <4>1. index'[j] = index[j]
        BY <1>1, <2>1, <3>2
      <4>2. Found(j)' <=> Found(j)
        BY <2>1, <4>1 DEF Found, Reads, RecordAt
      <4>3. IndexedTo(j, cursor)
        BY <2>1 DEF IndexClean
      <4>4. \A q \in 1 .. mapped : \A u \in DOMAIN file[q] :
               Scanned(q, u, cursor') /\ file[q][u].key = j => Scanned(q, u, cursor)
        BY <2>5, <2>6, <3>2
      <4> HIDE DEF p, s, k
      <4> QED
        BY <2>1, <4>1, <4>2, <4>3, <4>4 DEF IndexedTo
    <3> QED
      BY <3>1, <3>2
  <2> QED
    BY <2>1, <2>8 DEF IndexClean
<1>7. CASE rebuild_page
  <2>1. /\ status = "rebuild" /\ status' = "rebuild" /\ UNCHANGED <<file, mapped, index>>
        /\ cursor.page_id < mapped /\ cursor.slot_id = Len(file[cursor.page_id + 1])
        /\ cursor' = [page_id |-> cursor.page_id + 1, slot_id |-> 0]
    BY <1>7 DEF rebuild_page
  <2>2. cursor'.page_id = cursor.page_id + 1 /\ cursor'.slot_id = 0
    BY <2>1
  <2>3. ASSUME NEW q \in 1 .. mapped, NEW u \in DOMAIN file[q], Scanned(q, u, cursor')
        PROVE  Scanned(q, u, cursor)
    <3>1. u \in 1 .. Len(file[q])
      BY <1>1
    <3>2. q <= cursor.page_id + 1
      BY <1>2, <2>2, <2>3, <3>1 DEF Scanned
    <3> QED
      BY <1>2, <2>1, <3>1, <3>2 DEF Scanned
  <2>4. ASSUME NEW j \in Keys PROVE IndexedTo(j, cursor)'
    <3>1. Found(j)' <=> Found(j)
      BY <2>1 DEF Found, Reads, RecordAt
    <3>2. IndexedTo(j, cursor)
      BY <2>1 DEF IndexClean
    <3> QED
      BY <2>1, <2>3, <3>1, <3>2 DEF IndexedTo
  <2> QED
    BY <2>1, <2>4 DEF IndexClean
<1>8. CASE rebuild_end
  <2>1. /\ status = "rebuild" /\ status' = "up" /\ UNCHANGED <<file, mapped, index>>
        /\ cursor.page_id = mapped
    BY <1>8 DEF rebuild_end
  <2>2. \A q \in 1 .. mapped : \A u \in DOMAIN file[q] : Scanned(q, u, cursor)
    BY <1>1, <2>1 DEF Scanned
  <2>3. ASSUME NEW j \in Keys PROVE IndexedTo(j, ScanEnd)'
    <3>1. Found(j)' <=> Found(j)
      BY <2>1 DEF Found, Reads, RecordAt
    <3>2. IndexedTo(j, cursor)
      BY <2>1 DEF IndexClean
    <3> QED
      BY <2>1, <2>2, <3>1, <3>2 DEF IndexedTo
  <2> QED
    BY <2>1, <2>3 DEF IndexClean
<1>9. ASSUME NEW t \in Threads, put_store(t) PROVE IndexClean'
  <2> DEFINE k == arg[t].key
             v == arg[t].value
  <2>1. /\ append_here(k, v) \/ append_next(k, v)
        /\ status = "up" /\ UNCHANGED <<status, mapped>>
        /\ index' = [index EXCEPT ![k] = AppendedRid] /\ session' = session \cup {k}
    BY <1>9 DEF put_store, Publish, Inv, CallsHoldRecords
  <2> HIDE DEF k, v
  <2>2. \A q \in 1 .. Len(file) : file'[q] = file[q]
    BY <1>1, <2>1, FileStays
  <2>3. \A q \in 1 .. mapped : file'[q] = file[q]
    BY <1>1, <2>2
  <2>4. ASSUME mapped > 0, NEW j \in Keys \ session' PROVE IndexedTo(j, ScanEnd)'
    <3>1. j \in Keys \ session /\ index'[j] = index[j]
      BY <1>1, <2>1
    <3>2. IndexedTo(j, ScanEnd) /\ ScanEnd' = ScanEnd
      BY <2>1, <2>4, <3>1 DEF IndexClean, ScanEnd
    <3>3. ASSUME index[j] # NoRid PROVE Found(j)'
      <4>1. Found(j) /\ index[j] \in RecordIds
        BY <1>1, <3>2, <3>3 DEF IndexedTo
      <4>2. index[j].page_id + 1 \in 1 .. mapped
        BY <1>1, <4>1 DEF Found, Reads, RecordIds
      <4>3. file'[index[j].page_id + 1] = file[index[j].page_id + 1]
        BY <2>3, <4>2
      <4> QED
        BY <2>1, <3>1, <4>1, <4>3 DEF Found, Reads, RecordAt
    <3> QED
      BY <2>1, <2>3, <3>1, <3>2, <3>3 DEF IndexedTo
  <2> QED
    BY <2>1, <2>4 DEF IndexClean
<1>10. ASSUME NEW t \in Threads,
              \/ \E k \in Keys : (\E v \in Values : put_log(t, k, v)) \/ get_hit(t, k) \/ get_read(t, k)
              \/ get_fill(t)
       PROVE  IndexClean'
  <2>1. UNCHANGED <<file, mapped, index, cursor, status, session>>
    BY <1>10 DEF put_log, get_hit, get_read, get_fill, volatile
  <2> QED
    BY <1>3, <2>1
<1>11. CASE UNCHANGED vars
  BY <1>3, <1>11 DEF vars, volatile
<1> QED
  BY <1>4, <1>5, <1>6, <1>7, <1>8, <1>9, <1>10, <1>11, NothingFails DEF Next, Construct

\* The cache after every step.
LEMMA CacheCleanStep ==
    ASSUME CleanOnly, Inv, LsnCounts, SessionFresh, LogClean, FileClean, IndexClean, CacheClean,
           [Next]_vars
    PROVE  CacheClean'
<1>1. /\ log \in Seq(WalRecords) /\ Len(log) \in Nat /\ DOMAIN log = 1 .. Len(log)
      /\ cache \in Seq(Entries) /\ cursor \in RecordIds
      /\ pc \in [Threads -> {"idle", "store", "fill"}] /\ arg \in [Threads -> Entries \cup {NoArg}]
      /\ acked \in [Keys -> Values \cup {NoValue}] /\ UniqueKeys(cache)
  BY HealTypes, TypeParts DEF Inv, RestTypeOK, SessionFresh
<1>0. \A i \in DOMAIN cache : cache[i].key \in Keys
  <2>1. \A i \in DOMAIN cache : cache[i] \in Entries
    BY <1>1
  <2> QED
    BY <2>1 DEF Entries
<1>2. ASSUME status' \in {"rebuild", "up"}, status \in {"rebuild", "up"}, acked' = acked,
             \A i \in DOMAIN cache' : cache'[i].value = acked[cache'[i].key],
             \A u \in Threads : pc'[u] = "fill" => arg'[u].value = acked[arg'[u].key]
      PROVE  CacheClean'
  BY <1>2 DEF CacheClean
<1>3. CASE open
  <2>1. status = "down" /\ status' = "replay" /\ UNCHANGED <<cache, pc, arg, acked>>
    BY <1>3 DEF open
  <2> QED
    BY <2>1 DEF CacheClean
<1>4. CASE replay_record
  <2> DEFINE n == Replayed
             k == log[n + 1].key
             v == log[n + 1].value
  <2>1. /\ status = "replay" /\ UNCHANGED <<log, status, pc, arg, acked>>
        /\ n + 1 \in DOMAIN log /\ cache' = CachePut(cache, k, v)
    BY <1>4 DEF replay_record, Readable, Publish
  <2>2. cursor' = [cursor EXCEPT !.slot_id = @ + 1]
    BY <1>4, Zenon DEF replay_record
  <2>3. Replayed' = n + 1 /\ n \in Nat
    BY <1>1, <2>2 DEF Replayed, RecordIds
  <2>4. log[n + 1] \in WalRecords
    BY <1>1, <2>1
  <2>5. k \in Keys /\ v \in Values
    BY <2>4 DEF WalRecords
  <2>6. \A i \in DOMAIN cache : LogHolds(log, n, cache[i].key, cache[i].value)
    BY <2>1 DEF CacheClean
  <2> HIDE DEF n
  <2>7. EntriesFrom(cache', cache, Entry(k, v))
    BY <1>1, <2>1, <2>5, CachePutFacts
  <2>8. Entry(k, v).key = k /\ Entry(k, v).value = v
    BY DEF Entry
  <2>9. ASSUME NEW i \in DOMAIN cache'
        PROVE  LogHolds(log, n + 1, cache'[i].key, cache'[i].value)
    <3>1. CASE cache'[i] = Entry(k, v)
      BY <2>3, <2>8, <3>1, LogHoldsLast
    <3>2. CASE cache'[i].key # k /\ \E j \in DOMAIN cache : cache'[i] = cache[j]
      <4>1. LogHolds(log, n, cache'[i].key, cache'[i].value)
        BY <2>6, <3>2
      <4> QED
        BY <2>3, <3>2, <4>1, LogHoldsNext
    <3> QED
      BY <2>7, <2>8, <3>1, <3>2 DEF EntriesFrom
  <2> QED
    BY <2>1, <2>3, <2>9 DEF CacheClean
<1>5. CASE replay_end
  <2>1. /\ status = "replay" /\ status' \in {"rebuild", "up"}
        /\ UNCHANGED <<log, cache, pc, arg, acked>> /\ ~ Readable(Replayed + 1)
    BY <1>5 DEF replay_end
  <2>2. Replayed <= Len(log) /\ Replayed \in Nat
    BY <1>1, <2>1 DEF LsnCounts, Replayed, RecordIds
  <2>3. Replayed + 1 \notin DOMAIN log
    BY <2>1 DEF Readable, LogReplayable, LogClean
  <2>4. \A i \in DOMAIN cache : LogHolds(log, Replayed, cache[i].key, cache[i].value)
    BY <2>1 DEF CacheClean
  <2> HIDE DEF Replayed
  <2>5. Replayed = Len(log)
    BY <1>1, <2>2, <2>3, EndOfLog
  <2>6. lock_shared /\ \A u \in Threads : pc[u] = "idle"
    BY <1>1, <2>1 DEF lock_shared, Inv, CallsHoldRecords
  <2>7. ASSUME NEW i \in DOMAIN cache PROVE cache[i].value = acked[cache[i].key]
    <3>1. cache[i].key \in Keys
      BY <1>0
    <3>2. LogHolds(log, Len(log), cache[i].key, acked[cache[i].key])
      BY <2>6, <3>1 DEF LogClean
    <3>3. LogHolds(log, Len(log), cache[i].key, cache[i].value)
      BY <2>4, <2>5
    <3> QED
      BY <1>1, <3>2, <3>3, LogHoldsUnique
  <2> QED
    BY <2>1, <2>6, <2>7 DEF CacheClean
<1>6. CASE rebuild_slot \/ rebuild_page \/ rebuild_end
  <2>1. status = "rebuild" /\ status' \in {"rebuild", "up"} /\ UNCHANGED <<cache, pc, arg, acked>>
    BY <1>6 DEF rebuild_slot, rebuild_page, rebuild_end
  <2> QED
    BY <2>1 DEF CacheClean
<1>7. ASSUME NEW t \in Threads, NEW k \in Keys, NEW v \in Values, put_log(t, k, v) PROVE CacheClean'
  <2>1. /\ status = "up" /\ pc' = [pc EXCEPT ![t] = "store"] /\ \A u \in Threads : pc[u] = "idle"
        /\ UNCHANGED <<status, cache, acked>>
    BY <1>7 DEF put_log, lock
  <2>2. \A u \in Threads : pc'[u] # "fill"
    BY <1>1, <2>1
  <2> QED
    BY <1>2, <2>1, <2>2 DEF CacheClean
<1>8. ASSUME NEW t \in Threads, put_store(t) PROVE CacheClean'
  <2> DEFINE k == arg[t].key
             v == arg[t].value
  <2>1. /\ pc[t] = "store" /\ status = "up" /\ status' = "up" /\ arg[t] \in Entries
        /\ cache' = CachePut(cache, k, v) /\ acked' = [acked EXCEPT ![k] = v]
        /\ pc' = [pc EXCEPT ![t] = "idle"]
    BY <1>8 DEF put_store, Publish, Returns, Inv, CallsHoldRecords
  <2>2. k \in Keys /\ v \in Values
    BY <2>1 DEF Entries
  <2> HIDE DEF k, v
  <2>3. EntriesFrom(cache', cache, Entry(k, v))
    BY <1>1, <2>1, <2>2, CachePutFacts
  <2>4. Entry(k, v).key = k /\ Entry(k, v).value = v
    BY DEF Entry
  <2>5. ASSUME NEW i \in DOMAIN cache' PROVE cache'[i].value = acked'[cache'[i].key]
    <3>1. CASE cache'[i] = Entry(k, v)
      BY <1>1, <2>1, <2>2, <2>4, <3>1
    <3>2. ASSUME NEW j \in DOMAIN cache, cache'[i] = cache[j], cache'[i].key # k
          PROVE  cache'[i].value = acked'[cache'[i].key]
      <4>1. cache[j].key \in Keys /\ cache[j].value = acked[cache[j].key]
        BY <1>0, <2>1 DEF CacheClean
      <4> QED
        BY <1>1, <2>1, <3>2, <4>1
    <3> QED
      BY <2>3, <2>4, <3>1, <3>2 DEF EntriesFrom
  <2>6. \A u \in Threads : pc'[u] = "idle"
    BY <1>1, <2>1 DEF SessionFresh
  <2> QED
    BY <2>1, <2>5, <2>6 DEF CacheClean
<1>9. ASSUME NEW t \in Threads, NEW k \in Keys, get_hit(t, k) PROVE CacheClean'
  <2>1. /\ status = "up" /\ cache' = CacheTouch(cache, k) /\ HasKey(cache, k)
        /\ UNCHANGED <<status, pc, arg, acked>>
    BY <1>9 DEF get_hit
  <2>2. \A i \in DOMAIN cache' : \E j \in DOMAIN cache : cache'[i] = cache[j]
    BY <1>1, <2>1, CacheTouchFacts
  <2>3. \A i \in DOMAIN cache' : cache'[i].value = acked[cache'[i].key]
    BY <2>1, <2>2 DEF CacheClean
  <2> QED
    BY <1>2, <2>1, <2>3 DEF CacheClean
<1>10. ASSUME NEW t \in Threads, NEW k \in Keys, get_read(t, k) PROVE CacheClean'
  <2> DEFINE e == Entry(k, RecordAt(index[k]).value)
  <2>1. /\ status = "up" /\ Found(k)
        /\ pc' = [pc EXCEPT ![t] = "fill"] /\ arg' = [arg EXCEPT ![t] = e]
        /\ UNCHANGED <<status, cache, acked>>
    BY <1>10 DEF get_read, volatile
  <2>2. e.key = k /\ e.value = RecordAt(index[k]).value
    BY DEF Entry
  <2> HIDE DEF e
  <2>3. k \notin session
    <3>1. TypeOK
      BY DEF Inv
    <3> QED
      BY <2>1, <3>1, NotFound DEF SessionFresh
  <2>4. RecordAt(index[k]).value = acked[k]
    BY <2>1, <2>3, ReadsAcked
  <2>5. \A u \in Threads : pc'[u] = "fill" => arg'[u].value = acked[arg'[u].key]
    BY <1>1, <2>1, <2>2, <2>4 DEF CacheClean
  <2> QED
    BY <1>2, <2>1, <2>5 DEF CacheClean
<1>11. ASSUME NEW t \in Threads, get_fill(t) PROVE CacheClean'
  <2> DEFINE k == arg[t].key
             v == arg[t].value
  <2>1. /\ pc[t] = "fill" /\ status = "up" /\ arg[t] \in Entries
        /\ cache' = CachePut(cache, k, v)
        /\ pc' = [pc EXCEPT ![t] = "idle"] /\ arg' = [arg EXCEPT ![t] = NoArg]
        /\ UNCHANGED <<status, acked>>
    BY <1>11 DEF get_fill, Returns, Inv, CallsHoldRecords
  <2>2. k \in Keys /\ v \in Values /\ v = acked[k]
    BY <2>1 DEF Entries, CacheClean
  <2> HIDE DEF k, v
  <2>3. EntriesFrom(cache', cache, Entry(k, v))
    BY <1>1, <2>1, <2>2, CachePutFacts
  <2>4. Entry(k, v).key = k /\ Entry(k, v).value = v
    BY DEF Entry
  <2>5. \A i \in DOMAIN cache' : cache'[i].value = acked[cache'[i].key]
    BY <2>1, <2>2, <2>3, <2>4 DEF EntriesFrom, CacheClean
  <2>6. \A u \in Threads : pc'[u] = "fill" => arg'[u].value = acked[arg'[u].key]
    BY <1>1, <2>1 DEF CacheClean
  <2> QED
    BY <1>2, <2>1, <2>5, <2>6
<1>12. CASE close
  <2>1. status' = "down" /\ cache' = <<>> /\ pc' = Idle
    BY <1>12 DEF close, Vanish
  <2> QED
    BY <2>1 DEF CacheClean, Idle
<1>13. CASE UNCHANGED vars
  BY <1>13 DEF vars, volatile, CacheClean, Replayed
<1> QED
  BY <1>3, <1>4, <1>5, <1>6, <1>7, <1>8, <1>9, <1>10, <1>11, <1>12, <1>13, NothingFails
  DEF Next, Construct

\* The four parts.
Clean == LogClean /\ FileClean /\ IndexClean /\ CacheClean

\* They hold in an empty, closed database.
LEMMA CleanInit == Init => Clean
<1> SUFFICES ASSUME Init PROVE Clean
  OBVIOUS
<1>1. /\ log = <<>> /\ file = <<>> /\ status = "down" /\ cache = <<>> /\ pc = Idle
      /\ acked = [k \in Keys |-> NoValue]
  BY DEF Init
<1>2. Len(log) = 0 /\ DOMAIN log = {} /\ Len(file) = 0 /\ 1 .. 0 = {}
  BY <1>1
<1>3. \A k \in Keys : acked[k] = NoValue
  BY <1>1
<1>4. \A t \in Threads : pc[t] = "idle"
  BY <1>1 DEF Idle
<1>5. LogClean
  BY <1>2, <1>3, <1>4 DEF LogClean, LogReplayable, LogHolds
<1>6. FileClean
  BY <1>1, <1>2, <1>3 DEF FileClean, PagesHold
<1>7. IndexClean /\ CacheClean
  BY <1>1, <1>4 DEF IndexClean, CacheClean
<1> QED
  BY <1>5, <1>6, <1>7 DEF Clean

\* What they say of the reads of an open database.
LEMMA CleanMeans == Inv /\ Clean => CleanRestartReads
<1> SUFFICES ASSUME Inv, Clean, status = "up", NEW k \in Keys \ session
             PROVE  {ReadResult(k)} \cup InFlight(k) \subseteq {acked[k]}
  BY DEF CleanRestartReads
<1>1. ReadResult(k) = acked[k]
  <2>1. CASE HasKey(cache, k)
    <3>1. PositionOf(cache, k) \in DOMAIN cache /\ cache[PositionOf(cache, k)].key = k
      BY <2>1 DEF HasKey, PositionOf
    <3>2. CachedValue(cache, k) = acked[k]
      BY <3>1 DEF CachedValue, Clean, CacheClean
    <3> QED
      BY <2>1, <3>2 DEF ReadResult
  <2>2. CASE ~ HasKey(cache, k)
    BY <2>2, ReadsAcked DEF ReadResult, Clean
  <2> QED
    BY <2>1, <2>2
<1>2. InFlight(k) \subseteq {acked[k]}
  BY DEF InFlight, Clean, CacheClean
<1> QED
  BY <1>1, <1>2

\* Across clean restarts nothing is lost or out of date: if the process never
\* dies and every value fits in a page, a key not put since the database was
\* opened reads as the value of the last put of it, whatever the cache drops,
\* however often the log is replayed into the file again and however many
\* threads read.  A crash makes it false (run stale_after_crash), and so does a
\* value too long for the log's length field, behind which no log record is
\* read (run unreadable_log); after a value that is only too long for a page
\* there is no later open to read in (run oversize_poison).
THEOREM CleanRestartsKeepRecords ==
    ASSUME CleanOnly
    PROVE  Spec => []CleanRestartReads
<1>1. /\ Inv /\ LsnCounts /\ SessionFresh /\ Heals /\ Clean
      /\ [Next]_vars
      => Clean'
  BY LogCleanStep, FileCleanStep, IndexCleanStep, CacheCleanStep DEF Clean
<1> QED
  BY <1>1, Invariance, LsnInit, LsnStep, FreshInit, FreshStep, HealsInit, HealsStep,
     CleanInit, CleanMeans, PTL DEF Spec
=============================================================================
