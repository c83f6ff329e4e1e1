-------------------------- MODULE FloodGuardProofs --------------------------
(* Theorems about FloodGuard, for every window, every pair of thresholds   *)
(* and every capacity that the constructor can be asked for.               *)
EXTENDS FloodGuard, FiniteSetTheorems, WellFoundedInduction, TLAPS

LEMMA Sizes ==
  /\ OkLimit \in Nat \ {0} /\ TotalLimit \in Nat \ {0} /\ Capacity \in Nat \ {0}
  /\ OkLimit < TotalLimit /\ TotalLimit <= Capacity /\ Window \in Nat \ {0}
BY GuardAssumption DEF OkLimit, TotalLimit, Capacity, Larger

(* Indices wrap around at most once. *)
LEMMA Wrap ==
  ASSUME NEW c \in Nat \ {0}, NEW a \in Nat, a < c + c
  PROVE  a % c = IF a < c THEN a ELSE a - c
<1>1. CASE a < c
  BY <1>1, SMT
<1>2. CASE ~(a < c)
  <2> DEFINE b == a - c
  <2>1. b \in Nat /\ b < c /\ a = b + c
    BY <1>2
  <2>2. b % c = b
    BY <2>1, SMT
  <2>3. (b + c) % c = b % c
    BY <2>1, SMT
  <2> QED
    BY <1>2, <2>1, <2>2, <2>3
<1> QED
  BY <1>1, <1>2

(* The slot of the i-th entry after the tail, without a remainder. *)
LEMMA Slot ==
  ASSUME NEW t \in Slots, NEW i \in 0 .. Capacity
  PROVE  /\ Wrapped(t + i) = IF t + i < Capacity THEN t + i ELSE t + i - Capacity
         /\ Wrapped(t + i) \in Slots
<1>1. t + i \in Nat /\ t + i < Capacity + Capacity
  BY Sizes DEF Slots
<1> DEFINE a == t + i
<1>2. Wrapped(a) = IF a < Capacity THEN a ELSE a - Capacity
  <2>1. a \in Nat /\ a < Capacity + Capacity /\ Capacity \in Nat \ {0}
    BY <1>1, Sizes
  <2> HIDE DEF a
  <2>2. a % Capacity = IF a < Capacity THEN a ELSE a - Capacity
    BY <2>1, Wrap
  <2> QED
    BY <2>2 DEF Wrapped
<1> QED
  BY <1>1, <1>2, Sizes DEF Slots

LEMMA EntryType ==
  ASSUME NEW r \in Ring, NEW i \in 0 .. r.size - 1
  PROVE  Entry(r, i) \in Nat
<1>1. r.tail \in Slots /\ r.buf \in [Slots -> Nat] /\ r.size \in 0 .. Capacity
  BY DEF Ring
<1>2. i \in 0 .. Capacity
  BY <1>1, Sizes
<1> QED
  BY <1>1, <1>2, Slot DEF Entry

(* Some number of entries is the one the pruning loop drops. *)
LEMMA PruneStops ==
  ASSUME NEW r \in Ring
  PROVE  \E n \in 0 .. r.size :
           /\ \A i \in 0 .. n - 1 : ~InWindow(Entry(r, i))
           /\ n < r.size => InWindow(Entry(r, n))
<1> DEFINE T == {m \in 0 .. r.size : m < r.size => InWindow(Entry(r, m))}
<1>1. r.size \in Nat
  BY Sizes DEF Ring
<1>2. T \subseteq Nat /\ r.size \in T
  BY <1>1
<1>3. PICK n \in T : \A m \in T : ~ (<<m, n>> \in OpToRel(<, Nat))
  <2> HIDE DEF T
  <2> QED
    BY <1>2, NatLessThanWellFounded, WFMin
<1>4. \A m \in T : ~ (m < n)
  BY <1>2, <1>3 DEF OpToRel
<1>5. \A i \in 0 .. n - 1 : i \in 0 .. r.size /\ i < r.size /\ i < n
  BY <1>1
<1>6. \A i \in 0 .. n - 1 : ~InWindow(Entry(r, i))
  BY <1>4, <1>5
<1> QED
  BY <1>6

(* The ring after pruning: n entries shorter. *)
LEMMA PruneShape ==
  ASSUME NEW r \in Ring
  PROVE  \E n \in 0 .. r.size :
           /\ \A i \in 0 .. n - 1 : ~InWindow(Entry(r, i))
           /\ n < r.size => InWindow(Entry(r, n))
           /\ Pruned(r) \in Ring
           /\ Pruned(r).size = r.size - n
           /\ Pruned(r).head = r.head
           /\ \A i \in 0 .. r.size - n - 1 : Entry(Pruned(r), i) = Entry(r, i + n)
           /\ (r.head = Wrapped(r.tail + r.size)) =>
                (r.head = Wrapped(Pruned(r).tail + Pruned(r).size))
<1> DEFINE P(n) == /\ \A i \in 0 .. n - 1 : ~InWindow(Entry(r, i))
                   /\ n < r.size => InWindow(Entry(r, n))
           n == CHOOSE n \in 0 .. r.size : P(n)
<1>1. n \in 0 .. r.size /\ P(n)
  <2>1. \E m \in 0 .. r.size : P(m)
    BY PruneStops
  <2> HIDE DEF P
  <2> QED
    BY <2>1
<1>2. Pruned(r) = [r EXCEPT !.tail = Wrapped(r.tail + n), !.size = r.size - n]
  BY DEF Pruned
<1> HIDE DEF n
<1>3. /\ r.tail \in Slots /\ r.head \in Slots /\ r.buf \in [Slots -> Nat] /\ r.size \in 0 .. Capacity
      /\ n \in 0 .. Capacity /\ r.size - n \in 0 .. Capacity
  BY <1>1, Sizes DEF Ring
<1>4. Wrapped(r.tail + n) \in Slots
  BY <1>3, Slot
<1>5. /\ Pruned(r) = [buf |-> r.buf, head |-> r.head, tail |-> Wrapped(r.tail + n), size |-> r.size - n]
      /\ Pruned(r) \in Ring
  BY <1>2, <1>3, <1>4 DEF Ring
<1>6. \A i \in 0 .. r.size - n : Wrapped(Wrapped(r.tail + n) + i) = Wrapped(r.tail + (i + n))
  <2> SUFFICES ASSUME NEW i \in 0 .. r.size - n
               PROVE  Wrapped(Wrapped(r.tail + n) + i) = Wrapped(r.tail + (i + n))
    OBVIOUS
  <2>1. i \in 0 .. Capacity /\ i + n \in 0 .. Capacity
    BY <1>1, <1>3, Sizes
  <2>2. Wrapped(r.tail + n) = IF r.tail + n < Capacity THEN r.tail + n ELSE r.tail + n - Capacity
    BY <1>3, Slot
  <2>3. Wrapped(r.tail + (i + n)) =
          IF r.tail + (i + n) < Capacity THEN r.tail + (i + n) ELSE r.tail + (i + n) - Capacity
    BY <1>3, <2>1, Slot
  <2> DEFINE u == Wrapped(r.tail + n)
  <2>4. Wrapped(u + i) = IF u + i < Capacity THEN u + i ELSE u + i - Capacity
    BY <1>4, <2>1, Slot
  <2> QED
    BY <1>3, <2>1, <2>2, <2>3, <2>4, Sizes DEF Slots
<1>7. \A i \in 0 .. r.size - n - 1 : Entry(Pruned(r), i) = Entry(r, i + n)
  BY <1>3, <1>5, <1>6 DEF Entry
<1>8. Wrapped(r.tail + ((r.size - n) + n)) = Wrapped(r.tail + r.size)
  BY <1>3, Sizes DEF Slots
<1>9. (r.head = Wrapped(r.tail + r.size)) => (r.head = Wrapped(Pruned(r).tail + Pruned(r).size))
  BY <1>1, <1>3, <1>5, <1>6, <1>8
<1> QED
  BY <1>1, <1>5, <1>7, <1>9

(* The ring after a push: one entry longer, or without its oldest entry. *)
LEMMA PushShape ==
  ASSUME NEW r \in Ring, now \in Nat, r.head = Wrapped(r.tail + r.size)
  PROVE  /\ Pushed(r) \in Ring
         /\ Pushed(r).head = Wrapped(Pushed(r).tail + Pushed(r).size)
         /\ Entry(Pushed(r), Pushed(r).size - 1) = now
         /\ r.size < Capacity =>
              /\ Pushed(r).size = r.size + 1
              /\ \A i \in 0 .. r.size - 1 : Entry(Pushed(r), i) = Entry(r, i)
         /\ r.size = Capacity =>
              /\ Pushed(r).size = Capacity
              /\ \A i \in 0 .. Capacity - 2 : Entry(Pushed(r), i) = Entry(r, i + 1)
<1>1. /\ r.tail \in Slots /\ r.head \in Slots /\ r.buf \in [Slots -> Nat] /\ r.size \in 0 .. Capacity
      /\ 1 \in 0 .. Capacity
  BY Sizes DEF Ring
<1> DEFINE buf == [r.buf EXCEPT ![r.head] = now]
<1>2. buf \in [Slots -> Nat] /\ buf[r.head] = now /\ \A s \in Slots : s # r.head => buf[s] = r.buf[s]
  BY <1>1
<1>3. \A t \in Slots, i \in 0 .. Capacity :
        /\ Wrapped(t + i) = IF t + i < Capacity THEN t + i ELSE t + i - Capacity
        /\ Wrapped(t + i) \in Slots
  BY Slot
<1>4. CASE r.size < Capacity
  <2>1. Pushed(r) = [buf |-> buf, head |-> Wrapped(r.head + 1), tail |-> r.tail, size |-> r.size + 1]
    BY <1>4 DEF Pushed
  <2>2. r.size + 1 \in 0 .. Capacity
    BY <1>1, <1>4, Sizes
  <2>a. /\ Wrapped(r.head + 1) \in Slots
        /\ Wrapped(r.head + 1) = IF r.head + 1 < Capacity THEN r.head + 1 ELSE r.head + 1 - Capacity
    BY <1>1, Slot
  <2>b. Wrapped(r.tail + r.size) =
          IF r.tail + r.size < Capacity THEN r.tail + r.size ELSE r.tail + r.size - Capacity
    BY <1>1, Slot
  <2>c. Wrapped(r.tail + (r.size + 1)) =
          IF r.tail + (r.size + 1) < Capacity THEN r.tail + (r.size + 1) ELSE r.tail + (r.size + 1) - Capacity
    BY <1>1, <2>2, Slot
  <2>3. Pushed(r) \in Ring
    BY <1>1, <1>2, <2>1, <2>2, <2>a DEF Ring
  <2>4. Wrapped(r.head + 1) = Wrapped(r.tail + (r.size + 1))
    <3>1. CASE r.tail + r.size < Capacity
      <4>1. r.head = r.tail + r.size
        BY <2>b, <3>1
      <4>2. r.head + 1 = r.tail + (r.size + 1)
        BY <1>1, <4>1, Sizes DEF Slots
      <4> QED
        BY <4>2
    <3>2. CASE ~(r.tail + r.size < Capacity)
      <4>1. r.head = r.tail + r.size - Capacity
        BY <2>b, <3>2
      <4>2. r.head + 1 < Capacity /\ ~(r.tail + (r.size + 1) < Capacity)
        BY <1>1, <1>4, <3>2, <4>1, Sizes DEF Slots
      <4> QED
        BY <1>1, <2>a, <2>c, <4>1, <4>2, Sizes DEF Slots
    <3> QED
      BY <3>1, <3>2
  <2>5. \A i \in 0 .. r.size - 1 : Wrapped(r.tail + i) # r.head /\ Wrapped(r.tail + i) \in Slots
    <3> SUFFICES ASSUME NEW i \in 0 .. r.size - 1
                 PROVE  Wrapped(r.tail + i) # r.head /\ Wrapped(r.tail + i) \in Slots
      OBVIOUS
    <3>1. i \in 0 .. Capacity /\ i < r.size
      BY <1>1, Sizes
    <3>2. /\ Wrapped(r.tail + i) = IF r.tail + i < Capacity THEN r.tail + i ELSE r.tail + i - Capacity
          /\ Wrapped(r.tail + i) \in Slots
      BY <1>1, <3>1, Slot
    <3> QED
      BY <1>1, <1>4, <2>b, <3>1, <3>2, Sizes DEF Slots
  <2>6. \A i \in 0 .. r.size - 1 : Entry(Pushed(r), i) = Entry(r, i)
    BY <1>2, <2>1, <2>5 DEF Entry
  <2>7. Pushed(r).size - 1 = r.size
    BY <1>1, <2>1, Sizes
  <2>8. Entry(Pushed(r), Pushed(r).size - 1) = now
    <3>1. Entry(Pushed(r), r.size) = buf[Wrapped(r.tail + r.size)]
      BY <2>1 DEF Entry
    <3> QED
      BY <1>2, <2>7, <3>1
  <2> HIDE DEF buf
  <2> QED
    BY <1>1, <1>4, <2>1, <2>3, <2>4, <2>6, <2>8, Sizes
<1>5. CASE r.size = Capacity
  <2> DEFINE tail == Wrapped(r.tail + 1)
  <2>1. Pushed(r) = [buf |-> buf, head |-> Wrapped(r.head + 1), tail |-> tail, size |-> r.size]
    BY <1>1, <1>5, Sizes DEF Pushed
  <2>2. r.head = r.tail
    BY <1>1, <1>3, <1>5, Sizes DEF Slots
  <2>3. tail \in Slots /\ Wrapped(r.head + 1) \in Slots
    BY <1>1, <1>3
  <2>4. Pushed(r) \in Ring
    BY <1>1, <1>2, <2>1, <2>3 DEF Ring
  <2>5. Wrapped(r.head + 1) = Wrapped(tail + r.size)
    BY <1>1, <1>3, <1>5, <2>2, <2>3, Sizes DEF Slots
  <2>a. tail = IF r.tail + 1 < Capacity THEN r.tail + 1 ELSE r.tail + 1 - Capacity
    BY <1>1, Slot
  <2>b. \A i \in 0 .. Capacity - 1 : i \in 0 .. Capacity /\ i + 1 \in 0 .. Capacity
    BY Sizes
  <2>6. \A i \in 0 .. Capacity - 2 :
          /\ Wrapped(tail + i) = Wrapped(r.tail + (i + 1))
          /\ Wrapped(tail + i) # r.head /\ Wrapped(tail + i) \in Slots
    <3> SUFFICES ASSUME NEW i \in 0 .. Capacity - 2
                 PROVE  /\ Wrapped(tail + i) = Wrapped(r.tail + (i + 1))
                        /\ Wrapped(tail + i) # r.head /\ Wrapped(tail + i) \in Slots
      OBVIOUS
    <3>1. i \in 0 .. Capacity - 1
      BY Sizes
    <3>2. /\ Wrapped(tail + i) = IF tail + i < Capacity THEN tail + i ELSE tail + i - Capacity
          /\ Wrapped(tail + i) \in Slots
      BY <2>3, <2>b, <3>1, Slot
    <3>3. Wrapped(r.tail + (i + 1)) =
            IF r.tail + (i + 1) < Capacity THEN r.tail + (i + 1) ELSE r.tail + (i + 1) - Capacity
      BY <1>1, <2>b, <3>1, Slot
    <3> HIDE DEF tail
    <3> QED
      BY <1>1, <2>2, <2>3, <2>a, <3>2, <3>3, Sizes, SMTT(30) DEF Slots
  <2>7. \A i \in 0 .. Capacity - 2 : Entry(Pushed(r), i) = Entry(r, i + 1)
    BY <1>2, <2>1, <2>6 DEF Entry
  <2>8. Wrapped(tail + (Capacity - 1)) = r.head
    <3>1. Capacity - 1 \in 0 .. Capacity
      BY Sizes
    <3>2. Wrapped(tail + (Capacity - 1)) =
            IF tail + (Capacity - 1) < Capacity THEN tail + (Capacity - 1) ELSE tail + (Capacity - 1) - Capacity
      BY <2>3, <3>1, Slot
    <3>3. CASE r.tail + 1 < Capacity
      BY <1>1, <2>2, <2>a, <3>2, <3>3, Sizes DEF Slots
    <3>4. CASE ~(r.tail + 1 < Capacity)
      BY <1>1, <2>2, <2>a, <3>2, <3>4, Sizes DEF Slots
    <3> QED
      BY <3>3, <3>4
  <2>9. Entry(Pushed(r), Pushed(r).size - 1) = now
    BY <1>2, <1>5, <2>1, <2>8 DEF Entry
  <2> HIDE DEF buf, tail
  <2> QED
    BY <1>1, <1>5, <2>1, <2>4, <2>5, <2>7, <2>9, Sizes
<1> QED
  BY <1>1, <1>4, <1>5, Sizes

-----------------------------------------------------------------------------
(* Pruning, against the log. *)

LEMMA LogType ==
  ASSUME TypeOK
  PROVE  /\ log \in Seq([at : Nat, status : {"ok", "throttled", "blocked"}])
         /\ Len(log) \in Nat /\ DOMAIN log = 1 .. Len(log)
         /\ \A k \in DOMAIN log : log[k].at \in Nat
<1> DEFINE R == [at : Nat, status : {"ok", "throttled", "blocked"}]
<1>1. log \in Seq(R)
  BY DEF TypeOK
<1>2. Len(log) \in Nat /\ DOMAIN log = 1 .. Len(log) /\ \A k \in DOMAIN log : log[k] \in R
  <2> HIDE DEF R
  <2> QED
    BY <1>1
<1>3. \A k \in DOMAIN log : log[k].at \in Nat
  BY <1>2
<1> QED
  BY <1>1, <1>2, <1>3

(* Pruning keeps the newest calls, all of them in the window. *)
LEMMA PruneKeeps ==
  ASSUME TypeOK, ClockGrows, NEW C \in SUBSET DOMAIN log, NEW r \in Ring, Keeps(r, C)
  PROVE  /\ Pruned(r) \in Ring /\ Keeps(Pruned(r), C)
         /\ \A i \in 0 .. Pruned(r).size - 1 : InWindow(Entry(Pruned(r), i))
<1>1. PICK n \in 0 .. r.size :
        /\ \A i \in 0 .. n - 1 : ~InWindow(Entry(r, i))
        /\ n < r.size => InWindow(Entry(r, n))
        /\ Pruned(r) \in Ring
        /\ Pruned(r).size = r.size - n
        /\ Pruned(r).head = r.head
        /\ \A i \in 0 .. r.size - n - 1 : Entry(Pruned(r), i) = Entry(r, i + n)
        /\ (r.head = Wrapped(r.tail + r.size)) =>
             (r.head = Wrapped(Pruned(r).tail + Pruned(r).size))
  BY PruneShape
<1>2. PICK f \in [0 .. r.size - 1 -> C] : Lists(r, C, f) /\ Newest(r, C, f)
  BY DEF Keeps
<1> DEFINE q == Pruned(r)
           g == [i \in 0 .. q.size - 1 |-> f[i + n]]
<1> HIDE DEF q
<1>3. /\ r.size \in Nat /\ n \in Nat /\ q.size \in Nat /\ q.size = r.size - n
      /\ now \in Int /\ Window \in Nat /\ Capacity \in Nat /\ r.size <= Capacity
  BY <1>1, Sizes DEF Ring, TypeOK, q
<1>4. \A i \in 0 .. q.size - 1 : i + n \in 0 .. r.size - 1 /\ g[i] = f[i + n] /\ g[i] \in C
  BY <1>2, <1>3, SMTT(30)
<1>5. \A i \in 0 .. q.size - 1 : Entry(q, i) = Entry(r, i + n) /\ Entry(r, i + n) = log[f[i + n]].at
  BY <1>1, <1>2, <1>3, <1>4 DEF Lists, q
<1>6. Lists(q, C, g)
  <2>1. g \in [0 .. q.size - 1 -> C]
    BY <1>4
  <2>2. \A i, k \in 0 .. q.size - 1 : i < k => g[i] < g[k]
    BY <1>2, <1>3, <1>4 DEF Lists
  <2>3. \A i \in 0 .. q.size - 1 : Entry(q, i) = log[g[i]].at
    BY <1>4, <1>5
  <2> HIDE DEF g
  <2> QED
    BY <2>1, <2>2, <2>3 DEF Lists
<1>7. \A i \in 0 .. q.size - 1 : InWindow(Entry(q, i))
  <2> SUFFICES ASSUME NEW i \in 0 .. q.size - 1 PROVE InWindow(Entry(q, i))
    OBVIOUS
  <2>1. n \in 0 .. r.size - 1 /\ n <= i + n /\ i + n \in 0 .. r.size - 1
    BY <1>3
  <2>2. f[n] \in DOMAIN log /\ f[i + n] \in DOMAIN log
    BY <1>2, <2>1
  <2>3. f[n] <= f[i + n]
    BY <1>2, <2>1, <2>2, LogType DEF Lists
  <2>4. log[f[n]].at <= log[f[i + n]].at
    BY <2>2, <2>3 DEF ClockGrows
  <2>5. log[f[n]].at > now - Window
    <3>1. Entry(r, n) = log[f[n]].at
      BY <1>2, <2>1 DEF Lists
    <3>2. n < r.size
      BY <1>3, <2>1
    <3> QED
      BY <1>1, <3>1, <3>2 DEF InWindow
  <2>6. log[f[n]].at \in Nat /\ log[f[i + n]].at \in Nat
    BY <2>2, LogType
  <2>7. log[f[i + n]].at > now - Window
    BY <1>3, <2>4, <2>5, <2>6, SMTT(30)
  <2> QED
    BY <1>5, <2>7 DEF InWindow
<1>8. \A k \in C, i \in 0 .. q.size - 1 : k > g[i] => Hit(q, g, k)
  <2> SUFFICES ASSUME NEW k \in C, NEW i \in 0 .. q.size - 1, k > g[i]
               PROVE  \E m \in 0 .. q.size - 1 : g[m] = k
    BY DEF Hit
  <2>1. i + n \in 0 .. r.size - 1 /\ k > f[i + n]
    BY <1>4
  <2>2. PICK m \in 0 .. r.size - 1 : f[m] = k
    BY <1>2, <2>1 DEF Newest, Hit
  <2>3. f[m] \in Nat /\ f[i + n] \in Nat
    BY <1>2, <2>1, LogType
  <2>4. m > i + n
    <3>1. m < i + n => f[m] < f[i + n]
      BY <1>2, <2>1 DEF Lists
    <3>2. m # i + n /\ ~(f[m] < f[i + n])
      BY <2>1, <2>2, <2>3
    <3>3. m \in Int /\ i + n \in Int
      BY <1>3, <2>1
    <3> QED
      BY <3>1, <3>2, <3>3
  <2>5. m - n \in 0 .. q.size - 1 /\ (m - n) + n = m
    BY <1>3, <2>4
  <2>6. g[m - n] = k
    BY <1>4, <2>2, <2>5
  <2> QED
    BY <2>5, <2>6
<1>9. \A k \in C : InWindow(log[k].at) => q.size = Capacity \/ Hit(q, g, k)
  <2> SUFFICES ASSUME NEW k \in C, InWindow(log[k].at), q.size # Capacity
               PROVE  \E m \in 0 .. q.size - 1 : g[m] = k
    BY DEF Hit
  <2>1. Hit(r, f, k)
    <3>1. CASE n = 0
      BY <1>2, <1>3, <3>1 DEF Newest
    <3>2. CASE n > 0
      <4>1. 0 \in 0 .. r.size - 1 /\ 0 \in 0 .. n - 1
        BY <1>3, <3>2
      <4>2. f[0] \in DOMAIN log /\ k \in DOMAIN log
        BY <1>2, <4>1
      <4>3. ~InWindow(log[f[0]].at)
        BY <1>1, <1>2, <4>1 DEF Lists
      <4>4. log[k].at > log[f[0]].at
        BY <1>3, <4>2, <4>3, LogType, SMTT(30) DEF InWindow
      <4>5. k > f[0]
        BY <4>2, <4>4, LogType DEF ClockGrows
      <4> QED
        BY <1>2, <4>1, <4>5 DEF Newest
    <3> QED
      BY <1>3, <3>1, <3>2
  <2>2. PICK m \in 0 .. r.size - 1 : f[m] = k
    BY <2>1 DEF Hit
  <2>3. ~(m \in 0 .. n - 1)
    BY <1>1, <1>2, <2>2 DEF Lists
  <2>4. m - n \in 0 .. q.size - 1 /\ (m - n) + n = m
    BY <1>3, <2>3
  <2>5. g[m - n] = k
    BY <1>4, <2>2, <2>4
  <2> QED
    BY <2>4, <2>5
<1>10. Newest(q, C, g)
  <2> HIDE DEF g
  <2> QED
    BY <1>8, <1>9 DEF Newest
<1>11. q.head = Wrapped(q.tail + q.size)
  BY <1>1 DEF Keeps, q
<1>12. Keeps(q, C)
  <2>1. g \in [0 .. q.size - 1 -> C]
    BY <1>4
  <2> HIDE DEF g
  <2> QED
    BY <1>6, <1>10, <1>11, <2>1 DEF Keeps
<1> QED
  BY <1>1, <1>7, <1>12 DEF q

(* The size of a pruned ring is the number of calls in the window, or the  *)
(* ring is full and there are at least as many.                            *)
LEMMA PruneCounts ==
  ASSUME TypeOK, ClockGrows, NEW C \in SUBSET DOMAIN log, NEW r \in Ring, Keeps(r, C),
         NEW W, W = {k \in C : InWindow(log[k].at)}
  PROVE  /\ IsFiniteSet(W) /\ Cardinality(W) \in Nat
         /\ Pruned(r).size <= Cardinality(W)
         /\ Pruned(r).size = Cardinality(W) \/ Pruned(r).size = Capacity
<1> DEFINE q == Pruned(r)
           D == 0 .. q.size - 1
<1>1. q \in Ring /\ Keeps(q, C) /\ \A i \in D : InWindow(Entry(q, i))
  BY PruneKeeps
<1> HIDE DEF q
<1>2. PICK f \in [D -> C] : Lists(q, C, f) /\ Newest(q, C, f)
  BY <1>1 DEF Keeps
<1>3. q.size \in Nat
  BY <1>1, Sizes DEF Ring
<1>4. IsFiniteSet(D) /\ Cardinality(D) = q.size
  BY <1>3, FS_Interval
<1>5. IsFiniteSet(W) /\ Cardinality(W) \in Nat
  <2>1. W \subseteq 1 .. Len(log) /\ IsFiniteSet(1 .. Len(log))
    BY LogType, FS_Interval
  <2> QED
    BY <2>1, FS_Subset, FS_CardinalityType
<1>6. \A i \in D : f[i] \in W /\ f[i] \in Nat
  BY <1>1, <1>2, LogType DEF Lists
<1>7. f \in Injection(D, W)
  <2>1. \A i, k \in D : f[i] = f[k] => i = k
    <3> SUFFICES ASSUME NEW i \in D, NEW k \in D, i # k PROVE f[i] # f[k]
      OBVIOUS
    <3>1. i < k \/ k < i
      BY <1>3
    <3>2. i < k => f[i] < f[k]
      BY <1>2 DEF Lists
    <3>3. k < i => f[k] < f[i]
      BY <1>2 DEF Lists
    <3> QED
      BY <1>6, <3>1, <3>2, <3>3
  <2>2. f \in [D -> W]
    BY <1>2, <1>6
  <2> QED
    BY <2>1, <2>2 DEF Injection, IsInjective
<1>8. q.size <= Cardinality(W) /\ (q.size = Cardinality(W) <=> f \in Surjection(D, W))
  BY <1>4, <1>5, <1>7, FS_Injection
<1>9. q.size # Capacity => f \in Surjection(D, W)
  <2> SUFFICES ASSUME q.size # Capacity PROVE f \in Surjection(D, W)
    OBVIOUS
  <2>1. \A k \in W : \E i \in D : f[i] = k
    BY <1>2 DEF Newest, Hit
  <2> QED
    BY <1>2, <1>6, <2>1 DEF Surjection
<1> QED
  BY <1>5, <1>8, <1>9 DEF q

-----------------------------------------------------------------------------
(* One step, against the log. *)

(* A call that a ring does not record, or a tick, leaves what it keeps.    *)
LEMMA SameKeeps ==
  ASSUME TypeOK, NEW C \in SUBSET DOMAIN log, NEW r \in Ring, Keeps(r, C),
         now' \in Nat, now' >= now,
         \A k \in DOMAIN log : log'[k] = log[k]
  PROVE  Keeps(r, C)'
<1>1. PICK f \in [0 .. r.size - 1 -> C] : Lists(r, C, f) /\ Newest(r, C, f)
  BY DEF Keeps
<1>2. \A k \in C : log'[k] = log[k]
  OBVIOUS
<1>3. \A k \in C : InWindow(log[k].at)' => InWindow(log[k].at)
  <2> SUFFICES ASSUME NEW k \in C, log'[k].at > now' - Window PROVE log[k].at > now - Window
    BY DEF InWindow
  <2>1. log[k].at \in Nat /\ log'[k].at = log[k].at /\ now \in Nat
    BY <1>2, LogType DEF TypeOK
  <2> QED
    BY <2>1, Sizes
<1>4. Lists(r, C, f)'
  BY <1>1, <1>2 DEF Lists, Entry
<1>5. Newest(r, C, f)'
  BY <1>1, <1>3 DEF Newest, Hit
<1> QED
  BY <1>1, <1>4, <1>5 DEF Keeps

(* A call that a ring records becomes the newest of its entries. *)
LEMMA PushKeeps ==
  ASSUME TypeOK, ClockGrows, NEW C \in SUBSET DOMAIN log, NEW r \in Ring, Keeps(r, C),
         NEW s, s = Pushed(r), NEW new, new = Len(log) + 1, NEW D, D = C \cup {new},
         now' = now, log'[new].at = now,
         \A k \in DOMAIN log : log'[k] = log[k]
  PROVE  s \in Ring /\ Keeps(s, D)'
<1>1. PICK f \in [0 .. r.size - 1 -> C] : Lists(r, C, f) /\ Newest(r, C, f)
  BY DEF Keeps
<1>2. /\ s \in Ring /\ s.head = Wrapped(s.tail + s.size) /\ Entry(s, s.size - 1) = now
      /\ r.size < Capacity => s.size = r.size + 1 /\ \A i \in 0 .. r.size - 1 : Entry(s, i) = Entry(r, i)
      /\ r.size = Capacity => s.size = Capacity /\ \A i \in 0 .. Capacity - 2 : Entry(s, i) = Entry(r, i + 1)
  BY PushShape DEF Keeps, TypeOK
<1>3. /\ r.size \in Nat /\ r.size <= Capacity /\ Capacity \in Nat \ {0}
      /\ new \in Nat /\ C \subseteq 1 .. Len(log) /\ Len(log) \in Nat /\ now \in Nat
  <2>1. Len(log) \in Nat /\ DOMAIN log = 1 .. Len(log)
    BY LogType
  <2>2. r.size \in Nat /\ r.size <= Capacity /\ Capacity \in Nat \ {0}
    BY Sizes DEF Ring
  <2> QED
    BY <2>1, <2>2 DEF TypeOK
<1>4. /\ \A k \in C : k \in Nat /\ k < new /\ k \in D /\ log'[k] = log[k]
      /\ new \in D /\ log'[new].at = now
      /\ \A k \in D : k = new \/ k \in C
  BY <1>3, LogType
<1>5. \A k \in C : InWindow(log[k].at)' => InWindow(log[k].at)
  BY <1>4 DEF InWindow
<1>6. ASSUME NEW g \in [0 .. s.size - 1 -> D], Lists(s, D, g)', Newest(s, D, g)'
      PROVE  Keeps(s, D)'
  BY <1>2, <1>6 DEF Keeps
<1>7. CASE r.size < Capacity
  <2> DEFINE g == [i \in 0 .. s.size - 1 |-> IF i < r.size THEN f[i] ELSE new]
  <2>1. \A i \in 0 .. s.size - 1 :
          \/ i \in 0 .. r.size - 1 /\ g[i] = f[i] /\ f[i] \in C
          \/ i = r.size /\ i = s.size - 1 /\ g[i] = new
    <3> SUFFICES ASSUME NEW i \in 0 .. s.size - 1
                 PROVE  \/ i \in 0 .. r.size - 1 /\ g[i] = f[i] /\ f[i] \in C
                        \/ i = r.size /\ i = s.size - 1 /\ g[i] = new
      OBVIOUS
    <3>1. g[i] = IF i < r.size THEN f[i] ELSE new
      OBVIOUS
    <3> HIDE DEF g
    <3>2. CASE i < r.size
      BY <1>1, <1>3, <3>1, <3>2
    <3>3. CASE ~(i < r.size)
      BY <1>2, <1>3, <1>7, <3>1, <3>3
    <3> QED
      BY <3>2, <3>3
  <2>2. /\ \A i \in 0 .. r.size - 1 : i \in 0 .. s.size - 1 /\ g[i] = f[i]
        /\ r.size \in 0 .. s.size - 1 /\ g[r.size] = new
    BY <1>2, <1>3, <1>7
  <2>3. g \in [0 .. s.size - 1 -> D]
    <3>1. \A i \in 0 .. s.size - 1 : g[i] \in D
      BY <1>4, <2>1
    <3> QED
      BY <3>1
  <2> HIDE DEF g
  <2>4. \A i, k \in 0 .. s.size - 1 : i < k => g[i] < g[k]
    <3> SUFFICES ASSUME NEW i \in 0 .. s.size - 1, NEW k \in 0 .. s.size - 1, i < k PROVE g[i] < g[k]
      OBVIOUS
    <3>1. i \in 0 .. r.size - 1 /\ g[i] = f[i] /\ f[i] \in C
      BY <1>2, <1>3, <1>7, <2>1
    <3>2. CASE k \in 0 .. r.size - 1 /\ g[k] = f[k]
      BY <1>1, <3>1, <3>2 DEF Lists
    <3>3. CASE g[k] = new
      BY <1>4, <3>1, <3>3
    <3> QED
      BY <2>1, <3>2, <3>3
  <2>5. \A i \in 0 .. s.size - 1 : Entry(s, i) = log'[g[i]].at
    BY <1>1, <1>2, <1>4, <1>7, <2>1 DEF Lists
  <2>6. Lists(s, D, g)'
    BY <2>3, <2>4, <2>5 DEF Lists, Entry
  <2>7. \A k \in C : Hit(r, f, k) => Hit(s, g, k)
    BY <2>2 DEF Hit
  <2>8. Hit(s, g, new)
    BY <2>2 DEF Hit
  <2>9. \A k \in D, i \in 0 .. s.size - 1 : k > g[i] => Hit(s, g, k)
    <3> SUFFICES ASSUME NEW k \in C, NEW i \in 0 .. s.size - 1, k > g[i] PROVE Hit(s, g, k)
      BY <1>4, <2>8
    <3>1. i \in 0 .. r.size - 1 /\ g[i] = f[i]
      BY <1>3, <1>4, <2>1
    <3> QED
      BY <1>1, <2>7, <3>1 DEF Newest
  <2>10. \A k \in D : InWindow(log[k].at)' => s.size = Capacity \/ Hit(s, g, k)
    <3> SUFFICES ASSUME NEW k \in C, InWindow(log[k].at)' PROVE s.size = Capacity \/ Hit(s, g, k)
      BY <1>4, <2>8
    <3>1. InWindow(log[k].at)
      BY <1>5
    <3>2. r.size # Capacity
      BY <1>3, <1>7
    <3> QED
      BY <1>1, <2>7, <3>1, <3>2 DEF Newest
  <2>11. Newest(s, D, g)'
    BY <2>9, <2>10 DEF Newest, Hit
  <2> QED
    BY <1>2, <1>6, <2>3, <2>6, <2>11
<1>8. CASE r.size = Capacity
  <2> DEFINE g == [i \in 0 .. s.size - 1 |-> IF i < Capacity - 1 THEN f[i + 1] ELSE new]
  <2>1. \A i \in 0 .. s.size - 1 :
          \/ i \in 0 .. Capacity - 2 /\ i + 1 \in 0 .. r.size - 1 /\ g[i] = f[i + 1] /\ f[i + 1] \in C
          \/ i = Capacity - 1 /\ i = s.size - 1 /\ g[i] = new
    BY <1>1, <1>2, <1>3, <1>8
  <2>2. Capacity - 1 \in 0 .. s.size - 1 /\ g[Capacity - 1] = new
    BY <1>2, <1>3, <1>8
  <2>3. g \in [0 .. s.size - 1 -> D]
    <3>1. \A i \in 0 .. s.size - 1 : g[i] \in D
      BY <1>4, <2>1
    <3> QED
      BY <3>1
  <2>a. \A m \in 1 .. r.size - 1 : m - 1 \in 0 .. s.size - 1 /\ g[m - 1] = f[m]
    BY <1>1, <1>2, <1>3, <1>8
  <2> HIDE DEF g
  <2>4. \A i, k \in 0 .. s.size - 1 : i < k => g[i] < g[k]
    <3> SUFFICES ASSUME NEW i \in 0 .. s.size - 1, NEW k \in 0 .. s.size - 1, i < k PROVE g[i] < g[k]
      OBVIOUS
    <3>1. i + 1 \in 0 .. r.size - 1 /\ g[i] = f[i + 1] /\ f[i + 1] \in C
      BY <1>2, <1>3, <1>8, <2>1, SMTT(30)
    <3>2. CASE k + 1 \in 0 .. r.size - 1 /\ g[k] = f[k + 1]
      <4>1. i + 1 < k + 1
        BY <1>2, <1>3, <1>8
      <4> QED
        BY <1>1, <3>1, <3>2, <4>1 DEF Lists
    <3>3. CASE g[k] = new
      BY <1>4, <3>1, <3>3
    <3> QED
      BY <2>1, <3>2, <3>3
  <2>5. \A i \in 0 .. s.size - 1 : Entry(s, i) = log'[g[i]].at
    BY <1>1, <1>2, <1>4, <1>8, <2>1 DEF Lists
  <2>6. Lists(s, D, g)'
    BY <2>3, <2>4, <2>5 DEF Lists, Entry
  <2>7. Hit(s, g, new)
    BY <2>2 DEF Hit
  <2>8. \A k \in D, i \in 0 .. s.size - 1 : k > g[i] => Hit(s, g, k)
    <3> SUFFICES ASSUME NEW k \in C, NEW i \in 0 .. s.size - 1, k > g[i] PROVE Hit(s, g, k)
      BY <1>4, <2>7
    <3>1. i + 1 \in 0 .. r.size - 1 /\ k > f[i + 1] /\ f[i + 1] \in Nat
      BY <1>3, <1>4, <2>1
    <3>2. PICK m \in 0 .. r.size - 1 : f[m] = k
      BY <1>1, <3>1 DEF Newest, Hit
    <3>3. m # 0
      <4>1. 0 < i + 1 /\ 0 \in 0 .. r.size - 1
        BY <1>2, <1>3, <1>8
      <4>2. f[0] < f[i + 1] /\ f[0] \in Nat
        BY <1>1, <1>4, <3>1, <4>1 DEF Lists
      <4> QED
        BY <1>4, <3>1, <3>2, <4>2
    <3>4. m \in 1 .. r.size - 1
      BY <3>3
    <3> QED
      BY <2>a, <3>2, <3>4 DEF Hit
  <2>9. \A k \in D : InWindow(log[k].at)' => s.size = Capacity \/ Hit(s, g, k)
    BY <1>2, <1>8
  <2>10. Newest(s, D, g)'
    BY <2>8, <2>9 DEF Newest, Hit
  <2> QED
    BY <1>2, <1>6, <2>3, <2>6, <2>10
<1> QED
  BY <1>2, <1>3, <1>7, <1>8

(* What is kept of the next log, said of the rings of the next state. *)
LEMMA NextAttempts ==
  ASSUME NEW s, s = attempts', NEW D, D = Calls', Keeps(s, D)'
  PROVE  Keeps(attempts, Calls)'
<1>1. PICK f \in [0 .. s.size - 1 -> D] : Lists(s, D, f)' /\ Newest(s, D, f)'
  BY DEF Keeps
<1>2. Lists(attempts, Calls, f)' /\ Newest(attempts, Calls, f)'
  BY <1>1 DEF Lists, Newest, Hit, Entry
<1> QED
  BY <1>1, <1>2 DEF Keeps

LEMMA NextServed ==
  ASSUME NEW s, s = ok', NEW D, D = Served', Keeps(s, D)'
  PROVE  Keeps(ok, Served)'
<1>1. PICK f \in [0 .. s.size - 1 -> D] : Lists(s, D, f)' /\ Newest(s, D, f)'
  BY DEF Keeps
<1>2. Lists(ok, Served, f)' /\ Newest(ok, Served, f)'
  BY <1>1 DEF Lists, Newest, Hit, Entry
<1> QED
  BY <1>1, <1>2 DEF Keeps

-----------------------------------------------------------------------------
(* The rings answer as the whole log would. *)

(* The sizes of the pruned rings, against the sets the policy counts. *)
LEMMA AnswerExact ==
  ASSUME IInv
  PROVE  Answer(Pruned(attempts).size, Pruned(ok).size) = Policy!Verdict(log, now)
<1> DEFINE A == {k \in Calls : InWindow(log[k].at)}
           O == {k \in Served : InWindow(log[k].at)}
           a == Pruned(attempts).size
           o == Pruned(ok).size
<1>1. A = Policy!Recent(log, now) /\ O = Policy!OkAmong(log, Policy!Recent(log, now))
  BY DEF Calls, Served, InWindow, Policy!Recent, Policy!OkAmong
<1>2. TypeOK /\ ClockGrows /\ Keeps(attempts, Calls) /\ Keeps(ok, Served) /\ ok.size <= OkLimit
  BY DEF IInv
<1>3. attempts \in Ring /\ ok \in Ring /\ Calls \in SUBSET DOMAIN log /\ Served \in SUBSET DOMAIN log
  BY <1>2 DEF TypeOK, Calls, Served
<1>4. Cardinality(A) \in Nat /\ a <= Cardinality(A) /\ (a = Cardinality(A) \/ a = Capacity)
  BY <1>2, <1>3, PruneCounts
<1>5. Cardinality(O) \in Nat /\ o <= Cardinality(O) /\ (o = Cardinality(O) \/ o = Capacity)
  BY <1>2, <1>3, PruneCounts
<1>6. a \in Nat /\ o \in Nat
  BY <1>2, <1>3, PruneKeeps, Sizes, SMTT(30) DEF Ring
<1> HIDE DEF A, O, a, o
<1>7. a >= TotalLimit <=> Cardinality(A) >= TotalLimit
  BY <1>4, <1>6, Sizes
<1>8. o >= OkLimit <=> Cardinality(O) >= OkLimit
  BY <1>5, <1>6, Sizes
<1>9. Answer(a, o) = IF Cardinality(A) >= TotalLimit THEN "blocked"
                     ELSE IF Cardinality(O) >= OkLimit THEN "throttled" ELSE "ok"
  BY <1>7, <1>8 DEF Answer
<1>10. Policy!Verdict(log, now) = IF Cardinality(A) >= TotalLimit THEN "blocked"
                                  ELSE IF Cardinality(O) >= OkLimit THEN "throttled" ELSE "ok"
  BY <1>1 DEF Policy!Verdict, Policy!Cardinality, Cardinality
<1> QED
  BY <1>9, <1>10 DEF a, o

(* What every call does to the log. *)
LEMMA AllowStep ==
  ASSUME IInv, Allow
  PROVE  /\ log' = Append(log, [at |-> now, status |-> Policy!Verdict(log, now)])
         /\ Policy!Verdict(log, now) \in {"ok", "throttled", "blocked"}
         /\ Len(log') = Len(log) + 1 /\ DOMAIN log' = DOMAIN log \cup {Len(log) + 1}
         /\ \A k \in DOMAIN log : log'[k] = log[k]
         /\ log'[Len(log) + 1] = [at |-> now, status |-> Policy!Verdict(log, now)]
         /\ TypeOK
<1> DEFINE R == [at : Nat, status : {"ok", "throttled", "blocked"}]
           e == [at |-> now, status |-> Policy!Verdict(log, now)]
<1>1. log' = Append(log, e)
  BY AnswerExact DEF Allow
<1>2. TypeOK
  BY DEF IInv
<1>3. Policy!Verdict(log, now) \in {"ok", "throttled", "blocked"}
  BY DEF Policy!Verdict
<1>4. e \in R /\ log \in Seq(R)
  BY <1>2, <1>3 DEF TypeOK
<1> HIDE DEF e, R
<1>5. /\ Len(log') = Len(log) + 1 /\ DOMAIN log' = DOMAIN log \cup {Len(log) + 1}
      /\ \A k \in DOMAIN log : log'[k] = log[k]
      /\ log'[Len(log) + 1] = e
  BY <1>1, <1>4
<1> QED
  BY <1>1, <1>2, <1>3, <1>5 DEF e

LEMMA InitInv == Init => IInv
<1> SUFFICES ASSUME Init PROVE IInv
  OBVIOUS
<1>1. Empty \in Ring
  BY Sizes DEF Empty, Ring, Slots
<1>2. TypeOK /\ ClockGrows /\ Calls = {} /\ Served = {}
  BY <1>1 DEF Init, TypeOK, ClockGrows, Calls, Served
<1>3. Empty.head = Wrapped(Empty.tail + Empty.size) /\ Empty.size = 0
  <2>1. 0 \in Slots /\ 0 \in 0 .. Capacity
    BY Sizes DEF Slots
  <2>2. Wrapped(0 + 0) = 0
    BY <2>1, Slot, Sizes
  <2> QED
    BY <2>2 DEF Empty
<1>4. Keeps(Empty, {})
  <2> DEFINE f == [i \in {} |-> 0]
  <2>1. 0 .. Empty.size - 1 = {}
    BY <1>3
  <2>2. f \in [0 .. Empty.size - 1 -> {}]
    BY <2>1
  <2>3. Lists(Empty, {}, f) /\ Newest(Empty, {}, f)
    BY <2>1, <2>2 DEF Lists, Newest
  <2> QED
    BY <1>3, <2>2, <2>3 DEF Keeps
<1> QED
  BY <1>2, <1>3, <1>4, Sizes DEF Init, IInv

LEMMA AllowInv ==
  ASSUME IInv, Allow
  PROVE  IInv'
<1> DEFINE new == Len(log) + 1
           status == Policy!Verdict(log, now)
           a == Pruned(attempts)
           o == Pruned(ok)
<1>1. /\ TypeOK /\ ClockGrows /\ now' = now /\ now \in Nat
      /\ log' = Append(log, [at |-> now, status |-> status])
      /\ status \in {"ok", "throttled", "blocked"}
      /\ DOMAIN log' = DOMAIN log \cup {new}
      /\ \A k \in DOMAIN log : log'[k] = log[k]
      /\ log'[new] = [at |-> now, status |-> status]
  BY AllowStep DEF IInv, Allow, TypeOK
<1>2. /\ attempts' = Pushed(a)
      /\ ok' = IF status = "ok" THEN Pushed(o) ELSE o
  BY AnswerExact DEF Allow
<1>3. /\ attempts \in Ring /\ ok \in Ring /\ Calls \in SUBSET DOMAIN log /\ Served \in SUBSET DOMAIN log
      /\ Keeps(attempts, Calls) /\ Keeps(ok, Served) /\ ok.size <= OkLimit
  BY <1>1 DEF IInv, TypeOK, Calls, Served
<1>4. a \in Ring /\ Keeps(a, Calls) /\ o \in Ring /\ Keeps(o, Served)
  BY <1>1, <1>3, PruneKeeps
<1>5. Calls' = Calls \cup {new}
  BY <1>1 DEF Calls
<1>6. Served' = IF status = "ok" THEN Served \cup {new} ELSE Served
  <2>1. \A k \in DOMAIN log : k # new
    BY <1>1, LogType
  <2>2. log'[new].status = status
    BY <1>1
  <2> HIDE DEF new, status
  <2> QED
    BY <1>1, <2>1, <2>2 DEF Served
<1>7. attempts' \in Ring /\ Keeps(attempts, Calls)'
  <2>1. PICK s, D : s = attempts' /\ D = Calls'
    OBVIOUS
  <2>2. log'[new].at = now
    BY <1>1
  <2> HIDE DEF a
  <2>3. s \in Ring /\ Keeps(s, D)'
    BY <1>1, <1>2, <1>3, <1>4, <1>5, <2>1, <2>2, PushKeeps
  <2> QED
    BY <2>1, <2>3, NextAttempts
<1>8. ok' \in Ring /\ Keeps(ok, Served)'
  <2>1. PICK s, D : s = ok' /\ D = Served'
    OBVIOUS
  <2>2. log'[new].at = now
    BY <1>1
  <2> HIDE DEF o
  <2>3. CASE status = "ok"
    <3>1. s = Pushed(o) /\ D = Served \cup {new}
      BY <1>2, <1>6, <2>1, <2>3
    <3>2. s \in Ring /\ Keeps(s, D)'
      BY <1>1, <1>3, <1>4, <2>2, <3>1, PushKeeps
    <3> QED
      BY <2>1, <3>2, NextServed
  <2>4. CASE status # "ok"
    <3>1. s = o /\ D = Served
      BY <1>2, <1>6, <2>1, <2>4
    <3>2. s \in Ring /\ Keeps(s, D)'
      BY <1>1, <1>3, <1>4, <3>1, SameKeeps
    <3> QED
      BY <2>1, <3>2, NextServed
  <2> QED
    BY <2>3, <2>4
<1>9. ok'.size <= OkLimit
  <2>1. o.size \in Nat /\ o.size <= ok.size /\ ok.size \in Nat
    BY <1>3, PruneShape, Sizes DEF Ring
  <2>2. status = "ok" => o.size < OkLimit
    BY AnswerExact, <2>1, Sizes DEF Answer
  <2>3. o.size < Capacity => Pushed(o).size = o.size + 1
    BY DEF Pushed
  <2>4. CASE status = "ok"
    BY <1>2, <2>1, <2>2, <2>3, <2>4, Sizes
  <2>5. CASE status # "ok"
    BY <1>2, <1>3, <2>1, <2>5, Sizes
  <2> QED
    BY <2>4, <2>5
<1>10. TypeOK'
  <2> DEFINE R == [at : Nat, status : {"ok", "throttled", "blocked"}]
  <2>1. log \in Seq(R) /\ [at |-> now, status |-> status] \in R
    BY <1>1 DEF TypeOK
  <2> DEFINE e == [at |-> now, status |-> status]
  <2>2. log' = Append(log, e) /\ e \in R
    BY <1>1, <2>1
  <2> HIDE DEF e, R
  <2>3. log' \in Seq(R)
    BY <2>1, <2>2
  <2> QED
    BY <1>1, <1>7, <1>8, <2>3 DEF TypeOK, R
<1>11. ClockGrows'
  <2>1. \A k \in DOMAIN log : log[k].at <= now /\ log'[k] = log[k] /\ k < new /\ k \in Nat
    BY <1>1, LogType DEF ClockGrows
  <2>2. log'[new].at = now /\ new \in Nat
    BY <1>1, LogType
  <2> HIDE DEF new, status
  <2>3. \A k \in DOMAIN log' : log'[k].at <= now'
    BY <1>1, <2>1, <2>2
  <2>4. \A i, k \in DOMAIN log' : i <= k => log'[i].at <= log'[k].at
    BY <1>1, <2>1, <2>2 DEF ClockGrows
  <2> QED
    BY <2>3, <2>4 DEF ClockGrows
<1> QED
  BY <1>7, <1>8, <1>9, <1>10, <1>11 DEF IInv

(* A tick, or a stutter. *)
LEMMA StillInv ==
  ASSUME IInv, now' \in {now, now + 1}, UNCHANGED <<ok, attempts, log>>
  PROVE  IInv'
<1>1. TypeOK /\ ClockGrows /\ now \in Nat /\ now' \in {now, now + 1} /\ UNCHANGED <<ok, attempts, log>>
  BY DEF IInv, TypeOK
<1>2. /\ attempts \in Ring /\ ok \in Ring /\ Calls \in SUBSET DOMAIN log /\ Served \in SUBSET DOMAIN log
      /\ Calls' = Calls /\ Served' = Served
  BY <1>1 DEF TypeOK, Calls, Served
<1>3. now' \in Nat /\ now' >= now /\ \A k \in DOMAIN log : log'[k] = log[k]
  BY <1>1
<1>4. Keeps(attempts, Calls)'
  <2>1. PICK s, D : s = attempts' /\ D = Calls'
    OBVIOUS
  <2>2. s = attempts /\ D = Calls
    BY <1>1, <1>2, <2>1
  <2>3. Keeps(s, D) /\ s \in Ring /\ D \in SUBSET DOMAIN log
    BY <1>2, <2>2 DEF IInv
  <2>4. Keeps(s, D)'
    BY <1>1, <1>3, <2>3, SameKeeps
  <2> QED
    BY <2>1, <2>4, NextAttempts
<1>5. Keeps(ok, Served)'
  <2>1. PICK s, D : s = ok' /\ D = Served'
    OBVIOUS
  <2>2. s = ok /\ D = Served
    BY <1>1, <1>2, <2>1
  <2>3. Keeps(s, D) /\ s \in Ring /\ D \in SUBSET DOMAIN log
    BY <1>2, <2>2 DEF IInv
  <2>4. Keeps(s, D)'
    BY <1>1, <1>3, <2>3, SameKeeps
  <2> QED
    BY <2>1, <2>4, NextServed
<1>6. TypeOK'
  BY <1>1 DEF TypeOK
<1>7. ClockGrows'
  BY <1>1, LogType DEF ClockGrows
<1> QED
  BY <1>1, <1>4, <1>5, <1>6, <1>7 DEF IInv

-----------------------------------------------------------------------------
(* The theorems. *)

(* The rings list the newest of the calls, in order, and miss one of the   *)
(* window only when they are full.                                         *)
THEOREM Inductive == Spec => []IInv
<1>1. IInv /\ [Next]_vars => IInv'
  <2> SUFFICES ASSUME IInv, [Next]_vars PROVE IInv'
    OBVIOUS
  <2>1. CASE Allow
    BY <2>1, AllowInv
  <2>2. CASE Tick
    BY <2>2, StillInv DEF Tick
  <2>3. CASE UNCHANGED vars
    BY <2>3, StillInv DEF vars
  <2> QED
    BY <2>1, <2>2, <2>3 DEF Next
<1> QED
  BY <1>1, InitInv, PTL DEF Spec

(* The rings stay within their capacity and hold timestamps. *)
THEOREM TypeCorrect == Spec => []TypeOK
BY Inductive, PTL DEF IInv

LEMMA PolicyStep ==
  ASSUME IInv, [Next]_vars
  PROVE  [Policy!Next]_(Policy!vars)
<1>1. CASE Allow
  BY <1>1, AllowStep DEF Allow, Policy!Allow, Policy!Next
<1>2. CASE Tick
  BY <1>2 DEF Tick, Policy!Tick, Policy!Next
<1>3. CASE UNCHANGED vars
  BY <1>3 DEF vars, Policy!vars
<1> QED
  BY <1>1, <1>2, <1>3 DEF Next

(* FloodGuard answers every call as the policy over the full log does: the *)
(* rings forget nothing that an answer depends on.                         *)
THEOREM PolicyImplemented == Spec => ImplementsPolicy
<1>1. Init => Policy!Init
  BY DEF Init, Policy!Init
<1>2. IInv /\ [Next]_vars => [Policy!Next]_(Policy!vars)
  BY PolicyStep
<1> QED
  BY <1>1, <1>2, Inductive, PTL DEF Spec, ImplementsPolicy, Policy!Spec

(* After a window without calls the next one gets full results. *)
THEOREM PauseCorrect == Spec => []PauseRecovers
<1>1. IInv => PauseRecovers
  <2> SUFFICES ASSUME IInv, \A i \in DOMAIN log : ~InWindow(log[i].at)
               PROVE  Answer(Pruned(attempts).size, Pruned(ok).size) = "ok"
    BY DEF PauseRecovers
  <2>1. Policy!Recent(log, now) = {} /\ Policy!OkAmong(log, {}) = {}
    BY DEF InWindow, Policy!Recent, Policy!OkAmong
  <2>2. Cardinality({}) = 0
    BY FS_EmptySet
  <2>3. ~(0 >= TotalLimit) /\ ~(0 >= OkLimit)
    BY Sizes
  <2>4. Policy!Verdict(log, now) = "ok"
    BY <2>1, <2>2, <2>3 DEF Policy!Verdict, Policy!Cardinality, Cardinality
  <2> QED
    BY <2>4, AnswerExact
<1> QED
  BY <1>1, Inductive, PTL

(* The reported count is the number of calls served in the window. *)
THEOREM WindowCountCorrect == Spec => []WindowCountExact
<1>1. IInv => WindowCountExact
  <2> SUFFICES ASSUME IInv PROVE WindowCountExact
    OBVIOUS
  <2>1. /\ TypeOK /\ ClockGrows /\ Keeps(ok, Served) /\ ok.size <= OkLimit /\ ok.size \in Nat
        /\ ok.size # Capacity /\ Served \subseteq DOMAIN log
    BY Sizes DEF IInv, TypeOK, Ring, Served
  <2>2. PICK f \in [0 .. ok.size - 1 -> Served] : Lists(ok, Served, f) /\ Newest(ok, Served, f)
    BY <2>1 DEF Keeps
  <2> DEFINE D == {i \in 0 .. ok.size - 1 : InWindow(Entry(ok, i))}
             W == OkIn(now - Window, now)
             g == [i \in D |-> f[i]]
  <2>3. W = {k \in Served : InWindow(log[k].at)}
    BY <2>1 DEF OkIn, Served, InWindow, ClockGrows
  <2>4. IsFiniteSet(D)
    <3>1. IsFiniteSet(0 .. ok.size - 1) /\ D \subseteq 0 .. ok.size - 1
      BY <2>1, FS_Interval
    <3> HIDE DEF D
    <3> QED
      BY <3>1, FS_Subset
  <2>5. \A i \in D : f[i] \in W
    BY <2>2, <2>3 DEF Lists
  <2>6. \A i, k \in D : f[i] = f[k] => i = k
    <3> SUFFICES ASSUME NEW i \in D, NEW k \in D, i # k PROVE f[i] # f[k]
      OBVIOUS
    <3>1. f[i] \in Nat /\ f[k] \in Nat
      <4>1. f[i] \in DOMAIN log /\ f[k] \in DOMAIN log
        BY <2>1, <2>2
      <4> QED
        BY <2>1, <4>1, LogType
    <3>2. i < k => f[i] < f[k]
      BY <2>2 DEF Lists
    <3>3. k < i => f[k] < f[i]
      BY <2>2 DEF Lists
    <3>4. i < k \/ k < i
      BY <2>1
    <3> QED
      BY <3>1, <3>2, <3>3, <3>4
  <2>7. \A k \in W : \E i \in D : f[i] = k
    <3> SUFFICES ASSUME NEW k \in W PROVE \E i \in D : f[i] = k
      OBVIOUS
    <3>1. k \in Served /\ InWindow(log[k].at)
      BY <2>3
    <3>2. PICK i \in 0 .. ok.size - 1 : f[i] = k
      BY <2>1, <2>2, <3>1 DEF Newest, Hit
    <3>3. Entry(ok, i) = log[k].at
      BY <2>2, <3>2 DEF Lists
    <3> QED
      BY <3>1, <3>2, <3>3
  <2> HIDE DEF D, W
  <2>8. g \in Bijection(D, W)
    <3>1. g \in [D -> W] /\ (\A i, k \in D : g[i] = g[k] => i = k) /\ \A k \in W : \E i \in D : g[i] = k
      BY <2>5, <2>6, <2>7
    <3> HIDE DEF g
    <3> QED
      BY <3>1 DEF Bijection, Injection, IsInjective, Surjection
  <2>9. Cardinality(D) = Cardinality(W)
    <3> HIDE DEF g
    <3> QED
      BY <2>4, <2>8, FS_Bijection DEF ExistsBijection
  <2> QED
    BY <2>9 DEF WindowCountExact, WindowCount, D, W
<1> QED
  BY <1>1, Inductive, PTL

(* Whatever the past window: at most OkLimit calls of it got full results. *)
THEOREM RateCorrect == Spec => []RateBounded
<1>1. Init => RateBounded
  <2> SUFFICES ASSUME Init, NEW t \in 0 .. MaxTime PROVE Cardinality(OkIn(t - Window, t)) <= OkLimit
    BY DEF RateBounded
  <2>1. OkIn(t - Window, t) = {}
    BY DEF Init, OkIn
  <2> QED
    BY <2>1, FS_EmptySet, Sizes
<1>2. IInv /\ RateBounded /\ [Next]_vars => RateBounded'
  <2> SUFFICES ASSUME IInv, RateBounded, [Next]_vars PROVE RateBounded'
    OBVIOUS
  <2>1. CASE UNCHANGED log
    BY <2>1 DEF RateBounded, OkIn
  <2>2. CASE Allow
    <3> SUFFICES ASSUME NEW t \in 0 .. MaxTime PROVE Cardinality(OkIn(t - Window, t)') <= OkLimit
      BY DEF RateBounded, OkIn
    <3> DEFINE new == Len(log) + 1
               status == Policy!Verdict(log, now)
               B == OkIn(t - Window, t)
               W == Policy!OkAmong(log, Policy!Recent(log, now))
    <3>1. PICK Bn : Bn = OkIn(t - Window, t)'
      OBVIOUS
    <3>2. /\ DOMAIN log' = DOMAIN log \cup {new}
          /\ \A k \in DOMAIN log : log'[k] = log[k]
          /\ log'[new] = [at |-> now, status |-> status]
          /\ now \in Nat /\ t \in Nat /\ ClockGrows
      BY <2>2, AllowStep, GuardAssumption DEF IInv, TypeOK
    <3>3. CASE status # "ok" \/ t < now
      <4>1. log'[new].at = now /\ log'[new].status = status
        BY <3>2
      <4>2. ~(log'[new].status = "ok" /\ log'[new].at > t - Window /\ log'[new].at <= t)
        BY <3>2, <3>3, <4>1
      <4> HIDE DEF new, status
      <4>3. Bn = B
        <5>1. \A k \in Bn : k \in DOMAIN log' /\ log'[k].status = "ok"
                            /\ log'[k].at > t - Window /\ log'[k].at <= t
          BY <3>1 DEF OkIn
        <5>2. Bn \subseteq B
          BY <3>2, <4>2, <5>1 DEF OkIn
        <5>3. B \subseteq Bn
          BY <3>1, <3>2 DEF OkIn
        <5> QED
          BY <5>2, <5>3
      <4> QED
        BY <3>1, <4>3 DEF RateBounded
    <3>4. CASE status = "ok" /\ t >= now
      <4>1. IsFiniteSet(W) /\ Cardinality(W) \in Nat /\ Cardinality(W) < OkLimit
        <5>1. IsFiniteSet(DOMAIN log) /\ W \subseteq DOMAIN log
          BY LogType, FS_Interval DEF IInv, Policy!OkAmong, Policy!Recent
        <5>2. IsFiniteSet(W) /\ Cardinality(W) \in Nat
          <6> HIDE DEF W
          <6> QED
            BY <5>1, FS_Subset, FS_CardinalityType
        <5>3. ~(Cardinality(W) >= OkLimit)
          BY <3>4 DEF Policy!Verdict, Policy!Cardinality, Cardinality
        <5> HIDE DEF W
        <5> QED
          BY <5>2, <5>3, Sizes
      <4>2. Bn \subseteq W \cup {new}
        <5> SUFFICES ASSUME NEW k \in Bn, k # new PROVE k \in W
          OBVIOUS
        <5>1. /\ k \in DOMAIN log' /\ log'[k].status = "ok" /\ log'[k].at > t - Window
          BY <3>1 DEF OkIn
        <5>2. k \in DOMAIN log /\ log[k].status = "ok" /\ log[k].at > t - Window /\ log[k].at \in Nat
          BY <3>2, <5>1, LogType DEF IInv
        <5>3. log[k].at > now - Window
          BY <3>2, <3>4, <5>2, Sizes
        <5> QED
          BY <5>2, <5>3 DEF Policy!OkAmong, Policy!Recent
      <4> HIDE DEF W, new
      <4>3. /\ IsFiniteSet(W \cup {new}) /\ Cardinality(W \cup {new}) <= Cardinality(W) + 1
            /\ Cardinality(W \cup {new}) \in Nat
        <5>1. IsFiniteSet(W \cup {new})
          BY <4>1, FS_AddElement
        <5>2. Cardinality(W \cup {new}) = IF new \in W THEN Cardinality(W) ELSE Cardinality(W) + 1
          BY <4>1, FS_AddElement
        <5> QED
          BY <4>1, <5>1, <5>2
      <4>4. IsFiniteSet(Bn) /\ Cardinality(Bn) <= Cardinality(W \cup {new}) /\ Cardinality(Bn) \in Nat
        BY <4>2, <4>3, FS_Subset, FS_CardinalityType
      <4> QED
        BY <3>1, <4>1, <4>3, <4>4, Sizes
    <3> QED
      BY <3>2, <3>3, <3>4
  <2> QED
    BY <2>1, <2>2 DEF Next, Tick, vars
<1> QED
  BY <1>1, <1>2, Inductive, PTL DEF Spec
=============================================================================
