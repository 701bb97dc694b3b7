--------------------------- MODULE RollMutProofs ----------------------------
(***************************************************************************)
(* For buffers of any size, any number of Rolls and any sequence of calls: *)
(* the filled part of a RollMut is the stream of bytes put into it, Rolls  *)
(* keep the bytes they were taken for, and reserve makes room.             *)
(***************************************************************************)
EXTENDS RollMut, SequenceTheorems, FiniteSetTheorems, TLAPS

\* The len bytes at offset off of the storage c are numbered from first.
Holds(c, off, len, first) ==
    /\ off + len <= Len(c)
    /\ \A i \in 1 .. len : c[off + i] = first + i - 1

Buffers == [store : Stores, off : Nat, len : Nat]
Views == [store : Stores, off : Nat, len : Nat, first : Nat]

\* The buffer r in memory m, when the first of its bytes is number t + 1.
BufferHolds(m, r, t) ==
    /\ Len(m[r.store]) >= BufSize
    /\ Holds(m[r.store], r.off, r.len, t + 1)

\* The Roll v, which ends before what the buffer r will write next.
RollHolds(m, r, v) ==
    /\ Len(m[v.store]) >= BufSize
    /\ Holds(m[v.store], v.off, v.len, v.first)
    /\ v.store = r.store => v.off + v.len <= r.off + r.len

Consistent(m, r, rs, t) ==
    /\ m \in [Stores -> Seq(Nat)]
    /\ r \in Buffers
    /\ rs \in [Rolls -> Views \cup {NoRoll}]
    /\ t \in Nat
    /\ BufferHolds(m, r, t)
    /\ \A x \in Rolls : rs[x] # NoRoll => rs[x] \in Views /\ RollHolds(m, r, rs[x])

\* No storage is kept that nothing is on.
NoGarbage(m, r, rs) ==
    \A s \in Stores : m[s] # <<>> => \/ s = r.store
                                     \/ \E x \in Rolls : rs[x] # NoRoll /\ rs[x].store = s

IInv ==
    /\ Consistent(mem, rm, rolls, taken)
    /\ NoGarbage(mem, rm, rolls)
    /\ total = taken + rm.len
    /\ reading \in Nat /\ reading <= Cap
-----------------------------------------------------------------------------
(* Storage.                                                                *)

\* What is known of a storage: its length and its bytes.
LEMMA StorageProperties ==
    ASSUME NEW c \in Seq(Nat)
    PROVE  Len(c) \in Nat /\ DOMAIN c = 1 .. Len(c) /\ \A i \in 1 .. Len(c) : c[i] \in Nat
BY Zenon, LenProperties, ElementOfSeq

\* The bytes of the stream that Upcoming and Blank stand for.
LEMMA NumbersProperties ==
    ASSUME NEW first \in Nat, NEW len \in Nat
    PROVE  /\ Numbers(first, len) \in Seq(Nat)
           /\ Len(Numbers(first, len)) = len
           /\ \A i \in 1 .. len : Numbers(first, len)[i] = first + i - 1
<1>1. Numbers(first, len) \in [1 .. len -> Nat]
    BY DEF Numbers
<1>2. Numbers(first, len) \in Seq(Nat)
    BY <1>1
<1>3. Len(Numbers(first, len)) = len
    BY <1>2 DEF Numbers
<1> QED BY Zenon, <1>2, <1>3 DEF Numbers

\* What is known of storage that was never written.
LEMMA BlankProperties ==
    ASSUME NEW size \in Nat
    PROVE  Blank(size) \in Seq(Nat) /\ Len(Blank(size)) = size
<1>1. Blank(size) \in [1 .. size -> Nat]
    BY Zenon DEF Blank
<1>2. Blank(size) \in Seq(Nat)
    BY <1>1
<1> QED BY <1>2 DEF Blank

\* The len bytes at offset off of the storage c.
Part(c, off, len) == SubSeq(c, off + 1, off + len)

\* Reading a part of a storage is knowing its bytes one by one.
LEMMA ReadIsHolds ==
    ASSUME NEW c \in Seq(Nat), NEW off \in Nat, NEW len \in Nat, NEW first \in Nat,
           Holds(c, off, len, first)
    PROVE  Part(c, off, len) = Numbers(first, len)
<1> DEFINE part == SubSeq(c, off + 1, off + len)
<1>1. \A i \in off + 1 .. off + len : c[i] \in Nat
    BY StorageProperties DEF Holds
<1>2. /\ part \in Seq(Nat) /\ Len(part) = len
      /\ \A i \in 1 .. len : part[i] = c[off + i]
    BY <1>1, SubSeqProperties
<1>3. \A i \in 1 .. len : part[i] = Numbers(first, len)[i]
    BY Zenon, <1>2, NumbersProperties DEF Holds
<1>4. Numbers(first, len) \in Seq(Nat) /\ Len(Numbers(first, len)) = len
    BY Zenon, NumbersProperties
<1>5. part = Numbers(first, len)
    BY Zenon, <1>2, <1>3, <1>4, SeqEqual
<1> QED BY Zenon, <1>5 DEF Part

\* w is m but for bytes at offset off of the storage s, and what follows them.
Overwrites(w, m, s, off, bytes) ==
    /\ w \in [Stores -> Seq(Nat)]
    /\ \A q \in Stores : q # s => w[q] = m[q]
    /\ Len(w[s]) = Len(m[s])
    /\ \A i \in 1 .. Len(bytes) : w[s][off + i] = bytes[i]
    /\ \A i \in 1 .. off : w[s][i] = m[s][i]

\* A write changes the bytes it is meant to change and none before them.
LEMMA WrittenProperties ==
    ASSUME NEW m \in [Stores -> Seq(Nat)], NEW s \in Stores, NEW off \in Nat,
           NEW bytes \in Seq(Nat), off + Len(bytes) <= Len(m[s])
    PROVE  Overwrites(Written(m, s, off, bytes), m, s, off, bytes)
<1> DEFINE c == m[s]
           d == [i \in 1 .. Len(c) |-> IF i \in off + 1 .. off + Len(bytes) THEN bytes[i - off] ELSE c[i]]
<1>1. Written(m, s, off, bytes) = [m EXCEPT ![s] = d]
    BY Zenon DEF Written
<1>2. /\ Len(c) \in Nat /\ \A i \in 1 .. Len(c) : c[i] \in Nat
      /\ Len(bytes) \in Nat /\ \A i \in 1 .. Len(bytes) : bytes[i] \in Nat
    BY Zenon, StorageProperties
<1>3. d \in [1 .. Len(c) -> Nat]
    BY <1>2
<1>4. d \in Seq(Nat) /\ Len(d) = Len(c)
    BY <1>2, <1>3
<1>5. /\ \A i \in 1 .. Len(bytes) : d[off + i] = bytes[i]
      /\ \A i \in 1 .. off : d[i] = c[i]
    BY <1>2
<1> HIDE DEF c, d
<1>6. [m EXCEPT ![s] = d] \in [Stores -> Seq(Nat)]
    BY Zenon, <1>4
<1>7. [m EXCEPT ![s] = d][s] = d /\ \A q \in Stores : q # s => [m EXCEPT ![s] = d][q] = m[q]
    BY Zenon
<1> QED BY Zenon, <1>1, <1>4, <1>5, <1>6, <1>7 DEF c, Overwrites

\* What agrees up to the end of a part holds the same part.
LEMMA HoldsStill ==
    ASSUME NEW c \in Seq(Nat), NEW d \in Seq(Nat), Len(d) = Len(c),
           NEW off \in Nat, NEW len \in Nat, NEW first \in Nat, Holds(c, off, len, first),
           NEW end \in Nat, off + len <= end, \A i \in 1 .. end : d[i] = c[i]
    PROVE  Holds(d, off, len, first)
<1>1. ASSUME NEW i \in 1 .. len PROVE d[off + i] = first + i - 1
  <2>1. off + i \in 1 .. end
      OBVIOUS
  <2> QED BY Zenon, <2>1 DEF Holds
<1> QED BY Zenon, <1>1 DEF Holds

\* What is written behind the filled part disturbs neither it nor a Roll.
LEMMA WriteBehind ==
    ASSUME NEW m, NEW r, NEW rs, NEW t, Consistent(m, r, rs, t),
           NEW bytes \in Seq(Nat), r.off + r.len + Len(bytes) <= Len(m[r.store])
    PROVE  /\ Consistent(Written(m, r.store, r.off + r.len, bytes), r, rs, t)
           /\ Overwrites(Written(m, r.store, r.off + r.len, bytes), m, r.store, r.off + r.len, bytes)
<1> DEFINE end == r.off + r.len
           w == Written(m, r.store, end, bytes)
<1>1. /\ r.store \in Stores /\ r.off \in Nat /\ r.len \in Nat /\ t \in Nat
      /\ m \in [Stores -> Seq(Nat)]
    BY Zenon DEF Consistent, Buffers
<1>2. end \in Nat
    BY <1>1
<1>3. Overwrites(w, m, r.store, end, bytes)
  <2>1. end + Len(bytes) <= Len(m[r.store])
      BY Zenon
  <2> HIDE DEF end
  <2> QED BY Zenon, <1>1, <1>2, <2>1, WrittenProperties
<1> HIDE DEF w
<1>4. /\ w \in [Stores -> Seq(Nat)]
      /\ \A q \in Stores : q # r.store => w[q] = m[q]
      /\ Len(w[r.store]) = Len(m[r.store])
      /\ \A i \in 1 .. end : w[r.store][i] = m[r.store][i]
    BY Zenon, <1>3 DEF Overwrites
<1>5. BufferHolds(w, r, t)
  <2>1. BufferHolds(m, r, t) /\ m[r.store] \in Seq(Nat) /\ w[r.store] \in Seq(Nat)
      BY Zenon, <1>1, <1>4 DEF Consistent
  <2>2. Holds(w[r.store], r.off, r.len, t + 1)
    <3>1. r.off + r.len <= end /\ t + 1 \in Nat
        BY <1>1, <1>2
    <3> QED BY <1>1, <1>2, <1>4, <2>1, <3>1, HoldsStill DEF BufferHolds
  <2> QED BY Zenon, <1>4, <2>1, <2>2 DEF BufferHolds
<1>6. ASSUME NEW x \in Rolls, rs[x] # NoRoll PROVE rs[x] \in Views /\ RollHolds(w, r, rs[x])
  <2>1. /\ rs[x].store \in Stores /\ rs[x].off \in Nat /\ rs[x].len \in Nat /\ rs[x].first \in Nat
        /\ rs[x] \in Views /\ RollHolds(m, r, rs[x])
      BY Zenon, <1>6 DEF Consistent, Views
  <2>2. CASE rs[x].store # r.store
      BY Zenon, <1>4, <2>1, <2>2 DEF RollHolds
  <2>3. CASE rs[x].store = r.store
    <3>1. Holds(w[r.store], rs[x].off, rs[x].len, rs[x].first)
      <4>1. /\ m[r.store] \in Seq(Nat) /\ w[r.store] \in Seq(Nat)
            /\ Holds(m[r.store], rs[x].off, rs[x].len, rs[x].first) /\ rs[x].off + rs[x].len <= end
          BY Zenon, <1>1, <1>4, <2>1, <2>3 DEF RollHolds
      <4> QED BY <1>2, <1>4, <2>1, <4>1, HoldsStill
    <3> QED BY Zenon, <1>4, <2>1, <2>3, <3>1 DEF RollHolds
  <2> QED BY Zenon, <2>1, <2>2, <2>3
<1>7. Consistent(w, r, rs, t)
    BY Zenon, <1>4, <1>5, <1>6 DEF Consistent
<1> QED BY Zenon, <1>3, <1>7 DEF w

\* Two parts that follow each other are one.
LEMMA HoldsJoined ==
    ASSUME NEW c, NEW off \in Nat, NEW len \in Nat, NEW n \in Nat, NEW first \in Nat,
           Holds(c, off, len, first), Holds(c, off + len, n, first + len)
    PROVE  Holds(c, off, len + n, first)
<1>1. /\ \A i \in 1 .. len : c[off + i] = first + i - 1
      /\ \A i \in 1 .. n : c[off + len + i] = first + len + i - 1
    BY Zenon DEF Holds
<1>2. ASSUME NEW i \in 1 .. len + n PROVE c[off + i] = first + i - 1
  <2>1. CASE i <= len
    <3>1. i \in 1 .. len
        BY <2>1
    <3> QED BY Zenon, <1>1, <3>1
  <2>2. CASE i > len
    <3> PICK k \in 1 .. n : i = len + k
      <4>1. i - len \in 1 .. n /\ i = len + (i - len)
          BY <2>2
      <4> QED BY Zenon, <4>1
    <3>1. c[off + len + k] = first + len + k - 1
        BY Zenon, <1>1
    <3>2. off + len + k = off + i /\ first + len + k - 1 = first + i - 1
        OBVIOUS
    <3> QED BY Zenon, <3>1, <3>2
  <2> QED BY <2>1, <2>2
<1>3. off + (len + n) = (off + len) + n
    OBVIOUS
<1> QED BY Zenon, <1>2, <1>3 DEF Holds

\* Bytes behind the filled part become part of it.
LEMMA Extends ==
    ASSUME NEW m, NEW r, NEW rs, NEW t, Consistent(m, r, rs, t), NEW n \in Nat,
           Holds(m[r.store], r.off + r.len, n, t + 1 + r.len)
    PROVE  Consistent(m, [r EXCEPT !.len = @ + n], rs, t)
<1> DEFINE q == [r EXCEPT !.len = @ + n]
<1>1. /\ r.store \in Stores /\ r.off \in Nat /\ r.len \in Nat /\ t \in Nat
      /\ m \in [Stores -> Seq(Nat)] /\ r \in Buffers
    BY Zenon DEF Consistent, Buffers
<1>2. q \in Buffers /\ q.store = r.store /\ q.off = r.off /\ q.len = r.len + n
  <2>1. r.len + n \in Nat
      BY <1>1
  <2> QED BY Zenon, <1>1, <2>1 DEF Buffers
<1> HIDE DEF q
<1>3. BufferHolds(m, q, t)
  <2>1. BufferHolds(m, r, t) /\ t + 1 \in Nat
      BY <1>1 DEF Consistent
  <2>2. Holds(m[r.store], r.off, r.len + n, t + 1)
      BY Zenon, <1>1, <2>1, HoldsJoined DEF BufferHolds
  <2> QED BY Zenon, <1>2, <2>1, <2>2 DEF BufferHolds
<1>4. ASSUME NEW x \in Rolls, rs[x] # NoRoll PROVE rs[x] \in Views /\ RollHolds(m, q, rs[x])
  <2> PICK v : v = rs[x]
      BY Zenon
  <2>1. v \in Views /\ RollHolds(m, r, v)
      BY Zenon, <1>4 DEF Consistent
  <2>2. v.off \in Nat /\ v.len \in Nat
      BY Zenon, <2>1 DEF Views
  <2>3. ASSUME NEW a \in Nat, NEW b \in Nat, NEW c \in Nat, NEW d \in Nat, a + b <= c + d
        PROVE  a + b <= c + (d + n)
      BY <2>3
  <2>4. v.store = q.store => v.off + v.len <= q.off + q.len
      BY Zenon, <1>1, <1>2, <2>1, <2>2, <2>3 DEF RollHolds
  <2> QED BY Zenon, <2>1, <2>4 DEF RollHolds
<1> QED BY Zenon, <1>1, <1>2, <1>3, <1>4 DEF Consistent, q

\* Bytes at the front of the filled part are consumed.
LEMMA Skips ==
    ASSUME NEW m, NEW r, NEW rs, NEW t, Consistent(m, r, rs, t), NEW n \in Nat, n <= r.len
    PROVE  Consistent(m, [r EXCEPT !.off = @ + n, !.len = @ - n], rs, t + n)
<1> DEFINE q == [r EXCEPT !.off = @ + n, !.len = @ - n]
<1>1. /\ r.store \in Stores /\ r.off \in Nat /\ r.len \in Nat /\ t \in Nat /\ m \in [Stores -> Seq(Nat)]
      /\ q \in Buffers /\ q.store = r.store /\ q.off = r.off + n /\ q.len = r.len - n
  <2>1. /\ r.store \in Stores /\ r.off \in Nat /\ r.len \in Nat /\ t \in Nat
        /\ m \in [Stores -> Seq(Nat)] /\ r \in Buffers
      BY Zenon DEF Consistent, Buffers
  <2>2. r.off + n \in Nat /\ r.len - n \in Nat
      BY <2>1
  <2>3. q \in Buffers /\ q.store = r.store /\ q.off = r.off + n /\ q.len = r.len - n
      BY Zenon, <2>1, <2>2 DEF Buffers
  <2> QED BY Zenon, <2>1, <2>3
<1> HIDE DEF q
<1>2. ASSUME NEW i \in 1 .. q.len PROVE m[q.store][q.off + i] = (t + n) + 1 + i - 1
  <2>1. n + i \in 1 .. r.len /\ q.off + i = r.off + (n + i) /\ (t + n) + 1 + i - 1 = t + 1 + (n + i) - 1
      BY <1>1, <1>2
  <2>2. m[r.store][r.off + (n + i)] = t + 1 + (n + i) - 1
      BY Zenon, <2>1 DEF Consistent, BufferHolds, Holds
  <2> QED BY Zenon, <1>1, <2>1, <2>2
<1>3. BufferHolds(m, q, t + n)
    BY <1>1, <1>2 DEF Consistent, BufferHolds, Holds
<1>4. ASSUME NEW x \in Rolls, rs[x] # NoRoll PROVE rs[x] \in Views /\ RollHolds(m, q, rs[x])
    BY <1>1, <1>4 DEF Consistent, RollHolds, Views
<1> QED BY <1>1, <1>3, <1>4 DEF Consistent, q

\* A Roll is added, replaced or dropped.
LEMMA SetsRoll ==
    ASSUME NEW m, NEW r, NEW rs, NEW t, Consistent(m, r, rs, t), NEW x \in Rolls,
           NEW v, v = NoRoll \/ (v \in Views /\ RollHolds(m, r, v))
    PROVE  Consistent(m, r, [rs EXCEPT ![x] = v], t)
BY Zenon DEF Consistent

\* Part of the filled part, or of a Roll, is a Roll.
LEMMA PartHolds ==
    ASSUME NEW c \in Seq(Nat), NEW off \in Nat, NEW len \in Nat, NEW first \in Nat,
           Holds(c, off, len, first), NEW from \in Nat, NEW n \in Nat, from + n <= len
    PROVE  Holds(c, off + from, n, first + from)
<1>1. ASSUME NEW i \in 1 .. n PROVE c[off + from + i] = first + from + i - 1
  <2>1. from + i \in 1 .. len
      OBVIOUS
  <2>2. c[off + (from + i)] = first + (from + i) - 1
      BY Zenon, <2>1 DEF Holds
  <2> QED BY <2>2
<1>2. off + from + n <= Len(c)
    BY StorageProperties DEF Holds
<1> QED BY Zenon, <1>1, <1>2 DEF Holds

\* Storage that is given back was not in use.
LEMMA Collects ==
    ASSUME NEW m, NEW r, NEW rs, NEW t, Consistent(m, r, rs, t)
    PROVE  /\ Consistent(Collected(m, r, rs), r, rs, t)
           /\ NoGarbage(Collected(m, r, rs), r, rs)
           /\ Collected(m, r, rs)[r.store] = m[r.store]
<1> DEFINE w == Collected(m, r, rs)
<1>1. r.store \in Stores /\ m \in [Stores -> Seq(Nat)] /\ w \in [Stores -> Seq(Nat)]
    BY Zenon, EmptySeq DEF Consistent, Buffers, Collected
<1>2. w[r.store] = m[r.store]
    BY Zenon, <1>1 DEF Collected
<1>3. ASSUME NEW x \in Rolls, rs[x] # NoRoll PROVE rs[x].store \in Stores /\ w[rs[x].store] = m[rs[x].store]
    BY Zenon, <1>1, <1>3 DEF Consistent, Views, Collected
<1>4. NoGarbage(w, r, rs)
    BY Zenon DEF NoGarbage, Collected
<1> HIDE DEF w
<1>5. Consistent(w, r, rs, t)
    BY Zenon, <1>1, <1>2, <1>3 DEF Consistent, BufferHolds, RollHolds
<1> QED BY Zenon, <1>2, <1>4, <1>5 DEF w

\* What the buffer r can still take is what its storage has behind the filled part.
LEMMA CapProperties ==
    ASSUME NEW m, NEW r, NEW rs, NEW t, Consistent(m, r, rs, t)
    PROVE  /\ r.store \in Stores /\ r.off \in Nat /\ r.len \in Nat /\ t \in Nat
           /\ r \in Buffers /\ m \in [Stores -> Seq(Nat)] /\ m[r.store] \in Seq(Nat)
           /\ Len(m[r.store]) \in Nat /\ Len(m[r.store]) >= BufSize
           /\ CapOf(m, r) = Len(m[r.store]) - r.off - r.len /\ CapOf(m, r) \in Nat
<1>1. /\ r.store \in Stores /\ r.off \in Nat /\ r.len \in Nat /\ t \in Nat
      /\ r \in Buffers /\ m \in [Stores -> Seq(Nat)] /\ m[r.store] \in Seq(Nat)
      /\ Len(m[r.store]) >= BufSize /\ r.off + r.len <= Len(m[r.store])
    BY Zenon DEF Consistent, Buffers, BufferHolds, Holds
<1>2. Len(m[r.store]) \in Nat
    BY Zenon, <1>1, StorageProperties
<1>3. Len(m[r.store]) - r.off - r.len \in Nat
    BY <1>1, <1>2
<1> QED BY Zenon, <1>1, <1>2, <1>3 DEF CapOf, StorageSize

\* Every storage is as long as before.
SameSizes(w, m) == \A s \in Stores : Len(w[s]) = Len(m[s])

\* The next n bytes of the stream are put behind the filled part.
LEMMA Puts ==
    ASSUME NEW m, NEW r, NEW rs, NEW t, Consistent(m, r, rs, t), NEW n \in Nat, n <= CapOf(m, r)
    PROVE  /\ Consistent(Written(m, r.store, r.off + r.len, Numbers(t + r.len + 1, n)),
                         [r EXCEPT !.len = @ + n], rs, t)
           /\ SameSizes(Written(m, r.store, r.off + r.len, Numbers(t + r.len + 1, n)), m)
<1> DEFINE first == t + 1 + r.len
           bytes == Numbers(first, n)
           w == Written(m, r.store, r.off + r.len, bytes)
<1>1. /\ r.off \in Nat /\ r.len \in Nat /\ first \in Nat /\ first = t + r.len + 1
      /\ r.off + r.len + n <= Len(m[r.store])
    BY CapProperties
<1>2. bytes \in Seq(Nat) /\ Len(bytes) = n /\ \A i \in 1 .. n : bytes[i] = first + i - 1
    BY Zenon, <1>1, NumbersProperties
<1> HIDE DEF bytes
<1>3. Consistent(w, r, rs, t) /\ Overwrites(w, m, r.store, r.off + r.len, bytes)
    BY Zenon, <1>1, <1>2, WriteBehind
<1> HIDE DEF w, first
<1>4. /\ \A q \in Stores : Len(w[q]) = Len(m[q])
      /\ \A i \in 1 .. n : w[r.store][r.off + r.len + i] = bytes[i]
    BY Zenon, <1>2, <1>3 DEF Overwrites
<1>5. Holds(w[r.store], r.off + r.len, n, first)
  <2>1. r.off + r.len + n <= Len(w[r.store])
      BY Zenon, <1>1, <1>4, CapProperties
  <2> QED BY Zenon, <1>2, <1>4, <2>1 DEF Holds
<1>6. Consistent(w, [r EXCEPT !.len = @ + n], rs, t)
    BY Zenon, <1>3, <1>5, Extends DEF first
<1> QED BY Zenon, <1>1, <1>4, <1>6 DEF w, bytes, SameSizes

\* Writing allocates nothing.
LEMMA WritesNoGarbage ==
    ASSUME NEW m \in [Stores -> Seq(Nat)], NEW w \in [Stores -> Seq(Nat)], NEW r, NEW rs,
           NoGarbage(m, r, rs), SameSizes(w, m)
    PROVE  NoGarbage(w, r, rs)
<1>1. ASSUME NEW s \in Stores, w[s] # <<>> PROVE m[s] # <<>>
  <2>1. w[s] \in Seq(Nat) /\ m[s] \in Seq(Nat)
      BY Zenon
  <2> QED BY Zenon, <1>1, <2>1, EmptySeq DEF SameSizes
<1> QED BY Zenon, <1>1 DEF NoGarbage

\* A Roll is never mistaken for none.
LEMMA ViewsAreRolls == \A v \in Views : v # NoRoll
BY RollAssumption DEF Views, NoRoll
-----------------------------------------------------------------------------
(* Moving between storages.                                                *)

\* There is always storage to move to: one for every Roll, one for the buffer
\* and one more.
LEMMA FreshIsFree ==
    ASSUME NoGarbage(mem, rm, rolls)
    PROVE  Fresh \in Stores /\ mem[Fresh] = <<>>
<1>1. ASSUME \A s \in Stores : mem[s] # <<>> PROVE FALSE
  <2> DEFINE f == [x \in Rolls |-> rolls[x].store]
             T == {f[x] : x \in Rolls}
  <2>1. f \in Surjection(Rolls, T)
      BY Zenon DEF Surjection
  <2>2. IsFiniteSet(T) /\ Cardinality(T) <= Cardinality(Rolls)
      BY Zenon, <2>1, FS_Surjection, RollAssumption
  <2>3. Stores \subseteq T \cup {rm.store}
      BY Zenon, <1>1 DEF NoGarbage
  <2> HIDE DEF T, f
  <2>4. /\ IsFiniteSet(T \cup {rm.store})
        /\ Cardinality(T) \in Nat /\ Cardinality(Rolls) \in Nat
        /\ Cardinality(T \cup {rm.store}) <= Cardinality(T) + 1
    <3>1. /\ IsFiniteSet(T \cup {rm.store})
          /\ Cardinality(T \cup {rm.store}) =
                 IF rm.store \in T THEN Cardinality(T) ELSE Cardinality(T) + 1
        BY Zenon, <2>2, FS_AddElement
    <3>2. Cardinality(T) \in Nat /\ Cardinality(Rolls) \in Nat
        BY Zenon, <2>2, FS_CardinalityType, RollAssumption
    <3> QED BY <3>1, <3>2
  <2>5. Cardinality(Stores) <= Cardinality(T \cup {rm.store})
      BY Zenon, <2>3, <2>4, FS_Subset
  <2>6. Cardinality(Stores) \in Nat /\ Cardinality(T \cup {rm.store}) \in Nat
      BY Zenon, <2>4, FS_CardinalityType, RollAssumption
  <2> QED BY <2>2, <2>4, <2>5, <2>6, RollAssumption
<1> QED BY Zenon, <1>1 DEF Fresh

\* A storage of this size that starts with len bytes numbered from first.
IsCopy(c, size, len, first) == c \in Seq(Nat) /\ Len(c) = size /\ Holds(c, 0, len, first)

\* The part of a storage that is copied to the start of another is there.
LEMMA CopyHolds ==
    ASSUME NEW c \in Seq(Nat), NEW off \in Nat, NEW len \in Nat, NEW first \in Nat,
           Holds(c, off, len, first), NEW size \in Nat, size >= len
    PROVE  IsCopy(SubSeq(c, off + 1, off + len) \o Blank(size - len), size, len, first)
<1> DEFINE part == Numbers(first, len)
           rest == Blank(size - len)
           bytes == part \o rest
<1>1. SubSeq(c, off + 1, off + len) = part
  <2>1. Part(c, off, len) = Numbers(first, len)
      BY Zenon, ReadIsHolds
  <2> QED BY Zenon, <2>1 DEF Part
<1>2. part \in Seq(Nat) /\ Len(part) = len /\ \A i \in 1 .. len : part[i] = first + i - 1
    BY Zenon, NumbersProperties
<1>3. rest \in Seq(Nat) /\ Len(rest) = size - len
    BY BlankProperties
<1> HIDE DEF part, rest
<1>4. /\ bytes \in Seq(Nat) /\ Len(bytes) = Len(part) + Len(rest)
      /\ \A i \in 1 .. Len(part) + Len(rest) :
             bytes[i] = IF i <= Len(part) THEN part[i] ELSE rest[i - Len(part)]
    BY Zenon, <1>2, <1>3, ConcatProperties
<1> HIDE DEF bytes
<1>5. Len(bytes) = size
    BY <1>2, <1>3, <1>4
<1>6. ASSUME NEW i \in 1 .. len PROVE bytes[0 + i] = first + i - 1
  <2>1. i \in 1 .. Len(part) + Len(rest) /\ i <= Len(part) /\ 0 + i = i
      BY <1>2, <1>3
  <2> QED BY Zenon, <1>2, <1>4, <2>1
<1>7. Holds(bytes, 0, len, first)
    BY <1>5, <1>6 DEF Holds
<1>8. IsCopy(bytes, size, len, first)
    BY Zenon, <1>4, <1>5, <1>7 DEF IsCopy
<1> QED BY Zenon, <1>1, <1>8 DEF bytes, rest

\* h is the buffer, its filled part at the start of a storage of this size.
Relocated(h, size) ==
    /\ Consistent(h.mem, h.rm, rolls, taken)
    /\ h.rm.off = 0 /\ h.rm.len = rm.len
    /\ Len(h.mem[h.rm.store]) = size

\* A move takes the filled part along and leaves the Rolls where they are.
LEMMA Moves ==
    ASSUME Consistent(mem, rm, rolls, taken), NoGarbage(mem, rm, rolls),
           NEW size \in Nat, size >= BufSize, size >= rm.len
    PROVE  Relocated(Moved(size), size)
<1> DEFINE bytes == SubSeq(mem[rm.store], rm.off + 1, rm.off + rm.len) \o Blank(size - rm.len)
           w == [mem EXCEPT ![Fresh] = bytes]
           q == [store |-> Fresh, off |-> 0, len |-> rm.len]
<1>1. Fresh \in Stores /\ mem[Fresh] = <<>>
    BY Zenon, FreshIsFree
<1>2. /\ rm.store \in Stores /\ rm.off \in Nat /\ rm.len \in Nat /\ taken + 1 \in Nat
      /\ mem \in [Stores -> Seq(Nat)] /\ mem[rm.store] \in Seq(Nat)
      /\ Holds(mem[rm.store], rm.off, rm.len, taken + 1)
  <2>1. Holds(mem[rm.store], rm.off, rm.len, taken + 1)
      BY Zenon DEF Consistent, BufferHolds
  <2> QED BY <2>1, CapProperties
<1>3. bytes \in Seq(Nat) /\ Len(bytes) = size /\ Holds(bytes, 0, rm.len, taken + 1)
  <2>1. IsCopy(bytes, size, rm.len, taken + 1)
      BY Zenon, <1>2, CopyHolds
  <2> HIDE DEF bytes
  <2> QED BY Zenon, <2>1 DEF IsCopy
<1> HIDE DEF bytes
<1>4. /\ w \in [Stores -> Seq(Nat)] /\ w[Fresh] = bytes
      /\ \A x \in Stores : mem[x] # <<>> => w[x] = mem[x] /\ x # Fresh
    BY Zenon, <1>1, <1>2, <1>3
<1>5. Moved(size) = [mem |-> w, rm |-> q]
    BY Zenon DEF Moved, Read, bytes
<1> HIDE DEF w
<1>6. q \in Buffers /\ q.store = Fresh /\ q.off = 0 /\ q.len = rm.len
    BY Zenon, <1>1, <1>2 DEF Buffers
<1> HIDE DEF q
<1>7. BufferHolds(w, q, taken)
    BY Zenon, <1>3, <1>4, <1>6 DEF BufferHolds
<1>8. ASSUME NEW x \in Rolls, rolls[x] # NoRoll PROVE rolls[x] \in Views /\ RollHolds(w, q, rolls[x])
  <2>1. rolls[x] \in Views /\ RollHolds(mem, rm, rolls[x]) /\ rolls[x].store \in Stores
      BY Zenon, <1>8 DEF Consistent, Views
  <2>2. mem[rolls[x].store] # <<>>
    <3>1. Len(mem[rolls[x].store]) >= BufSize
        BY Zenon, <2>1 DEF RollHolds
    <3>2. Len(<<>>) = 0
        BY Zenon
    <3> QED BY <3>1, <3>2, RollAssumption
  <2>3. w[rolls[x].store] = mem[rolls[x].store] /\ rolls[x].store # Fresh
      BY Zenon, <1>4, <2>1, <2>2
  <2> QED BY Zenon, <1>6, <2>1, <2>3 DEF RollHolds
<1>9. Consistent(w, q, rolls, taken)
    BY Zenon, <1>4, <1>6, <1>7, <1>8 DEF Consistent
<1> QED BY <1>3, <1>4, <1>5, <1>6, <1>9 DEF Relocated

\* compact and grow take storage that the filled part fits in.
LEMMA CompactsAndGrows ==
    ASSUME IInv
    PROVE  /\ Relocated(compact, IF IsBox /\ rm.len > BufSize THEN StorageSize(mem, rm) ELSE BufSize)
           /\ Relocated(grow, 2 * StorageSize(mem, rm))
<1> DEFINE size == StorageSize(mem, rm)
           fit == IF IsBox /\ rm.len > BufSize THEN size ELSE BufSize
<1>1. /\ rm.off \in Nat /\ rm.len \in Nat /\ size \in Nat /\ size >= BufSize
      /\ rm.off + rm.len <= size
      /\ Consistent(mem, rm, rolls, taken) /\ NoGarbage(mem, rm, rolls)
  <2>1. Consistent(mem, rm, rolls, taken) /\ NoGarbage(mem, rm, rolls)
      BY Zenon DEF IInv
  <2>2. /\ rm.off \in Nat /\ rm.len \in Nat /\ size \in Nat /\ size >= BufSize
        /\ size - rm.off - rm.len \in Nat
      BY Zenon, <2>1, CapProperties DEF StorageSize
  <2> QED BY <2>1, <2>2
<1>2. fit \in Nat /\ fit >= BufSize /\ fit >= rm.len
    BY <1>1, RollAssumption DEF IsBox
<1>3. 2 * size \in Nat /\ 2 * size >= BufSize /\ 2 * size >= rm.len
    BY <1>1, RollAssumption
<1>4. compact = Moved(fit) /\ grow = Moved(2 * size)
    BY Zenon DEF compact, grow
<1> HIDE DEF fit, size
<1>5. Relocated(Moved(fit), fit) /\ Relocated(Moved(2 * size), 2 * size)
    BY Zenon, <1>1, <1>2, <1>3, Moves
<1> QED BY Zenon, <1>4, <1>5 DEF fit, size

\* Whatever reserve_at_least does to the buffer keeps its bytes, and makes the
\* room while the filled part fits in a pool buffer.
LEMMA Reserves ==
    ASSUME IInv, NEW n \in Nat
    PROVE  /\ Consistent(Reserved(n).mem, Reserved(n).rm, rolls, taken)
           /\ Reserved(n).rm.len = rm.len
           /\ rm.len <= BufSize => n <= CapOf(Reserved(n).mem, Reserved(n).rm)
<1>1. /\ Consistent(mem, rm, rolls, taken) /\ NoGarbage(mem, rm, rolls)
    BY Zenon DEF IInv
<1>2. /\ rm.off \in Nat /\ rm.len \in Nat /\ Len(mem[rm.store]) \in Nat
      /\ Len(mem[rm.store]) >= BufSize /\ rm.off + rm.len <= Len(mem[rm.store])
      /\ Cap = CapOf(mem, rm)
  <2>1. /\ rm.off \in Nat /\ rm.len \in Nat /\ Len(mem[rm.store]) \in Nat
        /\ Len(mem[rm.store]) >= BufSize /\ Len(mem[rm.store]) - rm.off - rm.len \in Nat
      BY Zenon, <1>1, CapProperties
  <2> QED BY <2>1 DEF Cap
<1>3. ASSUME NEW h, NEW size \in Nat, Relocated(h, size), n + rm.len <= size \/ rm.len > BufSize
      PROVE  /\ Consistent(h.mem, h.rm, rolls, taken) /\ h.rm.len = rm.len
             /\ rm.len <= BufSize => n <= CapOf(h.mem, h.rm)
  <2>1. /\ Consistent(h.mem, h.rm, rolls, taken) /\ h.rm.len = rm.len /\ h.rm.off = 0
        /\ CapOf(h.mem, h.rm) = size - h.rm.off - h.rm.len
      BY Zenon, <1>3 DEF Relocated, CapOf, StorageSize
  <2>2. CapOf(h.mem, h.rm) = size - rm.len
      BY <1>2, <1>3, <2>1
  <2>3. rm.len <= BufSize => n <= size - rm.len
      BY <1>2, <1>3, RollAssumption
  <2> QED BY Zenon, <2>1, <2>2, <2>3
<1>4. CASE n <= Cap
    BY Zenon, <1>1, <1>2, <1>4 DEF Reserved, Same
<1>5. CASE ~(n <= Cap) /\ rm.off > 0 /\ FitsOnceCompacted(n)
  <2> DEFINE fit == IF IsBox /\ rm.len > BufSize THEN StorageSize(mem, rm) ELSE BufSize
  <2>1. fit \in Nat /\ (n + rm.len <= fit \/ rm.len > BufSize)
      BY <1>2, <1>5, RollAssumption DEF FitsOnceCompacted, StorageSize
  <2>2. Relocated(compact, fit)
      BY Zenon, CompactsAndGrows
  <2>3. Reserved(n) = compact
      BY Zenon, <1>5 DEF Reserved
  <2> HIDE DEF fit
  <2> QED BY Zenon, <1>3, <2>1, <2>2, <2>3
<1>6. CASE ~(n <= Cap) /\ ~(rm.off > 0 /\ FitsOnceCompacted(n))
  <2> DEFINE size == larger(2 * StorageSize(mem, rm), n + rm.len)
  <2>1. size \in Nat /\ size >= BufSize /\ size >= rm.len /\ n + rm.len <= size
    <3> PICK a : a = StorageSize(mem, rm)
        BY Zenon
    <3> PICK b : b = rm.len
        BY Zenon
    <3>1. a \in Nat /\ b \in Nat /\ BufSize \in Nat /\ a >= BufSize /\ a >= b
        BY <1>2, RollAssumption DEF StorageSize
    <3>2. size = (IF 2 * a > n + b THEN 2 * a ELSE n + b)
        BY Zenon DEF larger
    <3> HIDE DEF size
    <3> QED BY <3>1, <3>2
  <2>2. Reserved(n) = Moved(size)
      BY Zenon, <1>6 DEF Reserved
  <2> HIDE DEF size
  <2>3. Relocated(Moved(size), size)
      BY Zenon, <1>1, <2>1, Moves
  <2> QED BY Zenon, <1>3, <2>1, <2>2, <2>3
<1> QED BY Zenon, <1>4, <1>5, <1>6
-----------------------------------------------------------------------------
(* One lemma for each action.                                              *)

\* RollMut::alloc starts with an empty pool buffer.
LEMMA InitHolds == Init => IInv
<1> SUFFICES ASSUME Init PROVE IInv
    BY Zenon
<1>1. /\ rm = [store |-> 1, off |-> 0, len |-> 0] /\ rolls = [r \in Rolls |-> NoRoll]
      /\ mem = [s \in Stores |-> IF s = 1 THEN Blank(BufSize) ELSE <<>>]
      /\ reading = 0 /\ taken = 0 /\ total = 0 /\ BufSize \in Nat /\ 1 \in Stores
    BY Zenon, RollAssumption DEF Init
<1>2. Blank(BufSize) \in Seq(Nat) /\ Len(Blank(BufSize)) = BufSize
    BY Zenon, <1>1, BlankProperties
<1>3. mem \in [Stores -> Seq(Nat)] /\ mem[1] = Blank(BufSize) /\ \A s \in Stores : s # 1 => mem[s] = <<>>
    BY Zenon, <1>1, <1>2, EmptySeq
<1>4. rm.store = 1 /\ rm.off = 0 /\ rm.len = 0 /\ rm \in Buffers
    BY Zenon, <1>1 DEF Buffers
<1>5. BufferHolds(mem, rm, taken)
    BY <1>1, <1>2, <1>3, <1>4 DEF BufferHolds, Holds
<1>6. Consistent(mem, rm, rolls, taken)
    BY Zenon, <1>1, <1>3, <1>4, <1>5 DEF Consistent
<1>7. NoGarbage(mem, rm, rolls)
    BY Zenon, <1>3, <1>4 DEF NoGarbage
<1>8. Cap \in Nat
    BY Zenon, <1>6, CapProperties DEF Cap
<1> QED BY <1>1, <1>4, <1>6, <1>7, <1>8 DEF IInv

\* Between reads the invariant is about the buffer and its Rolls.
LEMMA IdleHolds ==
    ASSUME Consistent(mem', rm', rolls', taken'), NoGarbage(mem', rm', rolls'),
           total' = taken' + rm'.len, reading' = 0
    PROVE  IInv'
<1>1. CapOf(mem', rm') \in Nat
    BY Zenon, CapProperties
<1> QED BY <1>1 DEF IInv, Cap

\* reserve moves the buffer or leaves it.
LEMMA ReserveHolds == ASSUME IInv, reserve PROVE IInv'
<1>1. PICK h : /\ h = compact \/ h = grow
               /\ rm' = h.rm /\ mem' = Collected(h.mem, h.rm, rolls) /\ rolls' = rolls
               /\ reading' = 0 /\ taken' = taken /\ total' = total
    BY Zenon DEF reserve, Idle
<1>2. Consistent(h.mem, h.rm, rolls, taken) /\ h.rm.len = rm.len
    BY Zenon, <1>1, CompactsAndGrows DEF Relocated
<1>3. Consistent(mem', rm', rolls', taken') /\ NoGarbage(mem', rm', rolls')
    BY Zenon, <1>1, <1>2, Collects
<1>4. total' = taken' + rm'.len
    BY Zenon, <1>1, <1>2 DEF IInv
<1> QED BY Zenon, <1>1, <1>3, <1>4, IdleHolds

\* reserve_at_least moves the buffer or leaves it.
LEMMA ReserveAtLeastHolds == ASSUME IInv, NEW n \in Nat, reserve_at_least(n) PROVE IInv'
<1>1. PICK h : /\ h = Reserved(n)
               /\ rm' = h.rm /\ mem' = Collected(h.mem, h.rm, rolls) /\ rolls' = rolls
               /\ reading' = 0 /\ taken' = taken /\ total' = total
    BY Zenon DEF reserve_at_least, Idle
<1>2. Consistent(h.mem, h.rm, rolls, taken) /\ h.rm.len = rm.len
    BY Zenon, <1>1, Reserves
<1>3. Consistent(mem', rm', rolls', taken') /\ NoGarbage(mem', rm', rolls')
    BY Zenon, <1>1, <1>2, Collects
<1>4. total' = taken' + rm'.len
    BY Zenon, <1>1, <1>2 DEF IInv
<1> QED BY Zenon, <1>1, <1>3, <1>4, IdleHolds

\* put and the completion of a read write the same bytes at the same place.
LEMMA AppendHolds ==
    ASSUME IInv, NEW n \in Nat, n <= Cap, reading' = 0, total' = total + n,
           mem' = Written(mem, rm.store, rm.off + rm.len, Upcoming(n)),
           rm' = [rm EXCEPT !.len = @ + n], rolls' = rolls, taken' = taken
    PROVE  IInv'
<1>1. /\ Consistent(mem, rm, rolls, taken) /\ NoGarbage(mem, rm, rolls)
      /\ total = taken + rm.len /\ Cap = CapOf(mem, rm)
    BY Zenon DEF IInv, Cap
<1>2. rm.len \in Nat /\ taken \in Nat /\ rm \in Buffers /\ mem \in [Stores -> Seq(Nat)]
    BY Zenon, <1>1, CapProperties
<1>3. Upcoming(n) = Numbers(taken + rm.len + 1, n)
    BY Zenon, <1>1 DEF Upcoming
<1>4. Consistent(mem', rm', rolls', taken') /\ SameSizes(mem', mem)
    BY Zenon, <1>1, <1>3, Puts
<1>5. rm'.store = rm.store /\ rm'.len = rm.len + n
    BY Zenon, <1>2 DEF Buffers
<1>6. NoGarbage(mem', rm', rolls')
  <2>1. mem' \in [Stores -> Seq(Nat)]
      BY Zenon, <1>4, CapProperties
  <2>2. NoGarbage(mem', rm, rolls)
      BY Zenon, <1>1, <1>2, <1>4, <2>1, WritesNoGarbage
  <2> QED BY Zenon, <1>5, <2>2 DEF NoGarbage
<1>7. total' = taken' + rm'.len
    BY <1>1, <1>2, <1>5
<1> QED BY Zenon, <1>4, <1>6, <1>7, IdleHolds

\* put appends.
LEMMA PutHolds == ASSUME IInv, NEW n \in Nat, put(n) PROVE IInv'
BY Zenon, AppendHolds DEF put, Idle

\* A read that completes appends what fits by the room it started with.
LEMMA ReadCompletesHolds == ASSUME IInv, NEW n \in Nat, ReadCompletes(n) PROVE IInv'
<1>1. n <= Cap
  <2>1. n <= reading /\ reading <= Cap /\ reading \in Nat /\ Cap = CapOf(mem, rm)
        /\ Consistent(mem, rm, rolls, taken)
      BY Zenon DEF ReadCompletes, IInv, Cap
  <2>2. Cap \in Nat
      BY Zenon, <2>1, CapProperties
  <2> QED BY <2>1, <2>2
<1> QED BY Zenon, <1>1, AppendHolds DEF ReadCompletes

\* A closure that fails has written behind the filled part only.
LEMMA PutWithFailsHolds == ASSUME IInv, NEW n \in Nat, put_with_fails(n) PROVE IInv'
<1>1. /\ mem' = Written(mem, rm.store, rm.off + rm.len, Blank(n)) /\ n <= CapOf(mem, rm)
      /\ rm' = rm /\ rolls' = rolls /\ reading' = 0 /\ taken' = taken /\ total' = total
      /\ Consistent(mem, rm, rolls, taken) /\ NoGarbage(mem, rm, rolls) /\ total = taken + rm.len
    BY Zenon DEF put_with_fails, Idle, IInv, Cap
<1>2. /\ rm.off \in Nat /\ rm.len \in Nat /\ mem \in [Stores -> Seq(Nat)]
      /\ rm.off + rm.len + n <= Len(mem[rm.store])
  <2>1. /\ rm.off \in Nat /\ rm.len \in Nat /\ mem \in [Stores -> Seq(Nat)]
        /\ Len(mem[rm.store]) \in Nat /\ n <= Len(mem[rm.store]) - rm.off - rm.len
      BY Zenon, <1>1, CapProperties
  <2> QED BY <2>1
<1>3. Consistent(mem', rm', rolls', taken') /\ Overwrites(mem', mem, rm.store, rm.off + rm.len, Blank(n))
    BY Zenon, <1>1, <1>2, BlankProperties, WriteBehind
<1>4. mem' \in [Stores -> Seq(Nat)] /\ SameSizes(mem', mem)
    BY Zenon, <1>2, <1>3 DEF Overwrites, SameSizes
<1>5. NoGarbage(mem', rm', rolls')
    BY Zenon, <1>1, <1>2, <1>4, WritesNoGarbage
<1> QED BY Zenon, <1>1, <1>3, <1>5, IdleHolds

\* write appends to what reserve_at_least made, or leaves it when the bytes do not fit.
LEMMA WriteHolds == ASSUME IInv, NEW n \in Nat, write(n) PROVE IInv'
<1>1. PICK h : /\ h = Reserved(n) /\ rolls' = rolls /\ reading' = 0 /\ taken' = taken
               /\ \/ /\ n <= CapOf(h.mem, h.rm)
                     /\ rm' = [h.rm EXCEPT !.len = @ + n] /\ total' = total + n
                     /\ mem' = Collected(Written(h.mem, h.rm.store, h.rm.off + h.rm.len, Upcoming(n)), h.rm, rolls)
                  \/ /\ rm' = [h.rm EXCEPT !.len = @] /\ total' = total
                     /\ mem' = Collected(h.mem, h.rm, rolls)
    BY Zenon DEF write, Idle
<1>2. Consistent(h.mem, h.rm, rolls, taken) /\ h.rm.len = rm.len /\ total = taken + rm.len
    BY Zenon, <1>1, Reserves DEF IInv
<1>3. h.rm \in Buffers /\ h.rm.len \in Nat /\ taken \in Nat
    BY Zenon, <1>2, CapProperties
<1>4. CASE /\ n <= CapOf(h.mem, h.rm)
           /\ rm' = [h.rm EXCEPT !.len = @ + n] /\ total' = total + n
           /\ mem' = Collected(Written(h.mem, h.rm.store, h.rm.off + h.rm.len, Upcoming(n)), h.rm, rolls)
  <2> PICK w : w = Written(h.mem, h.rm.store, h.rm.off + h.rm.len, Upcoming(n))
      BY Zenon
  <2>1. Consistent(w, rm', rolls, taken)
    <3>1. Upcoming(n) = Numbers(taken + h.rm.len + 1, n)
        BY Zenon, <1>2 DEF Upcoming
    <3> QED BY Zenon, <1>2, <1>4, <3>1, Puts
  <2>2. rm'.store = h.rm.store /\ rm'.len = h.rm.len + n
      BY Zenon, <1>3, <1>4 DEF Buffers
  <2>3. mem' = Collected(w, rm', rolls)
      BY Zenon, <1>4, <2>2 DEF Collected
  <2>4. Consistent(mem', rm', rolls', taken') /\ NoGarbage(mem', rm', rolls')
      BY Zenon, <1>1, <2>1, <2>3, Collects
  <2>5. total' = taken' + rm'.len
      BY <1>1, <1>2, <1>3, <1>4, <2>2
  <2> QED BY Zenon, <1>1, <2>4, <2>5, IdleHolds
<1>5. CASE /\ rm' = [h.rm EXCEPT !.len = @] /\ total' = total
           /\ mem' = Collected(h.mem, h.rm, rolls)
  <2>1. rm' = h.rm
      BY Zenon, <1>3, <1>5 DEF Buffers
  <2>2. Consistent(mem', rm', rolls', taken') /\ NoGarbage(mem', rm', rolls')
      BY <1>1, <1>2, <1>5, <2>1, Collects
  <2> QED BY Zenon, <1>1, <1>2, <1>5, <2>1, <2>2, IdleHolds
<1> QED BY Zenon, <1>1, <1>4, <1>5

\* skip consumes from the front.
LEMMA SkipHolds == ASSUME IInv, NEW n \in Nat, skip(n) PROVE IInv'
<1>1. /\ n <= rm.len /\ rm' = [rm EXCEPT !.off = @ + n, !.len = @ - n] /\ taken' = taken + n
      /\ mem' = mem /\ rolls' = rolls /\ reading' = 0 /\ total' = total
      /\ Consistent(mem, rm, rolls, taken) /\ NoGarbage(mem, rm, rolls) /\ total = taken + rm.len
    BY Zenon DEF skip, Idle, IInv
<1>2. rm \in Buffers /\ rm.len \in Nat /\ taken \in Nat
    BY Zenon, <1>1, CapProperties
<1>3. Consistent(mem', rm', rolls', taken')
    BY Zenon, <1>1, Skips
<1>4. rm'.store = rm.store /\ rm'.len = rm.len - n
    BY Zenon, <1>1, <1>2 DEF Buffers
<1>5. NoGarbage(mem', rm', rolls')
    BY Zenon, <1>1, <1>4 DEF NoGarbage
<1>6. total' = taken' + rm'.len
    BY <1>1, <1>2, <1>4
<1> QED BY Zenon, <1>1, <1>3, <1>5, <1>6, IdleHolds

\* The first k bytes of the filled part are a Roll.
LEMMA FrontIsRoll ==
    ASSUME NEW m, NEW r, NEW rs, NEW t, Consistent(m, r, rs, t), NEW k \in Nat, k <= r.len
    PROVE  /\ RollAt(r.store, r.off, k, t + 1) \in Views
           /\ RollHolds(m, r, RollAt(r.store, r.off, k, t + 1))
<1> DEFINE v == RollAt(r.store, r.off, k, t + 1)
<1>1. /\ r.store \in Stores /\ r.off \in Nat /\ r.len \in Nat /\ t + 1 \in Nat
      /\ m[r.store] \in Seq(Nat) /\ Len(m[r.store]) >= BufSize
    BY CapProperties
<1>2. v \in Views /\ v.store = r.store /\ v.off = r.off /\ v.len = k /\ v.first = t + 1
    BY Zenon, <1>1 DEF Views, RollAt
<1>3. Holds(m[r.store], r.off, k, t + 1)
  <2>1. Holds(m[r.store], r.off, r.len, t + 1)
      BY Zenon DEF Consistent, BufferHolds
  <2>2. Holds(m[r.store], r.off + 0, k, t + 1 + 0)
    <3>1. 0 + k <= r.len /\ 0 \in Nat
        BY <1>1
    <3> QED BY Zenon, <1>1, <2>1, <3>1, PartHolds
  <2>3. r.off + 0 = r.off /\ t + 1 + 0 = t + 1
      BY <1>1
  <2> QED BY Zenon, <2>2, <2>3
<1> HIDE DEF v
<1>4. v.off + v.len <= r.off + r.len
    BY <1>1, <1>2
<1>5. RollHolds(m, r, v)
    BY Zenon, <1>1, <1>2, <1>3, <1>4 DEF RollHolds
<1> QED BY Zenon, <1>2, <1>5 DEF v

\* filled hands out the filled part.
LEMMA FilledHolds == ASSUME IInv, NEW x \in Rolls, filled(x) PROVE IInv'
<1>1. PICK v : /\ v = RollAt(rm.store, rm.off, rm.len, taken + 1)
               /\ rolls[x] = NoRoll /\ rolls' = [rolls EXCEPT ![x] = v]
               /\ mem' = mem /\ rm' = rm /\ reading' = 0 /\ taken' = taken /\ total' = total
               /\ Consistent(mem, rm, rolls, taken) /\ NoGarbage(mem, rm, rolls) /\ total = taken + rm.len
    BY Zenon DEF filled, Idle, IInv
<1>2. v \in Views /\ RollHolds(mem, rm, v)
  <2>1. rm.len \in Nat /\ rm.len <= rm.len
      BY <1>1, CapProperties
  <2> QED BY Zenon, <1>1, <2>1, FrontIsRoll
<1>3. Consistent(mem', rm', rolls', taken')
    BY Zenon, <1>1, <1>2, SetsRoll
<1>4. \A y \in Rolls : rolls[y] # NoRoll => rolls'[y] = rolls[y]
    BY Zenon, <1>1 DEF Consistent
<1>5. NoGarbage(mem', rm', rolls')
  <2>1. NoGarbage(mem, rm, rolls')
      BY <1>1, <1>4 DEF NoGarbage
  <2> QED BY Zenon, <1>1, <2>1
<1> QED BY Zenon, <1>1, <1>3, <1>5, IdleHolds

\* take_at_most hands out the front and skips it.
LEMMA TakeAtMostHolds == ASSUME IInv, NEW n \in Nat, NEW x \in Rolls, take_at_most(n, x) PROVE IInv'
<1>1. /\ Consistent(mem, rm, rolls, taken) /\ NoGarbage(mem, rm, rolls) /\ total = taken + rm.len
    BY Zenon DEF IInv
<1>2. rm \in Buffers /\ rm.len \in Nat /\ taken \in Nat
    BY Zenon, <1>1, CapProperties
<1>3. PICK k \in Nat : k <= rm.len /\ k = smaller(n, rm.len)
    BY <1>2 DEF smaller
<1>4. PICK v : /\ v = RollAt(rm.store, rm.off, k, taken + 1)
               /\ rolls[x] = NoRoll /\ rolls' = [rolls EXCEPT ![x] = v]
               /\ rm' = [rm EXCEPT !.off = @ + k, !.len = @ - k]
               /\ mem' = mem /\ reading' = 0 /\ taken' = taken + k /\ total' = total
    BY Zenon, <1>3 DEF take_at_most, Idle
<1>5. v \in Views /\ RollHolds(mem, rm, v)
    BY Zenon, <1>1, <1>3, <1>4, FrontIsRoll
<1>6. Consistent(mem, rm, rolls', taken)
    BY Zenon, <1>1, <1>4, <1>5, SetsRoll
<1>7. Consistent(mem', rm', rolls', taken')
    BY Zenon, <1>3, <1>4, <1>6, Skips
<1>8. rm'.store = rm.store /\ rm'.len = rm.len - k
    BY Zenon, <1>2, <1>4 DEF Buffers
<1>9. \A y \in Rolls : rolls[y] # NoRoll => rolls'[y] = rolls[y]
    BY Zenon, <1>1, <1>4 DEF Consistent
<1>10. NoGarbage(mem', rm', rolls')
  <2>1. NoGarbage(mem, rm, rolls')
      BY <1>1, <1>9 DEF NoGarbage
  <2> QED BY Zenon, <1>4, <1>8, <2>1 DEF NoGarbage
<1>11. total' = taken' + rm'.len
    BY <1>1, <1>2, <1>3, <1>4, <1>8
<1> QED BY Zenon, <1>4, <1>7, <1>10, <1>11, IdleHolds

\* keep skips what is in front of a Roll.
LEMMA KeepHolds == ASSUME IInv, NEW x \in Rolls, keep(x) PROVE IInv'
<1>1. /\ Consistent(mem, rm, rolls, taken) /\ NoGarbage(mem, rm, rolls) /\ total = taken + rm.len
    BY Zenon DEF IInv
<1>2. rm \in Buffers /\ rm.off \in Nat /\ rm.len \in Nat /\ taken \in Nat
    BY Zenon, <1>1, CapProperties
<1>3. /\ rolls[x] # NoRoll /\ rolls[x].store = rm.store /\ rolls[x].off >= rm.off
      /\ rm' = [rm EXCEPT !.off = rolls[x].off, !.len = @ - (rolls[x].off - rm.off)]
      /\ taken' = taken + (rolls[x].off - rm.off)
      /\ rolls' = [rolls EXCEPT ![x] = NoRoll] /\ mem' = mem /\ reading' = 0 /\ total' = total
    BY Zenon DEF keep, Idle
<1>4. /\ rolls[x].off \in Nat /\ rolls[x].len \in Nat
      /\ rolls[x].off + rolls[x].len <= rm.off + rm.len
    BY Zenon, <1>1, <1>3 DEF Consistent, Views, RollHolds
<1>5. PICK k \in Nat : k = rolls[x].off - rm.off /\ k <= rm.len /\ rolls[x].off = rm.off + k
  <2>1. /\ rolls[x].off - rm.off \in Nat /\ rolls[x].off - rm.off <= rm.len
        /\ rolls[x].off = rm.off + (rolls[x].off - rm.off)
      BY <1>2, <1>3, <1>4
  <2> QED BY Zenon, <2>1
<1>6. rm' = [rm EXCEPT !.off = @ + k, !.len = @ - k] /\ taken' = taken + k
    BY Zenon, <1>3, <1>5
<1>7. Consistent(mem', rm', rolls', taken')
  <2>1. Consistent(mem, rm', rolls, taken')
      BY Zenon, <1>1, <1>5, <1>6, Skips
  <2> QED BY Zenon, <1>3, <2>1, SetsRoll
<1>8. rm'.store = rm.store /\ rm'.len = rm.len - k
    BY Zenon, <1>2, <1>6 DEF Buffers
<1>9. NoGarbage(mem', rm', rolls')
  <2>1. \A y \in Rolls : rolls[y] # NoRoll => rolls[y].store = rm.store \/ rolls'[y] = rolls[y]
      BY Zenon, <1>1, <1>3 DEF Consistent
  <2>2. NoGarbage(mem, rm, rolls')
      BY <1>1, <2>1 DEF NoGarbage
  <2> QED BY Zenon, <1>3, <1>8, <2>2 DEF NoGarbage
<1>10. total' = taken' + rm'.len
    BY <1>1, <1>2, <1>3, <1>5, <1>6, <1>8
<1> QED BY Zenon, <1>3, <1>7, <1>9, <1>10, IdleHolds

\* Part of a Roll is a Roll on the same storage.
LEMMA PartIsRoll ==
    ASSUME NEW m, NEW r, NEW rs, NEW t, Consistent(m, r, rs, t), NEW x \in Rolls, rs[x] # NoRoll,
           NEW from \in Nat, NEW n \in Nat, from + n <= rs[x].len
    PROVE  /\ RollAt(rs[x].store, rs[x].off + from, n, rs[x].first + from) \in Views
           /\ RollHolds(m, r, RollAt(rs[x].store, rs[x].off + from, n, rs[x].first + from))
<1> DEFINE v == RollAt(rs[x].store, rs[x].off + from, n, rs[x].first + from)
<1> PICK o : o = rs[x]
    BY Zenon
<1>1. /\ o.store \in Stores /\ o.off \in Nat /\ o.len \in Nat /\ o.first \in Nat
      /\ RollHolds(m, r, o) /\ m[o.store] \in Seq(Nat) /\ from + n <= o.len
    BY Zenon DEF Consistent, Views
<1>2. v \in Views /\ v.store = o.store /\ v.off = o.off + from /\ v.len = n /\ v.first = o.first + from
  <2>1. o.off + from \in Nat /\ o.first + from \in Nat
      BY <1>1
  <2> QED BY Zenon, <1>1, <2>1 DEF Views, RollAt
<1>3. Holds(m[o.store], o.off + from, n, o.first + from)
    BY Zenon, <1>1, PartHolds DEF RollHolds
<1> HIDE DEF v
<1>4. v.store = r.store => v.off + v.len <= r.off + r.len
  <2>1. o.store = r.store => o.off + o.len <= r.off + r.len
      BY Zenon, <1>1 DEF RollHolds
  <2>2. r.off \in Nat /\ r.len \in Nat
      BY Zenon, CapProperties
  <2>3. v.off + v.len = o.off + (from + n) /\ o.off + (from + n) <= o.off + o.len
      BY <1>1, <1>2
  <2>4. o.off + (from + n) \in Nat /\ o.off + o.len \in Nat /\ r.off + r.len \in Nat
    <3>1. from + n \in Nat /\ o.off \in Nat /\ o.len \in Nat
        BY <1>1
    <3>2. o.off + (from + n) \in Nat
        BY <3>1
    <3>3. o.off + o.len \in Nat
        BY <3>1
    <3>4. r.off + r.len \in Nat
        BY <2>2
    <3> QED BY Zenon, <3>2, <3>3, <3>4
  <2> PICK a \in Nat, b \in Nat, c \in Nat : a = o.off + (from + n) /\ b = o.off + o.len /\ c = r.off + r.len
      BY Zenon, <2>4
  <2>5. a <= b /\ (o.store = r.store => b <= c)
      BY Zenon, <2>1, <2>3
  <2> QED BY <1>2, <2>3, <2>5
<1>5. RollHolds(m, r, v)
    BY Zenon, <1>1, <1>2, <1>3, <1>4 DEF RollHolds
<1> QED BY Zenon, <1>2, <1>5 DEF v

\* What happens to a Roll while a read may be in flight.
LEMMA RollStepHolds ==
    ASSUME IInv, mem' = mem, rm' = rm, reading' = reading, taken' = taken, total' = total,
           Consistent(mem, rm, rolls', taken),
           \A y \in Rolls : rolls[y] # NoRoll => rolls'[y] # NoRoll /\ rolls'[y].store = rolls[y].store
    PROVE  IInv'
<1>1. NoGarbage(mem, rm, rolls')
    BY Zenon DEF IInv, NoGarbage
<1>2. Consistent(mem', rm', rolls', taken') /\ NoGarbage(mem', rm', rolls')
    BY Zenon, <1>1
<1>3. Cap' = Cap
    BY Zenon DEF Cap
<1> QED BY Zenon, <1>2, <1>3 DEF IInv

\* slice narrows a Roll.
LEMMA SliceHolds ==
    ASSUME IInv, NEW x \in Rolls, NEW from \in Nat, NEW to \in Nat, slice(x, from, to)
    PROVE  IInv'
<1>1. PICK v : /\ v = RollAt(rolls[x].store, rolls[x].off + from, to - from, rolls[x].first + from)
               /\ rolls[x] # NoRoll /\ from <= to /\ to <= rolls[x].len
               /\ rolls' = [rolls EXCEPT ![x] = v]
               /\ mem' = mem /\ rm' = rm /\ reading' = reading /\ taken' = taken /\ total' = total
    BY Zenon DEF slice
<1>2. Consistent(mem, rm, rolls, taken)
    BY Zenon DEF IInv
<1>3. v \in Views /\ RollHolds(mem, rm, v)
  <2>1. to - from \in Nat /\ from + (to - from) = to
      BY <1>1
  <2>2. from + (to - from) <= rolls[x].len
      BY Zenon, <1>1, <2>1
  <2> QED BY Zenon, <1>1, <1>2, <2>1, <2>2, PartIsRoll
<1>4. Consistent(mem, rm, rolls', taken)
    BY Zenon, <1>1, <1>2, <1>3, SetsRoll
<1>5. \A y \in Rolls : rolls[y] # NoRoll => rolls'[y] # NoRoll /\ rolls'[y].store = rolls[y].store
  <2>1. v # NoRoll /\ v.store = rolls[x].store
      BY Zenon, <1>1, <1>3, ViewsAreRolls DEF RollAt
  <2> QED BY Zenon, <1>1, <1>2, <2>1 DEF Consistent
<1> QED BY Zenon, <1>1, <1>4, <1>5, RollStepHolds

\* split_at makes two Rolls of one.
LEMMA SplitAtHolds ==
    ASSUME IInv, NEW x \in Rolls, NEW y \in Rolls, NEW at \in Nat, split_at(x, y, at)
    PROVE  IInv'
<1>1. PICK v, u :
          /\ v = RollAt(rolls[x].store, rolls[x].off, at, rolls[x].first)
          /\ u = RollAt(rolls[x].store, rolls[x].off + at, rolls[x].len - at, rolls[x].first + at)
          /\ rolls[x] # NoRoll /\ rolls[y] = NoRoll /\ at <= rolls[x].len
          /\ rolls' = [[rolls EXCEPT ![x] = v] EXCEPT ![y] = u]
          /\ mem' = mem /\ rm' = rm /\ reading' = reading /\ taken' = taken /\ total' = total
    BY Zenon DEF split_at
<1>2. Consistent(mem, rm, rolls, taken)
    BY Zenon DEF IInv
<1>3. rolls[x].off \in Nat /\ rolls[x].len \in Nat /\ rolls[x].first \in Nat
    BY Zenon, <1>1, <1>2 DEF Consistent, Views
<1>4. v \in Views /\ RollHolds(mem, rm, v)
  <2>1. 0 \in Nat /\ 0 + at <= rolls[x].len
      BY <1>1
  <2>2. v = RollAt(rolls[x].store, rolls[x].off + 0, at, rolls[x].first + 0)
      BY <1>1, <1>3
  <2> QED BY Zenon, <1>1, <1>2, <2>1, <2>2, PartIsRoll
<1>5. u \in Views /\ RollHolds(mem, rm, u)
  <2>1. rolls[x].len - at \in Nat /\ at + (rolls[x].len - at) <= rolls[x].len
      BY <1>1, <1>3
  <2> QED BY Zenon, <1>1, <1>2, <2>1, PartIsRoll
<1>6. Consistent(mem, rm, rolls', taken)
  <2> PICK mid : mid = [rolls EXCEPT ![x] = v]
      BY Zenon
  <2>1. Consistent(mem, rm, mid, taken)
      BY Zenon, <1>2, <1>4, SetsRoll
  <2>2. rolls' = [mid EXCEPT ![y] = u]
      BY Zenon, <1>1
  <2> QED BY Zenon, <1>5, <2>1, <2>2, SetsRoll
<1>7. \A z \in Rolls : rolls[z] # NoRoll => rolls'[z] # NoRoll /\ rolls'[z].store = rolls[z].store
  <2>1. v # NoRoll /\ v.store = rolls[x].store
      BY Zenon, <1>1, <1>4, ViewsAreRolls DEF RollAt
  <2> QED BY Zenon, <1>1, <1>2, <2>1 DEF Consistent
<1> QED BY Zenon, <1>1, <1>6, <1>7, RollStepHolds

\* A Roll that is dropped may take its storage with it, never the buffer's.
LEMMA DropHolds == ASSUME IInv, NEW x \in Rolls, drop(x) PROVE IInv'
<1>1. /\ rolls' = [rolls EXCEPT ![x] = NoRoll] /\ mem' = Collected(mem, rm, rolls')
      /\ rm' = rm /\ reading' = reading /\ taken' = taken /\ total' = total
    BY Zenon DEF drop
<1>2. /\ Consistent(mem, rm, rolls, taken) /\ total = taken + rm.len
      /\ reading \in Nat /\ reading <= Cap
    BY Zenon DEF IInv
<1>3. Consistent(mem, rm, rolls', taken)
    BY Zenon, <1>1, <1>2, SetsRoll
<1>4. Consistent(mem', rm', rolls', taken') /\ NoGarbage(mem', rm', rolls') /\ mem'[rm.store] = mem[rm.store]
    BY Zenon, <1>1, <1>3, Collects
<1>5. Cap' = Cap
    BY Zenon, <1>1, <1>4 DEF Cap, CapOf, StorageSize
<1> QED BY Zenon, <1>1, <1>2, <1>4, <1>5 DEF IInv

\* A read asks for no more than there is room for.
LEMMA ReadIntoHolds == ASSUME IInv, NEW limit \in Nat, read_into(limit) PROVE IInv'
<1>1. /\ reading' = smaller(limit, Cap) /\ mem' = mem /\ rm' = rm /\ rolls' = rolls
      /\ taken' = taken /\ total' = total
    BY Zenon DEF read_into
<1>2. Cap \in Nat
    BY Zenon, CapProperties DEF IInv, Cap
<1>3. reading' \in Nat /\ reading' <= Cap
    BY <1>1, <1>2 DEF smaller
<1>4. Cap' = Cap
    BY Zenon, <1>1 DEF Cap
<1> QED BY Zenon, <1>1, <1>3, <1>4 DEF IInv

\* put_to_roll is a put, a Roll of what was put and a skip of it.
LEMMA PutToRollHolds == ASSUME IInv, NEW n \in Nat, NEW x \in Rolls, put_to_roll(n, x) PROVE IInv'
<1>1. PICK h, v, w :
          /\ h = Reserved(n) /\ v = RollAt(h.rm.store, h.rm.off, n, total + 1)
          /\ w = Written(h.mem, h.rm.store, h.rm.off, Upcoming(n))
          /\ rm.len = 0 /\ rolls[x] = NoRoll
          /\ rm' = [h.rm EXCEPT !.off = @ + n] /\ rolls' = [rolls EXCEPT ![x] = v]
          /\ mem' = Collected(w, h.rm, rolls)
          /\ total' = total + n /\ taken' = taken + n /\ reading' = 0
    BY Zenon DEF put_to_roll, Idle
<1>2. /\ Consistent(h.mem, h.rm, rolls, taken) /\ h.rm.len = 0 /\ total = taken + 0
      /\ n <= CapOf(h.mem, h.rm)
    BY <1>1, Reserves, RollAssumption DEF IInv
<1>3. h.rm \in Buffers /\ h.rm.store \in Stores /\ h.rm.off \in Nat /\ taken \in Nat
    BY Zenon, <1>2, CapProperties
<1> PICK r : r = [h.rm EXCEPT !.len = @ + n]
    BY Zenon
<1>4. r \in Buffers /\ r.store = h.rm.store /\ r.off = h.rm.off /\ r.len = n
  <2>1. h.rm.len + n = n
      BY <1>2
  <2> QED BY Zenon, <1>3, <2>1 DEF Buffers
<1>5. Consistent(w, r, rolls, taken)
  <2>1. /\ Upcoming(n) = Numbers(taken + h.rm.len + 1, n) /\ h.rm.off + h.rm.len = h.rm.off
    <3>1. total + 1 = taken + h.rm.len + 1
        BY Zenon, <1>2, <1>3
    <3> QED BY <1>2, <1>3, <3>1 DEF Upcoming
  <2> QED BY Zenon, <1>1, <1>2, <2>1, Puts
<1>6. Consistent(w, r, rolls', taken)
  <2>1. v = RollAt(r.store, r.off, n, taken + 1)
      BY <1>1, <1>2, <1>3, <1>4
  <2>2. v \in Views /\ RollHolds(w, r, v)
    <3>1. n <= r.len
        BY <1>4
    <3> QED BY Zenon, <1>5, <2>1, <3>1, FrontIsRoll
  <2> QED BY Zenon, <1>1, <1>5, <2>2, SetsRoll
<1>7. Consistent(w, rm', rolls', taken')
  <2>1. [r EXCEPT !.off = @ + n, !.len = @ - n] = rm'
    <3>1. r.len - n = 0 /\ r.off + n = h.rm.off + n /\ h.rm.len = 0
        BY <1>2, <1>4
    <3>2. /\ h.rm = [store |-> h.rm.store, off |-> h.rm.off, len |-> h.rm.len]
          /\ r = [store |-> r.store, off |-> r.off, len |-> r.len]
        BY Zenon, <1>3, <1>4 DEF Buffers
    <3> QED BY <1>1, <1>4, <3>1, <3>2
  <2>2. n <= r.len
      BY <1>4
  <2>3. Consistent(w, [r EXCEPT !.off = @ + n, !.len = @ - n], rolls', taken + n)
      BY Zenon, <1>6, <2>2, Skips
  <2> QED BY Zenon, <1>1, <2>1, <2>3
<1>8. rm'.store = h.rm.store /\ rm'.len = 0
    BY Zenon, <1>1, <1>2, <1>3 DEF Buffers
<1>9. mem' = Collected(w, rm', rolls')
  <2>1. /\ rolls'[x].store = rm'.store
        /\ \A y \in Rolls : y # x => rolls'[y] = rolls[y]
      BY Zenon, <1>1, <1>2, <1>8 DEF RollAt, Consistent
  <2>2. ASSUME NEW s \in Stores
        PROVE  (s = h.rm.store \/ \E y \in Rolls : rolls[y] # NoRoll /\ rolls[y].store = s)
               <=> (s = rm'.store \/ \E y \in Rolls : rolls'[y] # NoRoll /\ rolls'[y].store = s)
      BY Zenon, <1>1, <1>8, <2>1
  <2> QED BY Zenon, <1>1, <2>2 DEF Collected
<1>10. Consistent(mem', rm', rolls', taken') /\ NoGarbage(mem', rm', rolls')
    BY Zenon, <1>7, <1>9, Collects
<1>11. total' = taken' + rm'.len
    BY <1>1, <1>2, <1>3, <1>8
<1> QED BY Zenon, <1>1, <1>10, <1>11, IdleHolds
-----------------------------------------------------------------------------
\* Every step keeps the invariant.
LEMMA StepPreserves == IInv /\ [Next]_vars => IInv'
<1> SUFFICES ASSUME IInv, [Next]_vars PROVE IInv'
    BY Zenon
<1>1. Lengths \subseteq Nat
    BY RollAssumption DEF Lengths
<1>2. CASE UNCHANGED vars
  <2>1. /\ mem' = mem /\ rm' = rm /\ rolls' = rolls /\ reading' = reading
        /\ taken' = taken /\ total' = total
      BY Zenon, <1>2 DEF vars
  <2>2. Cap' = Cap
      BY Zenon, <2>1 DEF Cap
  <2> QED BY Zenon, <2>1, <2>2 DEF IInv
<1>3. ASSUME NEW n \in Lengths,
             \/ reserve_at_least(n) \/ put(n) \/ put_with_fails(n) \/ write(n)
             \/ skip(n) \/ read_into(n) \/ ReadCompletes(n)
      PROVE  IInv'
    BY <1>1, <1>3, ReserveAtLeastHolds, PutHolds, PutWithFailsHolds, WriteHolds,
       SkipHolds, ReadIntoHolds, ReadCompletesHolds
<1>4. ASSUME NEW x \in Rolls, filled(x) \/ keep(x) \/ drop(x) PROVE IInv'
    BY Zenon, <1>4, FilledHolds, KeepHolds, DropHolds
<1>5. ASSUME NEW x \in Rolls, NEW n \in Lengths, put_to_roll(n, x) \/ take_at_most(n, x) PROVE IInv'
    BY Zenon, <1>1, <1>5, PutToRollHolds, TakeAtMostHolds
<1>6. ASSUME NEW x \in Rolls, NEW from \in Lengths, NEW to \in Lengths, slice(x, from, to) PROVE IInv'
    BY Zenon, <1>1, <1>6, SliceHolds
<1>7. ASSUME NEW x \in Rolls, NEW y \in Rolls, NEW at \in Lengths, split_at(x, y, at) PROVE IInv'
    BY Zenon, <1>1, <1>7, SplitAtHolds
<1> QED BY <1>2, <1>3, <1>4, <1>5, <1>6, <1>7, ReserveHolds DEF Next

\* The inductive invariant: the filled part and the Rolls hold the bytes they
\* stand for, no Roll reaches beyond the filled part of its storage, and every
\* storage in use is somebody's.
THEOREM Invariance == Spec => []IInv
BY InitHolds, StepPreserves, PTL DEF Spec

\* No move, skip or partial read loses, repeats or reorders a byte of the
\* stream (put, write, read_into, reserve, skip and take_at_most of RollMut).
THEOREM FilledIsAlwaysStream == Spec => []FilledIsStream
<1>1. ASSUME IInv PROVE FilledIsStream
  <2>1. Consistent(mem, rm, rolls, taken) /\ total = taken + rm.len
      BY Zenon, <1>1 DEF IInv
  <2>2. /\ rm.off \in Nat /\ rm.len \in Nat /\ taken \in Nat /\ mem[rm.store] \in Seq(Nat)
      BY Zenon, <2>1, CapProperties
  <2>3. Holds(mem[rm.store], rm.off, rm.len, taken + 1)
      BY Zenon, <2>1 DEF Consistent, BufferHolds
  <2>4. Read(rm.store, rm.off, rm.len) = Numbers(taken + 1, rm.len)
    <3>1. taken + 1 \in Nat
        BY <2>2
    <3>2. Part(mem[rm.store], rm.off, rm.len) = Numbers(taken + 1, rm.len)
        BY Zenon, <2>2, <2>3, <3>1, ReadIsHolds
    <3> QED BY Zenon, <3>2 DEF Read, Part
  <2>5. total - taken = rm.len
      BY <2>1, <2>2
  <2> QED BY Zenon, <2>4, <2>5 DEF FilledIsStream
<1> QED BY <1>1, Invariance, PTL

\* A Roll reads the bytes it was taken for as long as it lives.
THEOREM RollsAreAlwaysStable == Spec => []RollsAreStable
<1>1. ASSUME IInv PROVE RollsAreStable
  <2> SUFFICES ASSUME NEW x \in Rolls, rolls[x] # NoRoll
               PROVE  Read(rolls[x].store, rolls[x].off, rolls[x].len) = Numbers(rolls[x].first, rolls[x].len)
      BY Zenon DEF RollsAreStable
  <2> PICK v : v = rolls[x]
      BY Zenon
  <2>1. /\ v.off \in Nat /\ v.len \in Nat /\ v.first \in Nat /\ mem[v.store] \in Seq(Nat)
        /\ Holds(mem[v.store], v.off, v.len, v.first)
      BY Zenon, <1>1 DEF IInv, Consistent, Views, RollHolds
  <2>2. Read(v.store, v.off, v.len) = Numbers(v.first, v.len)
    <3>1. Part(mem[v.store], v.off, v.len) = Numbers(v.first, v.len)
        BY <2>1, ReadIsHolds
    <3> QED BY Zenon, <3>1 DEF Read, Part
  <2> QED BY Zenon, <2>2
<1> QED BY <1>1, Invariance, PTL

\* The room there is in a relocated buffer.
LEMMA RelocatedRoom ==
    ASSUME NEW h, NEW size \in Nat, Relocated(h, size), rm.len \in Nat,
           rm' = h.rm, mem' = Collected(h.mem, h.rm, rolls)
    PROVE  Cap' = size - rm.len
<1>1. /\ Consistent(h.mem, h.rm, rolls, taken) /\ h.rm.off = 0 /\ h.rm.len = rm.len
      /\ Len(h.mem[h.rm.store]) = size
    BY Zenon DEF Relocated
<1>2. mem'[rm'.store] = h.mem[h.rm.store]
    BY <1>1, Collects
<1>3. Cap' = size - 0 - rm.len
    BY Zenon, <1>1, <1>2 DEF Cap, CapOf, StorageSize
<1> QED BY <1>3

\* reserve leaves no buffer full, but for the box of exactly a pool buffer's
\* length that compact turns into a pool buffer.
THEOREM ReserveMakesRoom == Spec => RoomUnlessBufSize
<1>1. ASSUME IInv, reserve PROVE Cap' > 0 \/ (IsBox /\ rm.len = BufSize)
  <2> PICK size : size = StorageSize(mem, rm)
      BY Zenon
  <2>1. /\ rm.off \in Nat /\ rm.len \in Nat /\ size \in Nat /\ size >= BufSize
        /\ rm.off + rm.len <= size
    <3>1. Consistent(mem, rm, rolls, taken)
        BY Zenon, <1>1 DEF IInv
    <3>2. /\ rm.off \in Nat /\ rm.len \in Nat /\ size \in Nat /\ size >= BufSize
          /\ size - rm.off - rm.len \in Nat
        BY Zenon, <3>1, CapProperties DEF StorageSize
    <3> QED BY <3>2
  <2>2. CASE rm.off > 0
    <3> DEFINE fit == IF IsBox /\ rm.len > BufSize THEN size ELSE BufSize
    <3>1. rm' = compact.rm /\ mem' = Collected(compact.mem, compact.rm, rolls)
        BY Zenon, <1>1, <2>2 DEF reserve
    <3>2. Relocated(compact, fit)
        BY Zenon, <1>1, CompactsAndGrows
    <3>3. fit \in Nat /\ (fit - rm.len > 0 \/ (IsBox /\ rm.len = BufSize))
        BY <2>1, <2>2, RollAssumption DEF IsBox
    <3> HIDE DEF fit
    <3>4. Cap' = fit - rm.len
        BY Zenon, <2>1, <3>1, <3>2, <3>3, RelocatedRoom
    <3> QED BY Zenon, <3>3, <3>4
  <2>3. CASE ~(rm.off > 0)
    <3>1. rm' = grow.rm /\ mem' = Collected(grow.mem, grow.rm, rolls)
        BY Zenon, <1>1, <2>3 DEF reserve
    <3>2. Relocated(grow, 2 * size)
        BY Zenon, <1>1, CompactsAndGrows
    <3>3. 2 * size \in Nat /\ 2 * size - rm.len > 0
        BY <2>1, RollAssumption
    <3>4. Cap' = 2 * size - rm.len
        BY Zenon, <2>1, <3>1, <3>2, <3>3, RelocatedRoom
    <3> QED BY Zenon, <3>3, <3>4
  <2> QED BY Zenon, <2>2, <2>3
<1>2. IInv => [reserve => Cap' > 0 \/ (IsBox /\ rm.len = BufSize)]_vars
    BY Zenon, <1>1
<1> QED BY <1>2, Invariance, PTL DEF RoomUnlessBufSize

\* reserve_at_least makes the room it was asked for while the filled part is
\* no longer than a pool buffer.
THEOREM ReserveAtLeastMakesRoom == Spec => RequestedRoomUpToBufSize
<1>1. ASSUME IInv, NEW n \in Lengths, reserve_at_least(n), rm.len <= BufSize PROVE Cap' >= n
  <2>1. n \in Nat
      BY RollAssumption DEF Lengths
  <2>2. PICK h : h = Reserved(n) /\ rm' = h.rm /\ mem' = Collected(h.mem, h.rm, rolls)
      BY Zenon, <1>1 DEF reserve_at_least
  <2>3. Consistent(h.mem, h.rm, rolls, taken) /\ n <= CapOf(h.mem, h.rm)
      BY Zenon, <1>1, <2>1, <2>2, Reserves
  <2>4. mem'[rm'.store] = h.mem[h.rm.store]
      BY <2>2, <2>3, Collects
  <2>5. Cap' = CapOf(h.mem, h.rm) /\ CapOf(h.mem, h.rm) \in Nat
    <3>1. Cap' = CapOf(h.mem, h.rm)
        BY Zenon, <2>2, <2>4 DEF Cap, CapOf, StorageSize
    <3> QED BY Zenon, <2>3, <3>1, CapProperties
  <2> QED BY Zenon, <2>1, <2>3, <2>5
<1>2. IInv => [\A n \in Lengths : reserve_at_least(n) /\ rm.len <= BufSize => Cap' >= n]_vars
    BY Zenon, <1>1
<1> QED BY <1>2, Invariance, PTL DEF RequestedRoomUpToBufSize
=============================================================================
