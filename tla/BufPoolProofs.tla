--------------------------- MODULE BufPoolProofs ----------------------------
(***************************************************************************)
(* For any pool and any number of handles below the range of a count: the  *)
(* counts and the free list are exact, and writes are exclusive.           *)
(***************************************************************************)
EXTENDS BufPool, FiniteSetTheorems, TLAPS

IInv ==
    /\ TypeOK
    /\ RefCountsExact
    /\ FreeListExact
    /\ WritesAreExclusive

\* Handle h keeps its buffer, or keeps having none.
Keeps(h) ==
    /\ Live(h)' <=> Live(h)
    /\ Live(h) => views'[h].index = views[h].index
-----------------------------------------------------------------------------
\* Within its range, i16 addition is addition.
LEMMA AddIsExact ==
    ASSUME NEW n \in Int, NEW d \in Int,
           n + d \in -CountRange .. CountRange - 1
    PROVE  Add(n, d) = n + d
<1>1. CountRange \in Nat \ {0}
    BY PoolAssumption
<1>2. n + d + CountRange \in 0 .. 2 * CountRange - 1
    BY <1>1
<1>3. (n + d + CountRange) % (2 * CountRange) = n + d + CountRange
    BY <1>1, <1>2
<1> QED
    BY <1>1, <1>3 DEF Add

\* The handles on a buffer are finitely many, fewer than a count can count.
LEMMA HoldersCount ==
    ASSUME NEW b \in Bufs
    PROVE  /\ IsFiniteSet(Holders(b))
           /\ Cardinality(Holders(b)) \in Nat
           /\ Cardinality(Holders(b)) < CountRange
<1>1. Holders(b) \subseteq Handles
    BY DEF Holders
<1>2. IsFiniteSet(Holders(b)) /\ Cardinality(Holders(b)) <= Cardinality(Handles)
    BY <1>1, FS_Subset, PoolAssumption
<1>3. Cardinality(Holders(b)) \in Nat /\ Cardinality(Handles) \in Nat
    BY <1>2, FS_CardinalityType, PoolAssumption
<1> QED
    BY <1>2, <1>3, PoolAssumption

\* The same after a step.
LEMMA HoldersCountNext ==
    ASSUME NEW b \in Bufs
    PROVE  /\ IsFiniteSet(Holders(b)')
           /\ Cardinality(Holders(b)') \in Nat
           /\ Cardinality(Holders(b)') < CountRange
<1>1. Holders(b)' \subseteq Handles
    BY DEF Holders
<1>2. IsFiniteSet(Holders(b)') /\ Cardinality(Holders(b)') <= Cardinality(Handles)
    BY <1>1, FS_Subset, PoolAssumption
<1>3. Cardinality(Holders(b)') \in Nat /\ Cardinality(Handles) \in Nat
    BY <1>2, FS_CardinalityType, PoolAssumption
<1> QED
    BY <1>2, <1>3, PoolAssumption

\* A step that gives one handle, which had none, a view of buffer b and adds
\* one to the count of b keeps the counts exact.
LEMMA OneMore ==
    ASSUME TypeOK, RefCountsExact,
           NEW g \in Handles, NEW b \in Bufs,
           ~Live(g), Live(g)', views'[g].index = b,
           \A h \in Handles \ {g} : Keeps(h),
           refs' = [refs EXCEPT ![b] = Add(@, 1)]
    PROVE  /\ RefCountsExact'
           /\ refs' \in [Bufs -> -CountRange .. CountRange - 1]
           /\ Holders(b)' # {}
           /\ \A c \in Bufs \ {b} : Holders(c)' = Holders(c)
<1>1. Holders(b)' = Holders(b) \cup {g} /\ g \notin Holders(b)
    BY DEF Holders, Keeps, Live
<1>2. \A c \in Bufs \ {b} : Holders(c)' = Holders(c)
    BY DEF Holders, Keeps, Live
<1>3. Cardinality(Holders(b)') = Cardinality(Holders(b)) + 1
    BY <1>1, FS_AddElement, HoldersCount
<1>4. refs[b] = Cardinality(Holders(b)) /\ refs \in [Bufs -> Int]
    BY PoolAssumption DEF RefCountsExact, TypeOK
<1>5. CountRange \in Nat
    BY PoolAssumption
<1>6. refs[b] + 1 \in -CountRange .. CountRange - 1
    BY <1>3, <1>4, <1>5, HoldersCount, HoldersCountNext
<1>7. refs'[b] = refs[b] + 1
    BY <1>4, <1>6, AddIsExact
<1>8. \A c \in Bufs \ {b} : refs'[c] = refs[c]
    BY <1>4
<1>9. RefCountsExact'
  <2>1. ASSUME NEW c \in Bufs PROVE refs'[c] = Cardinality(Holders(c)')
    <3>1. CASE c = b
        BY <3>1, <1>3, <1>4, <1>7
    <3>2. CASE c # b
        BY <3>2, <1>2, <1>8 DEF RefCountsExact
    <3> QED
        BY <3>1, <3>2
  <2> QED
    BY <2>1 DEF RefCountsExact
<1>10. refs' \in [Bufs -> -CountRange .. CountRange - 1]
    BY <1>4, <1>6, <1>7, <1>8 DEF TypeOK
<1> QED
    BY <1>1, <1>2, <1>9, <1>10

\* A step that changes no count and leaves every handle on its buffer keeps
\* the counts and the free list exact.
LEMMA SameHolders ==
    ASSUME IInv,
           \A h \in Handles : Keeps(h),
           UNCHANGED <<refs, free>>
    PROVE  RefCountsExact' /\ FreeListExact'
<1>1. \A c \in Bufs : Holders(c)' = Holders(c)
    BY DEF Holders, Keeps, Live
<1> QED
    BY <1>1 DEF IInv, RefCountsExact, FreeListExact

\* A step that takes its view of buffer b from one handle and one from the
\* count of b keeps the counts exact.
LEMMA OneLess ==
    ASSUME TypeOK, RefCountsExact,
           NEW g \in Handles, NEW b \in Bufs,
           Live(g), ~Live(g)', views[g].index = b,
           \A h \in Handles \ {g} : Keeps(h),
           refs' = [refs EXCEPT ![b] = Add(@, -1)]
    PROVE  /\ RefCountsExact'
           /\ refs' \in [Bufs -> -CountRange .. CountRange - 1]
           /\ refs'[b] = 0 <=> Holders(b)' = {}
           /\ \A c \in Bufs \ {b} : Holders(c)' = Holders(c)
<1>1. Holders(b)' = Holders(b) \ {g} /\ g \in Holders(b)
    BY DEF Holders, Keeps, Live
<1>2. \A c \in Bufs \ {b} : Holders(c)' = Holders(c)
    BY DEF Holders, Keeps, Live
<1>3. Cardinality(Holders(b)') = Cardinality(Holders(b)) - 1
    BY <1>1, FS_RemoveElement, HoldersCount
<1>4. refs[b] = Cardinality(Holders(b)) /\ refs \in [Bufs -> Int]
    BY PoolAssumption DEF RefCountsExact, TypeOK
<1>5. CountRange \in Nat
    BY PoolAssumption
<1>6. refs[b] + (-1) \in -CountRange .. CountRange - 1
    BY <1>3, <1>4, <1>5, HoldersCount, HoldersCountNext
<1>7. refs'[b] = refs[b] + (-1)
    BY <1>4, <1>6, AddIsExact
<1>8. \A c \in Bufs \ {b} : refs'[c] = refs[c]
    BY <1>4
<1>9. RefCountsExact'
  <2>1. ASSUME NEW c \in Bufs PROVE refs'[c] = Cardinality(Holders(c)')
    <3>1. CASE c = b
        BY <3>1, <1>3, <1>4, <1>7, HoldersCount
    <3>2. CASE c # b
        BY <3>2, <1>2, <1>8 DEF RefCountsExact
    <3> QED
        BY <3>1, <3>2
  <2> QED
    BY <2>1 DEF RefCountsExact
<1>10. refs' \in [Bufs -> -CountRange .. CountRange - 1]
    BY <1>4, <1>6, <1>7, <1>8 DEF TypeOK
<1>11. refs'[b] = 0 <=> Holders(b)' = {}
    BY <1>9, FS_EmptySet, HoldersCountNext DEF RefCountsExact
<1> QED
    BY <1>2, <1>9, <1>10, <1>11

\* Two ranges of one buffer are disjoint exactly when one ends before the
\* other starts.
LEMMA DisjointRanges ==
    ASSUME NEW a \in Int, NEW m \in Int, NEW b \in Int, NEW n \in Int,
           a + m <= b
    PROVE  (a .. a + m - 1) \cap (b .. b + n - 1) = {}
    OBVIOUS
-----------------------------------------------------------------------------
\* alloc: the buffer at the head of the free list has no handle on it.
LEMMA AllocPreserves ==
    ASSUME IInv, NEW h \in Handles, alloc(h)
    PROVE  IInv'
<1>0. PICK b \in Bufs : b = Head(free)
    BY DEF IInv, TypeOK, alloc
<1>1. /\ b \in Bufs /\ 1 \in DOMAIN free /\ free[1] = b
      /\ free' \in Seq(Bufs) /\ Len(free') = Len(free) - 1
      /\ \A k \in DOMAIN free' : k + 1 \in DOMAIN free /\ free'[k] = free[k + 1]
      /\ \A k \in DOMAIN free : k # 1 => k - 1 \in DOMAIN free' /\ free'[k - 1] = free[k]
    BY <1>0 DEF IInv, TypeOK, alloc
<1>2. Holders(b) = {}
    BY <1>1 DEF IInv, FreeListExact
<1>3. /\ views'[h] = View("BufMut", b, 0, Size)
      /\ \A g \in Handles \ {h} : views'[g] = views[g]
      /\ views' \in [Handles -> ViewSet \cup {NoView}]
    BY <1>0, <1>1, PoolAssumption DEF IInv, TypeOK, alloc, View, ViewSet
<1>4. Live(h)' /\ ~Live(h) /\ \A g \in Handles \ {h} : Keeps(g)
    BY <1>3 DEF Live, NoView, View, Keeps, alloc
<1>5. /\ RefCountsExact'
      /\ refs' \in [Bufs -> -CountRange .. CountRange - 1]
      /\ Holders(b)' # {}
      /\ \A c \in Bufs \ {b} : Holders(c)' = Holders(c)
  <2>1. TypeOK /\ RefCountsExact /\ views'[h].index = b
        /\ refs' = [refs EXCEPT ![b] = Add(@, 1)]
    BY <1>0, <1>3 DEF IInv, alloc, View
  <2> QED
    BY <1>1, <1>4, <2>1, OneMore
<1>6. TypeOK'
  <2>1. \A g \in Handles : Live(g)' => views'[g].off + views'[g].len <= Size
    BY <1>3, PoolAssumption DEF IInv, TypeOK, Live, View
  <2> QED
    BY <1>1, <1>3, <1>5, <2>1 DEF TypeOK
<1>7. FreeListExact'
  <2>1. \A c \in Bufs \ {b} : (\E k \in DOMAIN free : free[k] = c) <=> \E k \in DOMAIN free' : free'[k] = c
    BY <1>1
  <2>2. ~ \E k \in DOMAIN free' : free'[k] = b
    <3>1. ASSUME NEW k \in DOMAIN free', free'[k] = b PROVE FALSE
      <4>1. k + 1 \in DOMAIN free /\ free[k + 1] = free[1] /\ k \in Nat /\ k > 0
        BY <1>1, <3>1
      <4>2. k + 1 = 1
        BY <1>1, <4>1 DEF IInv, FreeListExact
      <4> QED
        BY <4>1, <4>2
    <3> QED
        BY <3>1
  <2>3. \A c \in Bufs : Holders(c)' = {} <=> \E k \in DOMAIN free' : free'[k] = c
    BY <1>5, <2>1, <2>2 DEF IInv, FreeListExact
  <2>4. ASSUME NEW i \in DOMAIN free', NEW j \in DOMAIN free', free'[i] = free'[j] PROVE i = j
    <3>1. i + 1 \in DOMAIN free /\ j + 1 \in DOMAIN free /\ free[i + 1] = free[j + 1] /\ i \in Int /\ j \in Int
        BY <1>1, <2>4
    <3>2. i + 1 = j + 1
        BY <3>1 DEF IInv, FreeListExact
    <3> QED
        BY <3>1, <3>2
  <2> QED
    BY <2>3, <2>4 DEF FreeListExact
<1>8. WritesAreExclusive'
  <2>1. \A g \in Handles \ {h} : Live(g)' => Live(g) /\ views'[g] = views[g] /\ views[g].index # b
    BY <1>2, <1>3 DEF Live, Holders
  <2>2. views'[h].index = b
    BY <1>3 DEF View
  <2> QED
    BY <2>1, <2>2 DEF IInv, WritesAreExclusive, Bytes
<1> QED
    BY <1>5, <1>6, <1>7, <1>8 DEF IInv

\* drop: the buffer joins the free list with its last handle.
LEMMA DropPreserves ==
    ASSUME IInv, NEW h \in Handles, drop(h)
    PROVE  IInv'
<1>0. PICK b \in Bufs : b = views[h].index
    BY DEF IInv, TypeOK, drop, Live, ViewSet
<1>1. Live(h) /\ b \in Bufs
    BY <1>0 DEF IInv, TypeOK, drop, Live, ViewSet
<1>2. /\ views'[h] = NoView
      /\ \A g \in Handles \ {h} : views'[g] = views[g]
      /\ views' \in [Handles -> ViewSet \cup {NoView}]
    BY DEF IInv, TypeOK, drop
<1>3. ~Live(h)' /\ \A g \in Handles \ {h} : Keeps(g)
    BY <1>2 DEF Live, Keeps
<1>4. /\ RefCountsExact'
      /\ refs' \in [Bufs -> -CountRange .. CountRange - 1]
      /\ refs'[b] = 0 <=> Holders(b)' = {}
      /\ \A c \in Bufs \ {b} : Holders(c)' = Holders(c)
  <2>1. TypeOK /\ RefCountsExact
        /\ refs' = [refs EXCEPT ![b] = Add(@, -1)] /\ views[h].index = b
    BY <1>0 DEF IInv, drop, dec
  <2> QED
    BY <1>1, <1>3, <2>1, OneLess
<1>5. Holders(b) # {}
    BY <1>0, <1>1 DEF Holders
<1>6. free \in Seq(Bufs) /\ free' = IF refs'[b] = 0 THEN Append(free, b) ELSE free
    BY <1>0 DEF IInv, TypeOK, drop, dec
<1>7. TypeOK'
  <2>1. \A g \in Handles : Live(g)' => views'[g].off + views'[g].len <= Size
    BY <1>2 DEF IInv, TypeOK, Live
  <2> QED
    BY <1>1, <1>2, <1>4, <1>6, <2>1 DEF TypeOK
<1>8. FreeListExact'
  <2>1. ~ \E k \in DOMAIN free : free[k] = b
    BY <1>1, <1>5 DEF IInv, FreeListExact
  <2>2. CASE refs'[b] = 0
    <3>1. /\ DOMAIN free' = DOMAIN free \cup {Len(free) + 1}
          /\ free'[Len(free) + 1] = b
          /\ \A k \in DOMAIN free : free'[k] = free[k]
        BY <1>1, <1>6, <2>2
    <3>2. \A c \in Bufs : Holders(c)' = {} <=> \E k \in DOMAIN free' : free'[k] = c
        BY <1>4, <2>1, <2>2, <3>1 DEF IInv, FreeListExact
    <3>3. \A i, j \in DOMAIN free' : free'[i] = free'[j] => i = j
        BY <2>1, <3>1 DEF IInv, FreeListExact
    <3> QED
        BY <3>2, <3>3 DEF FreeListExact
  <2>3. CASE refs'[b] # 0
    BY <1>4, <1>5, <1>6, <2>3 DEF IInv, FreeListExact
  <2> QED
    BY <2>2, <2>3
<1>9. WritesAreExclusive'
    BY <1>2 DEF IInv, WritesAreExclusive, Bytes, Live
<1> QED
    BY <1>4, <1>7, <1>8, <1>9 DEF IInv

\* A step that gives g a view of h's buffer and adds one to its count keeps
\* the free list exact: it lists neither before nor after.
LEMMA SharingPreserves ==
    ASSUME IInv, NEW h \in Handles, NEW g \in Handles,
           Live(h), ~Live(g), Live(g)',
           views'[g].index = views[h].index,
           \A k \in Handles \ {g} : Keeps(k),
           inc(views[h].index)
    PROVE  /\ RefCountsExact'
           /\ FreeListExact'
           /\ refs' \in [Bufs -> -CountRange .. CountRange - 1]
           /\ free' \in Seq(Bufs)
<1>1. PICK b \in Bufs : b = views[h].index
    BY DEF IInv, TypeOK, Live, ViewSet
<1>2. TypeOK /\ RefCountsExact /\ views'[g].index = b
      /\ refs' = [refs EXCEPT ![b] = Add(@, 1)] /\ free' = free
    BY <1>1 DEF IInv, inc
<1>3. /\ RefCountsExact'
      /\ refs' \in [Bufs -> -CountRange .. CountRange - 1]
      /\ Holders(b)' # {}
      /\ \A c \in Bufs \ {b} : Holders(c)' = Holders(c)
    BY <1>2, OneMore
<1>4. Holders(b) # {}
    BY <1>1 DEF Holders
<1>5. FreeListExact'
    BY <1>2, <1>3, <1>4 DEF IInv, FreeListExact
<1> QED
    BY <1>2, <1>3, <1>5 DEF IInv, TypeOK

\* split_at: the two parts are disjoint, and within the whole.
LEMMA SplitPreserves ==
    ASSUME IInv, NEW h \in Handles, NEW g \in Handles, NEW at \in 0 .. Size,
           split_at(h, g, at)
    PROVE  IInv'
<1> DEFINE v == views[h]
<1>1. /\ v \in ViewSet /\ v.off + v.len <= Size /\ at <= v.len
      /\ h # g /\ Live(h) /\ ~Live(g)
    BY DEF IInv, TypeOK, split_at, Live
<1>2. /\ views'[h] = View(v.kind, v.index, v.off, at)
      /\ views'[g] = View(v.kind, v.index, v.off + at, v.len - at)
      /\ \A k \in Handles \ {g, h} : views'[k] = views[k]
      /\ DOMAIN views' = Handles
    BY <1>1 DEF IInv, TypeOK, split_at
<1>3. views'[h] \in ViewSet /\ views'[g] \in ViewSet
    BY <1>1, <1>2, PoolAssumption DEF View, ViewSet
<1>4. views' \in [Handles -> ViewSet \cup {NoView}]
    BY <1>2, <1>3 DEF IInv, TypeOK, split_at
<1>5. Live(g)' /\ Live(h)' /\ \A k \in Handles \ {g} : Keeps(k)
    BY <1>1, <1>2, <1>3 DEF Live, Keeps, NoView, View, ViewSet
<1>6. /\ RefCountsExact'
      /\ FreeListExact'
      /\ refs' \in [Bufs -> -CountRange .. CountRange - 1]
      /\ free' \in Seq(Bufs)
  <2>1. inc(views[h].index) /\ views'[g].index = views[h].index
    BY <1>2 DEF split_at, View
  <2> QED
    BY <1>1, <1>5, <2>1, SharingPreserves
<1>7. TypeOK'
  <2>1. /\ views'[h].off + views'[h].len <= Size
        /\ views'[g].off + views'[g].len <= Size
    BY <1>1, <1>2, PoolAssumption DEF View, ViewSet
  <2>2. \A k \in Handles \ {g, h} : Live(k)' => views'[k].off + views'[k].len <= Size
    BY <1>2 DEF IInv, TypeOK, Live
  <2> QED
    BY <1>4, <1>6, <2>1, <2>2 DEF TypeOK
<1>8. /\ Bytes(h)' \subseteq Bytes(h)
      /\ Bytes(g)' \subseteq Bytes(h)
      /\ Bytes(h)' \cap Bytes(g)' = {}
    BY <1>1, <1>2, PoolAssumption DEF Bytes, View, ViewSet
<1>9. /\ \A k \in Handles \ {g, h} : Live(k)' = Live(k) /\ views'[k] = views[k] /\ Bytes(k)' = Bytes(k)
      /\ views'[h].index = v.index /\ views'[h].kind = v.kind
      /\ views'[g].index = v.index /\ views'[g].kind = v.kind
    BY <1>2 DEF Live, Bytes, View
<1>10. WritesAreExclusive'
  <2> SUFFICES ASSUME NEW k \in Handles, NEW l \in Handles, k # l,
                      Live(k)', Live(l)',
                      views'[k].index = views'[l].index, views'[k].kind = "BufMut"
               PROVE  Bytes(k)' \cap Bytes(l)' = {}
    BY DEF WritesAreExclusive
  <2>1. CASE k \in {g, h} /\ l \in {g, h}
    BY <1>8, <2>1
  <2>2. CASE k \in {g, h} /\ l \notin {g, h}
    BY <1>1, <1>8, <1>9, <2>2 DEF IInv, WritesAreExclusive
  <2>3. CASE k \notin {g, h} /\ l \in {g, h}
    BY <1>1, <1>8, <1>9, <2>3 DEF IInv, WritesAreExclusive
  <2>4. CASE k \notin {g, h} /\ l \notin {g, h}
    BY <1>9, <2>4 DEF IInv, WritesAreExclusive
  <2> QED
    BY <2>1, <2>2, <2>3, <2>4
<1> QED
    BY <1>6, <1>7, <1>10 DEF IInv

\* clone: the bytes of a Buf belong to no BufMut.
LEMMA ClonePreserves ==
    ASSUME IInv, NEW h \in Handles, NEW g \in Handles, clone(h, g)
    PROVE  IInv'
<1>1. /\ views[h] \in ViewSet /\ views[h].kind = "Buf"
      /\ h # g /\ Live(h) /\ ~Live(g)
    BY DEF IInv, TypeOK, clone, Live
<1>2. /\ views'[g] = views[h]
      /\ \A k \in Handles \ {g} : views'[k] = views[k]
      /\ views' \in [Handles -> ViewSet \cup {NoView}]
    BY DEF IInv, TypeOK, clone
<1>3. Live(g)' /\ \A k \in Handles \ {g} : Keeps(k)
    BY <1>1, <1>2 DEF Live, Keeps
<1>4. /\ RefCountsExact'
      /\ FreeListExact'
      /\ refs' \in [Bufs -> -CountRange .. CountRange - 1]
      /\ free' \in Seq(Bufs)
  <2>1. inc(views[h].index) /\ views'[g].index = views[h].index
    BY <1>2 DEF clone
  <2> QED
    BY <1>1, <1>3, <2>1, SharingPreserves
<1>5. TypeOK'
  <2>1. \A k \in Handles : Live(k)' => views'[k].off + views'[k].len <= Size
    BY <1>1, <1>2 DEF IInv, TypeOK, Live
  <2> QED
    BY <1>2, <1>4, <2>1 DEF TypeOK
<1>6. WritesAreExclusive'
  <2> SUFFICES ASSUME NEW k \in Handles, NEW l \in Handles, k # l,
                      Live(k)', Live(l)',
                      views'[k].index = views'[l].index, views'[k].kind = "BufMut"
               PROVE  Bytes(k)' \cap Bytes(l)' = {}
    BY DEF WritesAreExclusive
  <2>1. k # g /\ views'[k] = views[k] /\ Live(k) /\ Bytes(k)' = Bytes(k) /\ k # h
    BY <1>1, <1>2 DEF Live, Bytes
  <2>2. CASE l = g
    BY <1>1, <1>2, <2>1, <2>2 DEF IInv, WritesAreExclusive, Bytes
  <2>3. CASE l # g
    BY <1>2, <2>1, <2>3 DEF IInv, WritesAreExclusive, Bytes, Live
  <2> QED
    BY <2>2, <2>3
<1> QED
    BY <1>4, <1>5, <1>6 DEF IInv

\* freeze, skip and slice: a handle narrows its range or gives up writing.
LEMMA NarrowingPreserves ==
    ASSUME IInv, NEW h \in Handles, Live(h),
           NEW kind \in {"BufMut", "Buf"}, NEW off \in Nat, NEW len \in Nat,
           kind = "BufMut" => views[h].kind = "BufMut",
           views[h].off <= off, off + len <= views[h].off + views[h].len,
           views' = [views EXCEPT ![h] = View(kind, views[h].index, off, len)],
           UNCHANGED <<refs, free>>
    PROVE  IInv'
<1>1. views[h] \in ViewSet /\ views[h].off + views[h].len <= Size
    BY DEF IInv, TypeOK, Live
<1>2. /\ views'[h] = View(kind, views[h].index, off, len)
      /\ \A k \in Handles \ {h} : views'[k] = views[k]
      /\ DOMAIN views' = Handles
    BY DEF IInv, TypeOK
<1>3. views'[h] \in ViewSet
    BY <1>1, <1>2, PoolAssumption DEF View, ViewSet
<1>4. views' \in [Handles -> ViewSet \cup {NoView}]
    BY <1>2, <1>3 DEF IInv, TypeOK
<1>5. Live(h)' /\ \A k \in Handles : Keeps(k)
    BY <1>2, <1>3 DEF Live, Keeps, NoView, View, ViewSet
<1>6. RefCountsExact' /\ FreeListExact'
    BY <1>5, SameHolders
<1>7. TypeOK'
  <2>1. \A k \in Handles : Live(k)' => views'[k].off + views'[k].len <= Size
    BY <1>1, <1>2, PoolAssumption DEF IInv, TypeOK, Live, View, ViewSet
  <2> QED
    BY <1>4, <2>1 DEF IInv, TypeOK
<1>8. \A k \in Handles : Bytes(k)' \subseteq Bytes(k) \/ ~Live(k)
  <2>1. Bytes(h)' \subseteq Bytes(h)
    BY <1>1, <1>2, PoolAssumption DEF Bytes, View, ViewSet
  <2>2. \A k \in Handles \ {h} : Bytes(k)' = Bytes(k)
    BY <1>2 DEF Bytes
  <2> QED
    BY <2>1, <2>2
<1>9. \A k \in Handles : Live(k)' => /\ Live(k)
                                     /\ views'[k].index = views[k].index
                                     /\ views'[k].kind = "BufMut" => views[k].kind = "BufMut"
    BY <1>2 DEF Live, View
<1>10. WritesAreExclusive'
    BY <1>8, <1>9 DEF IInv, WritesAreExclusive
<1> QED
    BY <1>6, <1>7, <1>10 DEF IInv

\* freeze keeps the range.
LEMMA FreezePreserves ==
    ASSUME IInv, NEW h \in Handles, freeze(h)
    PROVE  IInv'
<1>1. Live(h) /\ views[h] \in ViewSet /\ UNCHANGED <<refs, free>>
    BY DEF IInv, TypeOK, freeze, Live
<1>2. views' = [views EXCEPT ![h] = View("Buf", views[h].index, views[h].off, views[h].len)]
    BY DEF freeze
<1>3. PICK off \in Nat, len \in Nat : off = views[h].off /\ len = views[h].len
    BY <1>1, PoolAssumption DEF ViewSet
<1>4. views[h].off <= off /\ off + len <= views[h].off + views[h].len
    BY <1>3
<1> QED
    BY <1>1, <1>2, <1>3, <1>4, NarrowingPreserves

\* skip gives up the first bytes.
LEMMA SkipPreserves ==
    ASSUME IInv, NEW h \in Handles, NEW n \in 0 .. Size, skip(h, n)
    PROVE  IInv'
<1>1. Live(h) /\ views[h] \in ViewSet /\ views[h].kind = "BufMut" /\ n <= views[h].len
      /\ UNCHANGED <<refs, free>>
    BY DEF IInv, TypeOK, skip, Live
<1>2. views' = [views EXCEPT ![h] = View("BufMut", views[h].index, views[h].off + n, views[h].len - n)]
    BY DEF skip
<1>3. PICK off \in Nat, len \in Nat : off = views[h].off + n /\ len = views[h].len - n
  <2>1. views[h].off + n \in Nat /\ views[h].len - n \in Nat
    BY <1>1, PoolAssumption DEF ViewSet
  <2> QED
    BY <2>1
<1>4. /\ views[h].off <= off /\ off + len <= views[h].off + views[h].len
      /\ views' = [views EXCEPT ![h] = View("BufMut", views[h].index, off, len)]
    BY <1>1, <1>2, <1>3, PoolAssumption DEF ViewSet
<1> QED
    BY <1>1, <1>4, NarrowingPreserves

\* slice keeps a part of the range.
LEMMA SlicePreserves ==
    ASSUME IInv, NEW h \in Handles, NEW from \in 0 .. Size, NEW to \in 0 .. Size,
           slice(h, from, to)
    PROVE  IInv'
<1>1. Live(h) /\ views[h] \in ViewSet /\ views[h].kind = "Buf" /\ from <= to /\ to <= views[h].len
      /\ UNCHANGED <<refs, free>>
    BY DEF IInv, TypeOK, slice, Live
<1>2. views' = [views EXCEPT ![h] = View("Buf", views[h].index, views[h].off + from, to - from)]
    BY DEF slice
<1>3. PICK off \in Nat, len \in Nat : off = views[h].off + from /\ len = to - from
    BY <1>1, PoolAssumption DEF ViewSet
<1>4. views[h].off <= off /\ off + len <= views[h].off + views[h].len
    BY <1>1, <1>3, PoolAssumption DEF ViewSet
<1> QED
    BY <1>1, <1>2, <1>3, <1>4, NarrowingPreserves
-----------------------------------------------------------------------------
\* Every buffer starts in the free list, once: the list is as long as the pool.
LEMMA InitEstablishes == Init => IInv
<1> SUFFICES ASSUME Init PROVE IInv
    OBVIOUS
<1>1. \A h \in Handles : ~Live(h)
    BY DEF Init, Live
<1>2. \A b \in Bufs : Holders(b) = {}
    BY <1>1 DEF Holders
<1>3. Cardinality(Bufs) \in Nat
    BY FS_CardinalityType, PoolAssumption
<1>4. free \in Seq(Bufs) /\ DOMAIN free = 1 .. Cardinality(Bufs)
    BY <1>3 DEF Init
<1>5. TypeOK
    BY <1>1, <1>4, PoolAssumption DEF Init, TypeOK
<1>6. RefCountsExact
    BY <1>2, FS_EmptySet DEF Init, RefCountsExact
<1>7. FreeListExact
  <2>1. /\ IsFiniteSet(1 .. Cardinality(Bufs))
        /\ Cardinality(1 .. Cardinality(Bufs)) = Cardinality(Bufs)
    BY <1>3, FS_Interval
  <2>2. free \in Surjection(1 .. Cardinality(Bufs), Bufs)
    BY DEF Init, Surjection
  <2>3. free \in Injection(1 .. Cardinality(Bufs), Bufs)
    BY <2>1, <2>2, PoolAssumption, FS_SurjSameCardinalityImpliesInj
  <2> QED
    BY <1>2, <1>4, <2>3 DEF Init, FreeListExact, Injection, IsInjective
<1>8. WritesAreExclusive
    BY <1>1 DEF WritesAreExclusive
<1> QED
    BY <1>5, <1>6, <1>7, <1>8 DEF IInv

\* Every operation of BufMut and Buf, and a stuttering step, keeps the
\* invariant.
LEMMA StepPreserves == IInv /\ [Next]_vars => IInv'
<1> SUFFICES ASSUME IInv, [Next]_vars PROVE IInv'
    OBVIOUS
<1>1. CASE UNCHANGED vars
    BY <1>1 DEF IInv, TypeOK, RefCountsExact, FreeListExact, WritesAreExclusive,
                Holders, Live, Bytes, vars
<1>2. ASSUME NEW h \in Handles, alloc(h) PROVE IInv'
    BY <1>2, AllocPreserves
<1>3. ASSUME NEW h \in Handles, drop(h) PROVE IInv'
    BY <1>3, DropPreserves
<1>4. ASSUME NEW h \in Handles, freeze(h) PROVE IInv'
    BY <1>4, FreezePreserves
<1>5. ASSUME NEW h \in Handles, NEW n \in 0 .. Size, skip(h, n) PROVE IInv'
    BY <1>5, SkipPreserves
<1>6. ASSUME NEW h \in Handles, NEW from \in 0 .. Size, NEW to \in 0 .. Size,
             slice(h, from, to)
      PROVE  IInv'
    BY <1>6, SlicePreserves
<1>7. ASSUME NEW h \in Handles, NEW g \in Handles, clone(h, g) PROVE IInv'
    BY <1>7, ClonePreserves
<1>8. ASSUME NEW h \in Handles, NEW g \in Handles, NEW at \in 0 .. Size,
             split_at(h, g, at)
      PROVE  IInv'
    BY <1>8, SplitPreserves
<1> QED
    BY <1>1, <1>2, <1>3, <1>4, <1>5, <1>6, <1>7, <1>8 DEF Next

\* The invariant holds of every pool.
THEOREM Invariance == Spec => []IInv
    BY InitEstablishes, StepPreserves, PTL DEF Spec

\* A view never leaves its buffer, and a count never leaves the range of its
\* integer type, for any size of pool, of buffers and of counters that can
\* count the handles.
THEOREM TypesAreKept == Spec => []TypeOK
<1>1. IInv => TypeOK
    BY DEF IInv
<1> QED
    BY <1>1, Invariance, PTL

\* Whatever the program does with the public operations of BufMut and Buf, a
\* buffer's count is the number of handles on it.
THEOREM CountsAreExact == Spec => []RefCountsExact
<1>1. IInv => RefCountsExact
    BY DEF IInv
<1> QED
    BY <1>1, Invariance, PTL

\* alloc gives out no buffer in use, and dec loses none.
THEOREM FreeListIsExact == Spec => []FreeListExact
<1>1. IInv => FreeListExact
    BY DEF IInv
<1> QED
    BY <1>1, Invariance, PTL

\* No two handles may touch a byte that one of them may write.
THEOREM NoSharedWrites == Spec => []WritesAreExclusive
<1>1. IInv => WritesAreExclusive
    BY DEF IInv
<1> QED
    BY <1>1, Invariance, PTL
=============================================================================
