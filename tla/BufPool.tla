------------------------------ MODULE BufPool -------------------------------
(***************************************************************************)
(* The buffer pool of one thread: buffet/src/bufpool.rs and                *)
(* bufpool/privatepool.rs.                                                 *)
(*                                                                         *)
(* A buffer has a reference count and, while the count is zero, a place in *)
(* the free list.  A handle is a BufMut or a Buf: a range of a buffer,     *)
(* that decrements its count when it is dropped.  Handles a program does   *)
(* not have are in "views" as NoView.                                      *)
(***************************************************************************)
EXTENDS Integers, Sequences, FiniteSets

CONSTANTS
    Bufs,         \* the indexes of the pool's buffers
    Handles,      \* the handles the program may have at a time
    Size,         \* BUF_SIZE
    CountRange    \* counts are i16: -CountRange .. CountRange - 1

ASSUME PoolAssumption ==
    /\ Size \in Nat \ {0}
    /\ CountRange \in Nat \ {0}
    /\ IsFiniteSet(Bufs)
    /\ IsFiniteSet(Handles)
    /\ Cardinality(Handles) < CountRange

VARIABLES
    refs,    \* Inner::ref_counts
    free,    \* Inner::free
    views    \* every handle's kind and range, or NoView

vars == <<refs, free, views>>

View(kind, index, off, len) ==
    [kind |-> kind, index |-> index, off |-> off, len |-> len]
NoView == [kind |-> "none"]
ViewSet == [kind : {"BufMut", "Buf"}, index : Bufs, off : 0 .. Size, len : 0 .. Size]

Live(h) == views[h] # NoView

\* Every variable has its type, and no handle reaches beyond its buffer.
TypeOK ==
    /\ refs \in [Bufs -> -CountRange .. CountRange - 1]
    /\ free \in Seq(Bufs)
    /\ views \in [Handles -> ViewSet \cup {NoView}]
    /\ \A h \in Handles : Live(h) => views[h].off + views[h].len <= Size

\* initialize_allocator_with_num_bufs: every buffer is free, in some order.
Init ==
    /\ refs = [b \in Bufs |-> 0]
    /\ free \in [1 .. Cardinality(Bufs) -> Bufs]
    /\ \A b \in Bufs : \E k \in DOMAIN free : free[k] = b
    /\ views = [h \in Handles |-> NoView]

-----------------------------------------------------------------------------
\* i16 addition.
Add(n, d) == ((n + d + CountRange) % (2 * CountRange)) - CountRange

\* privatepool::inc.
inc(b) ==
    /\ refs' = [refs EXCEPT ![b] = Add(@, 1)]
    /\ UNCHANGED free

\* A dec that tests the count before it decrements it.
FreesEarly(b) ==
    /\ refs' = [refs EXCEPT ![b] = Add(@, -1)]
    /\ free' = IF refs[b] = 0 THEN Append(free, b) ELSE free

\* A dec that forgets the count.
ForgetsCount(b) ==
    /\ free' = IF refs[b] = 1 THEN Append(free, b) ELSE free
    /\ UNCHANGED refs

\* privatepool::dec.
dec(b) ==
    /\ refs' = [refs EXCEPT ![b] = Add(@, -1)]
    /\ free' = IF refs'[b] = 0 THEN Append(free, b) ELSE free

\* privatepool::alloc; it fails when no buffer is free.
alloc(h) ==
    /\ ~Live(h)
    /\ free # <<>>
    /\ refs' = [refs EXCEPT ![Head(free)] = Add(@, 1)]
    /\ free' = Tail(free)
    /\ views' = [views EXCEPT ![h] = View("BufMut", Head(free), 0, Size)]

\* Drop for BufMut and Buf.
drop(h) ==
    /\ Live(h)
    /\ dec(views[h].index)
    /\ views' = [views EXCEPT ![h] = NoView]

\* BufMut::freeze.
freeze(h) ==
    /\ Live(h)
    /\ views[h].kind = "BufMut"
    /\ views' = [views EXCEPT ![h] = View("Buf", @.index, @.off, @.len)]
    /\ UNCHANGED <<refs, free>>

\* BufMut::freeze_slice: another handle on a part of the same buffer.
freeze_slice(h, g, from, to) ==
    /\ Live(h)
    /\ views[h].kind = "BufMut"
    /\ ~Live(g)
    /\ from <= to
    /\ to <= views[h].len
    /\ views' = [views EXCEPT ![g] = View("Buf", views[h].index, views[h].off + from, to - from)]
    /\ UNCHANGED <<refs, free>>

\* A split_at whose right part starts where the whole one did.
OverlappingSplit(h, g, at) ==
    /\ Live(h)
    /\ ~Live(g)
    /\ at <= views[h].len
    /\ inc(views[h].index)
    /\ LET v == views[h] IN
       views' = [views EXCEPT ![h] = View(v.kind, v.index, v.off, at),
                              ![g] = View(v.kind, v.index, v.off, v.len - at)]

\* A skip that keeps the length.
LongSkip(h, n) ==
    /\ Live(h)
    /\ views[h].kind = "BufMut"
    /\ n <= views[h].len
    /\ views' = [views EXCEPT ![h] = View("BufMut", @.index, @.off + n, @.len)]
    /\ UNCHANGED <<refs, free>>

\* BufMut::split_at and Buf::split_at: h becomes the left part, g the right.
split_at(h, g, at) ==
    /\ Live(h)
    /\ ~Live(g)
    /\ at <= views[h].len
    /\ inc(views[h].index)
    /\ LET v == views[h] IN
       views' = [views EXCEPT ![h] = View(v.kind, v.index, v.off, at),
                              ![g] = View(v.kind, v.index, v.off + at, v.len - at)]

\* BufMut::skip.
skip(h, n) ==
    /\ Live(h)
    /\ views[h].kind = "BufMut"
    /\ n <= views[h].len
    /\ views' = [views EXCEPT ![h] = View("BufMut", @.index, @.off + n, @.len - n)]
    /\ UNCHANGED <<refs, free>>

\* Buf::slice.
slice(h, from, to) ==
    /\ Live(h)
    /\ views[h].kind = "Buf"
    /\ from <= to
    /\ to <= views[h].len
    /\ views' = [views EXCEPT ![h] = View("Buf", @.index, @.off + from, to - from)]
    /\ UNCHANGED <<refs, free>>

\* Clone for Buf.
clone(h, g) ==
    /\ Live(h)
    /\ views[h].kind = "Buf"
    /\ ~Live(g)
    /\ inc(views[h].index)
    /\ views' = [views EXCEPT ![g] = views[h]]

Next ==
    \E h \in Handles :
        \/ alloc(h)
        \/ drop(h)
        \/ freeze(h)
        \/ \E n \in 0 .. Size : skip(h, n)
        \/ \E from, to \in 0 .. Size : slice(h, from, to)
        \/ \E g \in Handles : clone(h, g)
        \/ \E g \in Handles, at \in 0 .. Size : split_at(h, g, at)

\* The public operations of BufMut and Buf.
Spec == Init /\ [][Next]_vars

\* The crate's own freeze_slice as well, that RollMut::filled is made of.
SliceNext ==
    \/ Next
    \/ \E h, g \in Handles, from, to \in 0 .. Size : freeze_slice(h, g, from, to)

SliceSpec == Init /\ [][SliceNext]_vars

-----------------------------------------------------------------------------
Holders(b) == {h \in Handles : Live(h) /\ views[h].index = b}
Bytes(h) == views[h].off .. views[h].off + views[h].len - 1

\* The count of a buffer is the number of handles on it, through every order
\* of allocations, splits, clones and drops.
RefCountsExact == \A b \in Bufs : refs[b] = Cardinality(Holders(b))

\* The free list has every buffer that no handle is on, once: alloc never
\* gives out a buffer that is in use, and no buffer is lost to the pool.
FreeListExact ==
    /\ \A b \in Bufs : Holders(b) = {} <=> \E k \in DOMAIN free : free[k] = b
    /\ \A i, j \in DOMAIN free : free[i] = free[j] => i = j

\* "A mutable buffer. Cannot be cloned, but can be written to": no byte that a
\* BufMut may write belongs to another handle.
WritesAreExclusive ==
    \A h, g \in Handles :
        /\ h # g
        /\ Live(h) /\ Live(g)
        /\ views[h].index = views[g].index
        /\ views[h].kind = "BufMut"
        => Bytes(h) \cap Bytes(g) = {}

\* "If the reference count reaches zero, the buffer is freed": a buffer in the
\* free list has no handle on it.
FreeIsUnused == \A k \in DOMAIN free : Holders(free[k]) = {}
=============================================================================
