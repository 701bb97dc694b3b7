------------------------------ MODULE RollMut -------------------------------
(***************************************************************************)
(* The rolling buffer of buffet/src/roll.rs: one RollMut, the Rolls taken  *)
(* from it and the reads that fill it.                                     *)
(*                                                                         *)
(* The bytes put into the buffer are numbered 1, 2, 3...: "taken" of them  *)
(* have been consumed from its front, "total" have been put.  Storage is   *)
(* a pool buffer (BufSize bytes) or a box (more), and lives while the      *)
(* RollMut or a Roll is on it: that is the promise of BufPool and of Rc.   *)
(***************************************************************************)
EXTENDS Integers, Sequences, FiniteSets

CONSTANTS
    BufSize,    \* BUF_SIZE
    Stores,     \* names for the storages that are in use at a time: 1 .. n
    Rolls,      \* names for the Rolls that are alive at a time
    MaxSize,    \* bound: no storage grows beyond this
    MaxBytes    \* bound: bytes put in a behaviour

ASSUME RollAssumption ==
    /\ BufSize \in Nat \ {0}
    /\ MaxSize \in Nat /\ MaxBytes \in Nat
    /\ IsFiniteSet(Stores) /\ IsFiniteSet(Rolls)
    /\ 1 \in Stores /\ 0 \notin Stores
    /\ Cardinality(Stores) > Cardinality(Rolls) + 1

VARIABLES
    mem,       \* the bytes of every storage, <<>> for one that nothing is on
    rm,        \* the RollMut: its storage, the storage's offset and its len
    rolls,     \* the Rolls: storage, offset, len and the number of the first byte
    reading,   \* the capacity of the read in flight, or 0
    taken, total

vars == <<mem, rm, rolls, reading, taken, total>>

NoRoll == [store |-> 0, off |-> 0, len |-> 0, first |-> 0]
RollAt(s, off, len, first) == [store |-> s, off |-> off, len |-> len, first |-> first]
Lengths == 0 .. MaxSize

Read(s, off, len) == SubSeq(mem[s], off + 1, off + len)
Numbers(first, len) == [i \in 1 .. len |-> first + i - 1]

\* RollMut::storage_size and RollMut::cap of a buffer r in memory m.
StorageSize(m, r) == Len(m[r.store])
CapOf(m, r) == StorageSize(m, r) - r.off - r.len
Cap == CapOf(mem, rm)

Blank(size) == [i \in 1 .. size |-> 0]

\* RollMut::alloc.
Init ==
    /\ rm = [store |-> 1, off |-> 0, len |-> 0]
    /\ mem = [s \in Stores |-> IF s = 1 THEN Blank(BufSize) ELSE <<>>]
    /\ rolls = [r \in Rolls |-> NoRoll]
    /\ reading = 0
    /\ taken = 0 /\ total = 0
-----------------------------------------------------------------------------
\* Storage that is not in use.
Fresh == CHOOSE s \in Stores : mem[s] = <<>>

\* Storage that nothing is on any more is given back.
Collected(m, r, rs) ==
    [s \in Stores |-> IF s = r.store \/ \E h \in Rolls : rs[h] # NoRoll /\ rs[h].store = s
                      THEN m[s] ELSE <<>>]

\* The memory with "bytes" written at offset "off" of storage s.
Written(m, s, off, bytes) ==
    [m EXCEPT ![s] = [i \in 1 .. Len(@) |->
        IF i \in off + 1 .. off + Len(bytes) THEN bytes[i - off] ELSE @[i]]]

larger(a, b) == IF a > b THEN a ELSE b
smaller(a, b) == IF a < b THEN a ELSE b

\* A copy that forgets the offset of the old storage.
CopiesFromStart(size) ==
    LET bytes == Read(rm.store, 0, rm.len) \o Blank(size - rm.len)
    IN  [mem |-> [mem EXCEPT ![Fresh] = bytes],
         rm  |-> [store |-> Fresh, off |-> 0, len |-> rm.len]]

\* The buffer, its filled part copied to the start of new storage.
Moved(size) ==
    LET bytes == Read(rm.store, rm.off, rm.len) \o Blank(size - rm.len)
    IN  [mem |-> [mem EXCEPT ![Fresh] = bytes],
         rm  |-> [store |-> Fresh, off |-> 0, len |-> rm.len]]
Same == [mem |-> mem, rm |-> rm]

IsBox == StorageSize(mem, rm) # BufSize

\* A compact that takes storage of just the size it needs.
ShrinksToFit == Moved(larger(BufSize, rm.len))

\* RollMut::compact: a box that holds no more than a pool buffer can becomes one.
compact == Moved(IF IsBox /\ rm.len > BufSize THEN StorageSize(mem, rm) ELSE BufSize)

\* RollMut::grow.
grow == Moved(2 * StorageSize(mem, rm))

\* A test that forgets the filled part.
ForgetsLen(n) == n <= BufSize

\* BUF_SIZE - len, compared as usize: a difference below zero wraps around and
\* is larger than any length (a build with overflow checks panics instead).
FitsOnceCompacted(n) == rm.len > BufSize \/ n <= BufSize - rm.len

\* What RollMut::reserve_at_least(n) makes of the buffer.
Reserved(n) ==
    IF n <= Cap THEN Same
    ELSE IF rm.off > 0 /\ FitsOnceCompacted(n) THEN compact
    ELSE Moved(larger(2 * StorageSize(mem, rm), n + rm.len))

Bounded(h) == StorageSize(h.mem, h.rm) <= MaxSize
Idle == reading = 0

\* RollMut::reserve.
reserve ==
    /\ Idle
    /\ rm.len >= Cap
    /\ LET h == IF rm.off > 0 THEN compact ELSE grow IN
       /\ Bounded(h)
       /\ rm' = h.rm
       /\ mem' = Collected(h.mem, h.rm, rolls)
    /\ UNCHANGED <<rolls, reading, taken, total>>

\* RollMut::reserve_at_least.
reserve_at_least(n) ==
    /\ Idle
    /\ n > Cap
    /\ Bounded(Reserved(n))
    /\ rm' = Reserved(n).rm
    /\ mem' = Collected(Reserved(n).mem, rm', rolls)
    /\ UNCHANGED <<rolls, reading, taken, total>>

\* The next n bytes of the stream.
Upcoming(n) == Numbers(total + 1, n)

\* RollMut::put and RollMut::put_with; a slice that does not fit is refused,
\* and a closure that fails leaves what it wrote beyond len.
put(n) ==
    /\ Idle
    /\ n <= Cap /\ total + n <= MaxBytes
    /\ mem' = Written(mem, rm.store, rm.off + rm.len, Upcoming(n))
    /\ rm' = [rm EXCEPT !.len = @ + n]
    /\ total' = total + n
    /\ UNCHANGED <<rolls, reading, taken>>

put_with_fails(n) ==
    /\ Idle
    /\ n <= Cap
    /\ mem' = Written(mem, rm.store, rm.off + rm.len, Blank(n))
    /\ UNCHANGED <<rm, rolls, reading, taken, total>>

\* Write::write: reserve_at_least, then put, which may still refuse.
write(n) ==
    /\ Idle
    /\ total + n <= MaxBytes
    /\ LET h == Reserved(n)
           fits == n <= CapOf(h.mem, h.rm)
       IN  /\ Bounded(h)
           /\ rm' = [h.rm EXCEPT !.len = IF fits THEN @ + n ELSE @]
           /\ mem' = Collected(IF fits THEN Written(h.mem, h.rm.store, h.rm.off + h.rm.len, Upcoming(n))
                                       ELSE h.mem, h.rm, rolls)
           /\ total' = IF fits THEN total + n ELSE total
    /\ UNCHANGED <<rolls, reading, taken>>

\* RollMut::put_to_roll: the bytes become a Roll and never part of the filled
\* portion.
put_to_roll(n, r) ==
    /\ Idle
    /\ rm.len = 0
    /\ rolls[r] = NoRoll
    /\ total + n <= MaxBytes
    /\ LET h == Reserved(n) IN
       /\ Bounded(h)
       /\ rm' = [h.rm EXCEPT !.off = @ + n]
       /\ rolls' = [rolls EXCEPT ![r] = RollAt(h.rm.store, h.rm.off, n, total + 1)]
       /\ mem' = Collected(Written(h.mem, h.rm.store, h.rm.off, Upcoming(n)), h.rm, rolls)
    /\ total' = total + n
    /\ taken' = taken + n
    /\ UNCHANGED reading

\* RollMut::filled.
filled(r) ==
    /\ Idle
    /\ rolls[r] = NoRoll
    /\ rolls' = [rolls EXCEPT ![r] = RollAt(rm.store, rm.off, rm.len, taken + 1)]
    /\ UNCHANGED <<mem, rm, reading, taken, total>>

\* RollMut::skip.
skip(n) ==
    /\ Idle
    /\ n <= rm.len
    /\ rm' = [rm EXCEPT !.off = @ + n, !.len = @ - n]
    /\ taken' = taken + n
    /\ UNCHANGED <<mem, rolls, reading, total>>

\* RollMut::take_at_most and RollMut::take_all.
take_at_most(n, r) ==
    /\ Idle
    /\ n > 0 /\ rm.len > 0
    /\ rolls[r] = NoRoll
    /\ LET k == smaller(n, rm.len) IN
       /\ rolls' = [rolls EXCEPT ![r] = RollAt(rm.store, rm.off, k, taken + 1)]
       /\ rm' = [rm EXCEPT !.off = @ + k, !.len = @ - k]
       /\ taken' = taken + k
    /\ UNCHANGED <<mem, reading, total>>

\* RollMut::keep, which consumes the Roll.
keep(r) ==
    /\ Idle
    /\ rolls[r] # NoRoll
    /\ rolls[r].store = rm.store /\ rolls[r].off >= rm.off
    /\ LET skipped == rolls[r].off - rm.off IN
       /\ rm' = [rm EXCEPT !.off = rolls[r].off, !.len = @ - skipped]
       /\ taken' = taken + skipped
    /\ rolls' = [rolls EXCEPT ![r] = NoRoll]
    /\ UNCHANGED <<mem, reading, total>>

\* Roll::slice.
slice(r, from, to) ==
    /\ rolls[r] # NoRoll
    /\ from <= to /\ to <= rolls[r].len
    /\ rolls' = [rolls EXCEPT ![r] = RollAt(@.store, @.off + from, to - from, @.first + from)]
    /\ UNCHANGED <<mem, rm, reading, taken, total>>

\* Roll::split_at.
split_at(r, q, at) ==
    /\ rolls[r] # NoRoll /\ rolls[q] = NoRoll
    /\ at <= rolls[r].len
    /\ LET v == rolls[r] IN
       rolls' = [rolls EXCEPT ![r] = RollAt(v.store, v.off, at, v.first),
                              ![q] = RollAt(v.store, v.off + at, v.len - at, v.first + at)]
    /\ UNCHANGED <<mem, rm, reading, taken, total>>

\* A Roll is dropped.
drop(r) ==
    /\ rolls[r] # NoRoll
    /\ rolls' = [rolls EXCEPT ![r] = NoRoll]
    /\ mem' = Collected(mem, rm, rolls')
    /\ UNCHANGED <<rm, reading, taken, total>>

\* RollMut::read_into: the buffer is the kernel's until the read completes,
\* with some bytes, with none, or with an error.
read_into(limit) ==
    /\ Idle
    /\ smaller(limit, Cap) > 0
    /\ reading' = smaller(limit, Cap)
    /\ UNCHANGED <<mem, rm, rolls, taken, total>>

\* A completion that lands where the filled part starts.
LandsInFront(n) ==
    /\ reading > 0
    /\ n <= reading /\ total + n <= MaxBytes
    /\ mem' = Written(mem, rm.store, rm.off, Upcoming(n))
    /\ rm' = [rm EXCEPT !.len = @ + n]
    /\ total' = total + n
    /\ reading' = 0
    /\ UNCHANGED <<rolls, taken>>

ReadCompletes(n) ==
    /\ reading > 0
    /\ n <= reading /\ total + n <= MaxBytes
    /\ mem' = Written(mem, rm.store, rm.off + rm.len, Upcoming(n))
    /\ rm' = [rm EXCEPT !.len = @ + n]
    /\ total' = total + n
    /\ reading' = 0
    /\ UNCHANGED <<rolls, taken>>

Next ==
    \/ reserve
    \/ \E n \in Lengths :
         \/ reserve_at_least(n)
         \/ put(n)
         \/ put_with_fails(n)
         \/ write(n)
         \/ skip(n)
         \/ read_into(n)
         \/ ReadCompletes(n)
    \/ \E r \in Rolls :
         \/ filled(r)
         \/ keep(r)
         \/ drop(r)
         \/ \E n \in Lengths : put_to_roll(n, r) \/ take_at_most(n, r)
         \/ \E from, to \in Lengths : slice(r, from, to)
         \/ \E q \in Rolls, at \in Lengths : split_at(r, q, at)

Spec == Init /\ [][Next]_vars
-----------------------------------------------------------------------------
\* The filled part is the bytes put and not yet consumed, in order: no move
\* between storages, no skip and no partial read loses, repeats or reorders one.
FilledIsStream == Read(rm.store, rm.off, rm.len) = Numbers(taken + 1, total - taken)

\* A Roll reads the bytes it was taken for as long as it lives, whatever is
\* put, read or moved meanwhile ("Must only be used if you can guarantee this
\* portion won't be written to anymore", the contract of freeze_slice).
RollsAreStable ==
    \A r \in Rolls : rolls[r] # NoRoll =>
        Read(rolls[r].store, rolls[r].off, rolls[r].len) = Numbers(rolls[r].first, rolls[r].len)

\* reserve makes room ("Reserve more capacity for this buffer if this buffer is
\* full"), except in a box whose filled part is exactly as long as a pool
\* buffer: that one is compacted into a buffer with no room left.
RoomUnlessBufSize ==
    [][reserve => Cap' > 0 \/ (IsBox /\ rm.len = BufSize)]_vars

\* reserve_at_least makes the room that was asked for, as long as the filled
\* part is no longer than a pool buffer.
RequestedRoomUpToBufSize ==
    [][\A n \in Lengths : reserve_at_least(n) /\ rm.len <= BufSize => Cap' >= n]_vars
=============================================================================
