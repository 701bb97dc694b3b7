----------------------------- MODULE HpackProofs -----------------------------
(***************************************************************************)
(* HPACK: an encoder and a decoder that talk over a link stay in step, and *)
(* what was encoded is what is decoded.                                    *)
(*                                                                         *)
(* The argument, from the data up:                                         *)
(*   - the dynamic table: add_header and set_max_table_size both leave     *)
(*     the longest beginning of the entries that fits (Fitting), and the   *)
(*     beginning that fits one limit is a beginning of the one that fits   *)
(*     a larger limit;                                                     *)
(*   - integers and Huffman-coded strings: decoding undoes encoding;       *)
(*   - one representation: a decoder whose table begins with the           *)
(*     encoder's takes the field that was meant, and the tables are again  *)
(*     related; then a block, field by field;                              *)
(*   - a malformed block is refused by a decoder with the same table;      *)
(*   - the link: LinkInv says that the blocks in flight lead from the      *)
(*     decoder's table to one that begins with the encoder's.  Without     *)
(*     the blocks in flight it would not be inductive: the encoder is      *)
(*     ahead of the decoder by what has not been read.                     *)
(*                                                                         *)
(* What holds for every integer, string, table or block is proved by       *)
(* induction, from the well-foundedness of < on Nat (LeastNatural, UpTo    *)
(* and BySnoc).  Every use of Reduce is unrolled by a lemma of its own,    *)
(* since a lemma about Reduce would take its operator as a parameter.      *)
(***************************************************************************)
EXTENDS HpackLink, WellFoundedInduction, TLAPS

-----------------------------------------------------------------------------
(* Induction, from the fact that < is well-founded on Nat.                 *)

\* A set of naturals that is not empty has a least element.
LEMMA LeastNatural ==
    ASSUME NEW T \in SUBSET Nat, T # {}
    PROVE  \E x \in T : \A y \in T : x <= y
<1> DEFINE R == {ss \in Nat \X Nat : ss[1] < ss[2]}
<1>1. IsWellFoundedOn(R, Nat)
    BY NatLessThanWellFounded DEF OpToRel
<1>2. PICK x \in T : \A y \in T : ~(<<y, x>> \in R)
    <2> HIDE DEF R
    <2> QED BY Zenon, <1>1, WFMin
<1>3. ASSUME NEW y \in T PROVE x <= y
    <2>1. x \in Nat /\ y \in Nat
        OBVIOUS
    <2>2. y < x => <<y, x>> \in R
        BY <2>1
    <2> QED BY <1>2, <2>1, <2>2
<1> QED BY Zenon, <1>3

\* A bounded one has a greatest element.
LEMMA GreatestUpTo ==
    ASSUME NEW n \in Nat, NEW T \in SUBSET (0 .. n), T # {}
    PROVE  \E x \in T : \A y \in T : y <= x
<1> DEFINE U == {k \in 0 .. n : n - k \in T}
<1>1. PICK y \in T : TRUE
    BY Zenon
<1>2. n - y \in U
    BY <1>1
<1>3. U \in SUBSET Nat
    OBVIOUS
<1>4. PICK x \in U : \A z \in U : x <= z
    <2> HIDE DEF U
    <2> QED BY Zenon, <1>2, <1>3, LeastNatural
<1>5. ASSUME NEW z \in T PROVE z <= n - x
    <2>1. n - z \in U
        OBVIOUS
    <2>2. x <= n - z
        BY Zenon, <1>4, <2>1
    <2> QED BY <2>2
<1>6. n - x \in T
    BY <1>4
<1> QED BY Zenon, <1>5, <1>6

\* What holds at 0, and at i when it holds at i - 1, holds up to n.
LEMMA UpTo ==
    ASSUME NEW n \in Nat, NEW T, 0 \in T,
           \A i \in 1 .. n : i - 1 \in T => i \in T
    PROVE  \A i \in 0 .. n : i \in T
<1> DEFINE F == {i \in 0 .. n : i \notin T}
<1>1. CASE F = {}
    BY <1>1
<1>2. CASE F # {}
    <2>1. F \in SUBSET Nat
        OBVIOUS
    <2>2. PICK x \in F : \A y \in F : x <= y
        <3> HIDE DEF F
        <3> QED BY Zenon, <1>2, <2>1, LeastNatural
    <2>3. x \in 1 .. n /\ x - 1 \in 0 .. n /\ x - 1 \notin F
        BY <2>2
    <2> QED BY <2>2, <2>3
<1> QED BY <1>1, <1>2

\* A sequence of which all beginnings are known to have a property by way of
\* the shorter ones.
LEMMA BySnoc ==
    ASSUME NEW S, NEW T, <<>> \in T,
           \A s \in Seq(S), x \in S : s \in T => Append(s, x) \in T
    PROVE  \A s \in Seq(S) : s \in T
<1> SUFFICES ASSUME NEW s \in Seq(S) PROVE s \in T
    OBVIOUS
<1> DEFINE U == {k \in 0 .. Len(s) : SubSeq(s, 1, k) \in T}
<1>1. Len(s) \in Nat
    OBVIOUS
<1>2. 0 \in U
    <2>1. SubSeq(s, 1, 0) = <<>> /\ 0 \in 0 .. Len(s)
        OBVIOUS
    <2> QED BY Zenon, <2>1
<1>3. ASSUME NEW k \in 1 .. Len(s), k - 1 \in U PROVE k \in U
    <2>1. /\ SubSeq(s, 1, k - 1) \in Seq(S) /\ s[k] \in S /\ k \in 0 .. Len(s)
          /\ SubSeq(s, 1, k) = Append(SubSeq(s, 1, k - 1), s[k])
        OBVIOUS
    <2>2. SubSeq(s, 1, k - 1) \in T
        BY Zenon, <1>3
    <2> QED BY Zenon, <2>1, <2>2
<1>4. \A k \in 0 .. Len(s) : k \in U
    <2> HIDE DEF U
    <2> QED BY Zenon, <1>1, <1>2, <1>3, UpTo
<1>5. Len(s) \in 0 .. Len(s) /\ SubSeq(s, 1, Len(s)) = s
    OBVIOUS
<1> QED BY Zenon, <1>4, <1>5

-----------------------------------------------------------------------------
(* The folds of the model, element by element.                             *)

\* The longer beginning of a sequence is the shorter one with an element more.
LEMMA PrefixSnoc ==
    ASSUME NEW S, NEW t \in Seq(S), NEW k \in 1 .. Len(t)
    PROVE  /\ SubSeq(t, 1, k) = Append(SubSeq(t, 1, k - 1), t[k])
           /\ SubSeq(t, 1, k - 1) \in Seq(S) /\ t[k] \in S
OBVIOUS

\* The size of a table.
LEMMA SumOf ==
    ASSUME NEW S
    PROVE  /\ Sum(<<>>) = 0
           /\ \A s \in Seq(S), x \in S :
                 Sum(Append(s, x)) = Sum(s) + SizeOf(x)
<1> DEFINE b == 0
           Step(acc, y) == acc + SizeOf(y)
           Folds(g, n, u) == g = [k \in 0 .. n |-> IF k = 0 THEN b ELSE Step(g[k - 1], u[k])]
           after(u) == CHOOSE g : Folds(g, Len(u), u)
<1>1. \A u : Sum(u) = after(u)[Len(u)]
    BY Zenon DEF Sum, Reduce
<1> HIDE DEF b, Step
<1>2. ASSUME NEW n \in Nat, NEW u PROVE \E g : Folds(g, n, u)
    <2> DEFINE T == {k \in 0 .. n : \E g : Folds(g, k, u)}
    <2>1. 0 \in T
        <3>1. Folds([k \in 0 .. 0 |-> b], 0, u) /\ 0 \in 0 .. n
            OBVIOUS
        <3> HIDE DEF Folds
        <3> QED BY Zenon, <3>1
    <2>2. ASSUME NEW k \in 1 .. n, k - 1 \in T PROVE k \in T
        <3>1. PICK g : Folds(g, k - 1, u)
            BY Zenon, <2>2
        <3>2. Folds([j \in 0 .. k |-> IF j = k THEN Step(g[k - 1], u[k]) ELSE g[j]], k, u)
            BY <3>1
        <3>3. k \in 0 .. n
            OBVIOUS
        <3> HIDE DEF Folds
        <3> QED BY Zenon, <3>2, <3>3
    <2>3. n \in 0 .. n
        OBVIOUS
    <2>4. n \in T
        <3> HIDE DEF T
        <3> QED BY Zenon, <2>1, <2>2, <2>3, UpTo
    <2> QED BY Zenon, <2>4
<1>3. ASSUME NEW u, Len(u) \in Nat PROVE Folds(after(u), Len(u), u)
    <2> HIDE DEF Folds
    <2> QED BY Zenon, <1>2, <1>3
<1>4. Sum(<<>>) = b
    <2>1. Len(<<>>) = 0
        OBVIOUS
    <2>2. Folds(after(<<>>), 0, <<>>)
        <3> HIDE DEF Folds, after
        <3> QED BY Zenon, <1>3, <2>1
    <2> HIDE DEF after
    <2> QED BY <1>1, <2>1, <2>2
<1>5. ASSUME NEW s \in Seq(S), NEW x \in S
      PROVE  Sum(Append(s, x)) = Step(Sum(s), x)
    <2>1. Len(s) \in Nat /\ Len(s) + 1 \in Nat /\ Len(Append(s, x)) = Len(s) + 1
        OBVIOUS
    <2>2. /\ Folds(after(s), Len(s), s)
          /\ Folds(after(Append(s, x)), Len(s) + 1, Append(s, x))
        <3> HIDE DEF Folds, after
        <3> QED BY Zenon, <1>3, <2>1
    <2> HIDE DEF after
    <2> DEFINE T == {k \in 0 .. Len(s) : after(Append(s, x))[k] = after(s)[k]}
    <2>3. 0 \in T
        BY <2>2
    <2>4. ASSUME NEW k \in 1 .. Len(s), k - 1 \in T PROVE k \in T
        <3>1. k \in 0 .. Len(s) /\ k \in 0 .. Len(s) + 1 /\ k # 0 /\ Append(s, x)[k] = s[k]
            OBVIOUS
        <3>2. /\ after(s)[k] = Step(after(s)[k - 1], s[k])
              /\ after(Append(s, x))[k] = Step(after(Append(s, x))[k - 1], Append(s, x)[k])
            BY Zenon, <2>2, <3>1
        <3> QED BY Zenon, <2>4, <3>1, <3>2
    <2>5. \A k \in 0 .. Len(s) : k \in T
        <3> HIDE DEF T
        <3> QED BY Zenon, <2>1, <2>3, <2>4, UpTo
    <2> QED BY <1>1, <2>1, <2>2, <2>5
<1> QED BY Zenon, <1>4, <1>5 DEF b, Step

\* The value of digits of an integer, the most significant one first.
ValueOf(digits) == Reduce(LAMBDA acc, b : (b % Base) + Base * acc, 0, digits)

\* The value of digits.
LEMMA ValueOfOf ==
    ASSUME NEW S
    PROVE  /\ ValueOf(<<>>) = 0
           /\ \A s \in Seq(S), x \in S :
                 ValueOf(Append(s, x)) = (x % Base) + Base * ValueOf(s)
<1> DEFINE b == 0
           Step(acc, y) == (y % Base) + Base * acc
           Folds(g, n, u) == g = [k \in 0 .. n |-> IF k = 0 THEN b ELSE Step(g[k - 1], u[k])]
           after(u) == CHOOSE g : Folds(g, Len(u), u)
<1>1. \A u : ValueOf(u) = after(u)[Len(u)]
    BY Zenon DEF ValueOf, Reduce
<1> HIDE DEF b, Step
<1>2. ASSUME NEW n \in Nat, NEW u PROVE \E g : Folds(g, n, u)
    <2> DEFINE T == {k \in 0 .. n : \E g : Folds(g, k, u)}
    <2>1. 0 \in T
        <3>1. Folds([k \in 0 .. 0 |-> b], 0, u) /\ 0 \in 0 .. n
            OBVIOUS
        <3> HIDE DEF Folds
        <3> QED BY Zenon, <3>1
    <2>2. ASSUME NEW k \in 1 .. n, k - 1 \in T PROVE k \in T
        <3>1. PICK g : Folds(g, k - 1, u)
            BY Zenon, <2>2
        <3>2. Folds([j \in 0 .. k |-> IF j = k THEN Step(g[k - 1], u[k]) ELSE g[j]], k, u)
            BY <3>1
        <3>3. k \in 0 .. n
            OBVIOUS
        <3> HIDE DEF Folds
        <3> QED BY Zenon, <3>2, <3>3
    <2>3. n \in 0 .. n
        OBVIOUS
    <2>4. n \in T
        <3> HIDE DEF T
        <3> QED BY Zenon, <2>1, <2>2, <2>3, UpTo
    <2> QED BY Zenon, <2>4
<1>3. ASSUME NEW u, Len(u) \in Nat PROVE Folds(after(u), Len(u), u)
    <2> HIDE DEF Folds
    <2> QED BY Zenon, <1>2, <1>3
<1>4. ValueOf(<<>>) = b
    <2>1. Len(<<>>) = 0
        OBVIOUS
    <2>2. Folds(after(<<>>), 0, <<>>)
        <3> HIDE DEF Folds, after
        <3> QED BY Zenon, <1>3, <2>1
    <2> HIDE DEF after
    <2> QED BY <1>1, <2>1, <2>2
<1>5. ASSUME NEW s \in Seq(S), NEW x \in S
      PROVE  ValueOf(Append(s, x)) = Step(ValueOf(s), x)
    <2>1. Len(s) \in Nat /\ Len(s) + 1 \in Nat /\ Len(Append(s, x)) = Len(s) + 1
        OBVIOUS
    <2>2. /\ Folds(after(s), Len(s), s)
          /\ Folds(after(Append(s, x)), Len(s) + 1, Append(s, x))
        <3> HIDE DEF Folds, after
        <3> QED BY Zenon, <1>3, <2>1
    <2> HIDE DEF after
    <2> DEFINE T == {k \in 0 .. Len(s) : after(Append(s, x))[k] = after(s)[k]}
    <2>3. 0 \in T
        BY <2>2
    <2>4. ASSUME NEW k \in 1 .. Len(s), k - 1 \in T PROVE k \in T
        <3>1. k \in 0 .. Len(s) /\ k \in 0 .. Len(s) + 1 /\ k # 0 /\ Append(s, x)[k] = s[k]
            OBVIOUS
        <3>2. /\ after(s)[k] = Step(after(s)[k - 1], s[k])
              /\ after(Append(s, x))[k] = Step(after(Append(s, x))[k - 1], Append(s, x)[k])
            BY Zenon, <2>2, <3>1
        <3> QED BY Zenon, <2>4, <3>1, <3>2
    <2>5. \A k \in 0 .. Len(s) : k \in T
        <3> HIDE DEF T
        <3> QED BY Zenon, <2>1, <2>3, <2>4, UpTo
    <2> QED BY <1>1, <2>1, <2>2, <2>5
<1> QED BY Zenon, <1>4, <1>5 DEF b, Step

\* The codes of the symbols of a string, one after the other.
CodesOf(string) == Reduce(LAMBDA acc, c : acc \o HUFFMAN_CODE_TABLE[c], <<>>, string)

\* The codes of a string.
LEMMA CodesOfOf ==
    ASSUME NEW S
    PROVE  /\ CodesOf(<<>>) = <<>>
           /\ \A s \in Seq(S), x \in S :
                 CodesOf(Append(s, x)) = CodesOf(s) \o HUFFMAN_CODE_TABLE[x]
<1> DEFINE b == <<>>
           Step(acc, y) == acc \o HUFFMAN_CODE_TABLE[y]
           Folds(g, n, u) == g = [k \in 0 .. n |-> IF k = 0 THEN b ELSE Step(g[k - 1], u[k])]
           after(u) == CHOOSE g : Folds(g, Len(u), u)
<1>1. \A u : CodesOf(u) = after(u)[Len(u)]
    BY Zenon DEF CodesOf, Reduce
<1> HIDE DEF b, Step
<1>2. ASSUME NEW n \in Nat, NEW u PROVE \E g : Folds(g, n, u)
    <2> DEFINE T == {k \in 0 .. n : \E g : Folds(g, k, u)}
    <2>1. 0 \in T
        <3>1. Folds([k \in 0 .. 0 |-> b], 0, u) /\ 0 \in 0 .. n
            OBVIOUS
        <3> HIDE DEF Folds
        <3> QED BY Zenon, <3>1
    <2>2. ASSUME NEW k \in 1 .. n, k - 1 \in T PROVE k \in T
        <3>1. PICK g : Folds(g, k - 1, u)
            BY Zenon, <2>2
        <3>2. Folds([j \in 0 .. k |-> IF j = k THEN Step(g[k - 1], u[k]) ELSE g[j]], k, u)
            BY <3>1
        <3>3. k \in 0 .. n
            OBVIOUS
        <3> HIDE DEF Folds
        <3> QED BY Zenon, <3>2, <3>3
    <2>3. n \in 0 .. n
        OBVIOUS
    <2>4. n \in T
        <3> HIDE DEF T
        <3> QED BY Zenon, <2>1, <2>2, <2>3, UpTo
    <2> QED BY Zenon, <2>4
<1>3. ASSUME NEW u, Len(u) \in Nat PROVE Folds(after(u), Len(u), u)
    <2> HIDE DEF Folds
    <2> QED BY Zenon, <1>2, <1>3
<1>4. CodesOf(<<>>) = b
    <2>1. Len(<<>>) = 0
        OBVIOUS
    <2>2. Folds(after(<<>>), 0, <<>>)
        <3> HIDE DEF Folds, after
        <3> QED BY Zenon, <1>3, <2>1
    <2> HIDE DEF after
    <2> QED BY <1>1, <2>1, <2>2
<1>5. ASSUME NEW s \in Seq(S), NEW x \in S
      PROVE  CodesOf(Append(s, x)) = Step(CodesOf(s), x)
    <2>1. Len(s) \in Nat /\ Len(s) + 1 \in Nat /\ Len(Append(s, x)) = Len(s) + 1
        OBVIOUS
    <2>2. /\ Folds(after(s), Len(s), s)
          /\ Folds(after(Append(s, x)), Len(s) + 1, Append(s, x))
        <3> HIDE DEF Folds, after
        <3> QED BY Zenon, <1>3, <2>1
    <2> HIDE DEF after
    <2> DEFINE T == {k \in 0 .. Len(s) : after(Append(s, x))[k] = after(s)[k]}
    <2>3. 0 \in T
        BY <2>2
    <2>4. ASSUME NEW k \in 1 .. Len(s), k - 1 \in T PROVE k \in T
        <3>1. k \in 0 .. Len(s) /\ k \in 0 .. Len(s) + 1 /\ k # 0 /\ Append(s, x)[k] = s[k]
            OBVIOUS
        <3>2. /\ after(s)[k] = Step(after(s)[k - 1], s[k])
              /\ after(Append(s, x))[k] = Step(after(Append(s, x))[k - 1], Append(s, x)[k])
            BY Zenon, <2>2, <3>1
        <3> QED BY Zenon, <2>4, <3>1, <3>2
    <2>5. \A k \in 0 .. Len(s) : k \in T
        <3> HIDE DEF T
        <3> QED BY Zenon, <2>1, <2>3, <2>4, UpTo
    <2> QED BY <1>1, <2>1, <2>2, <2>5
<1> QED BY Zenon, <1>4, <1>5 DEF b, Step

\* What the Huffman decoder starts from, and what it makes of some bits.
NoBits == [string |-> <<>>, current |-> <<>>, error |-> "none"]
BitsRead(bits) == Reduce(DecodeBit, NoBits, bits)

\* The bits of a string.
LEMMA BitsReadOf ==
    ASSUME NEW S
    PROVE  /\ BitsRead(<<>>) = NoBits
           /\ \A s \in Seq(S), x \in S :
                 BitsRead(Append(s, x)) = DecodeBit(BitsRead(s), x)
<1> DEFINE b == NoBits
           Step(acc, y) == DecodeBit(acc, y)
           Folds(g, n, u) == g = [k \in 0 .. n |-> IF k = 0 THEN b ELSE Step(g[k - 1], u[k])]
           after(u) == CHOOSE g : Folds(g, Len(u), u)
<1>1. \A u : BitsRead(u) = after(u)[Len(u)]
    BY Zenon DEF BitsRead, Reduce
<1> HIDE DEF b, Step
<1>2. ASSUME NEW n \in Nat, NEW u PROVE \E g : Folds(g, n, u)
    <2> DEFINE T == {k \in 0 .. n : \E g : Folds(g, k, u)}
    <2>1. 0 \in T
        <3>1. Folds([k \in 0 .. 0 |-> b], 0, u) /\ 0 \in 0 .. n
            OBVIOUS
        <3> HIDE DEF Folds
        <3> QED BY Zenon, <3>1
    <2>2. ASSUME NEW k \in 1 .. n, k - 1 \in T PROVE k \in T
        <3>1. PICK g : Folds(g, k - 1, u)
            BY Zenon, <2>2
        <3>2. Folds([j \in 0 .. k |-> IF j = k THEN Step(g[k - 1], u[k]) ELSE g[j]], k, u)
            BY <3>1
        <3>3. k \in 0 .. n
            OBVIOUS
        <3> HIDE DEF Folds
        <3> QED BY Zenon, <3>2, <3>3
    <2>3. n \in 0 .. n
        OBVIOUS
    <2>4. n \in T
        <3> HIDE DEF T
        <3> QED BY Zenon, <2>1, <2>2, <2>3, UpTo
    <2> QED BY Zenon, <2>4
<1>3. ASSUME NEW u, Len(u) \in Nat PROVE Folds(after(u), Len(u), u)
    <2> HIDE DEF Folds
    <2> QED BY Zenon, <1>2, <1>3
<1>4. BitsRead(<<>>) = b
    <2>1. Len(<<>>) = 0
        OBVIOUS
    <2>2. Folds(after(<<>>), 0, <<>>)
        <3> HIDE DEF Folds, after
        <3> QED BY Zenon, <1>3, <2>1
    <2> HIDE DEF after
    <2> QED BY <1>1, <2>1, <2>2
<1>5. ASSUME NEW s \in Seq(S), NEW x \in S
      PROVE  BitsRead(Append(s, x)) = Step(BitsRead(s), x)
    <2>1. Len(s) \in Nat /\ Len(s) + 1 \in Nat /\ Len(Append(s, x)) = Len(s) + 1
        OBVIOUS
    <2>2. /\ Folds(after(s), Len(s), s)
          /\ Folds(after(Append(s, x)), Len(s) + 1, Append(s, x))
        <3> HIDE DEF Folds, after
        <3> QED BY Zenon, <1>3, <2>1
    <2> HIDE DEF after
    <2> DEFINE T == {k \in 0 .. Len(s) : after(Append(s, x))[k] = after(s)[k]}
    <2>3. 0 \in T
        BY <2>2
    <2>4. ASSUME NEW k \in 1 .. Len(s), k - 1 \in T PROVE k \in T
        <3>1. k \in 0 .. Len(s) /\ k \in 0 .. Len(s) + 1 /\ k # 0 /\ Append(s, x)[k] = s[k]
            OBVIOUS
        <3>2. /\ after(s)[k] = Step(after(s)[k - 1], s[k])
              /\ after(Append(s, x))[k] = Step(after(Append(s, x))[k - 1], Append(s, x)[k])
            BY Zenon, <2>2, <3>1
        <3> QED BY Zenon, <2>4, <3>1, <3>2
    <2>5. \A k \in 0 .. Len(s) : k \in T
        <3> HIDE DEF T
        <3> QED BY Zenon, <2>1, <2>3, <2>4, UpTo
    <2> QED BY <1>1, <2>1, <2>2, <2>5
<1> QED BY Zenon, <1>4, <1>5 DEF b, Step

\* A field list.
LEMMA EncodeOf ==
    ASSUME NEW t, NEW S
    PROVE  /\ encode_into(t, <<>>) = [table |-> t, block |-> <<>>]
           /\ \A s \in Seq(S), x \in S :
                 encode_into(t, Append(s, x)) = encode_header_into(encode_into(t, s), x)
<1> DEFINE b == [table |-> t, block |-> <<>>]
           Step(acc, y) == encode_header_into(acc, y)
           Folds(g, n, u) == g = [k \in 0 .. n |-> IF k = 0 THEN b ELSE Step(g[k - 1], u[k])]
           after(u) == CHOOSE g : Folds(g, Len(u), u)
<1>1. \A u : encode_into(t, u) = after(u)[Len(u)]
    BY Zenon DEF encode_into, Reduce
<1> HIDE DEF b, Step
<1>2. ASSUME NEW n \in Nat, NEW u PROVE \E g : Folds(g, n, u)
    <2> DEFINE T == {k \in 0 .. n : \E g : Folds(g, k, u)}
    <2>1. 0 \in T
        <3>1. Folds([k \in 0 .. 0 |-> b], 0, u) /\ 0 \in 0 .. n
            OBVIOUS
        <3> HIDE DEF Folds
        <3> QED BY Zenon, <3>1
    <2>2. ASSUME NEW k \in 1 .. n, k - 1 \in T PROVE k \in T
        <3>1. PICK g : Folds(g, k - 1, u)
            BY Zenon, <2>2
        <3>2. Folds([j \in 0 .. k |-> IF j = k THEN Step(g[k - 1], u[k]) ELSE g[j]], k, u)
            BY <3>1
        <3>3. k \in 0 .. n
            OBVIOUS
        <3> HIDE DEF Folds
        <3> QED BY Zenon, <3>2, <3>3
    <2>3. n \in 0 .. n
        OBVIOUS
    <2>4. n \in T
        <3> HIDE DEF T
        <3> QED BY Zenon, <2>1, <2>2, <2>3, UpTo
    <2> QED BY Zenon, <2>4
<1>3. ASSUME NEW u, Len(u) \in Nat PROVE Folds(after(u), Len(u), u)
    <2> HIDE DEF Folds
    <2> QED BY Zenon, <1>2, <1>3
<1>4. encode_into(t, <<>>) = b
    <2>1. Len(<<>>) = 0
        OBVIOUS
    <2>2. Folds(after(<<>>), 0, <<>>)
        <3> HIDE DEF Folds, after
        <3> QED BY Zenon, <1>3, <2>1
    <2> HIDE DEF after
    <2> QED BY <1>1, <2>1, <2>2
<1>5. ASSUME NEW s \in Seq(S), NEW x \in S
      PROVE  encode_into(t, Append(s, x)) = Step(encode_into(t, s), x)
    <2>1. Len(s) \in Nat /\ Len(s) + 1 \in Nat /\ Len(Append(s, x)) = Len(s) + 1
        OBVIOUS
    <2>2. /\ Folds(after(s), Len(s), s)
          /\ Folds(after(Append(s, x)), Len(s) + 1, Append(s, x))
        <3> HIDE DEF Folds, after
        <3> QED BY Zenon, <1>3, <2>1
    <2> HIDE DEF after
    <2> DEFINE T == {k \in 0 .. Len(s) : after(Append(s, x))[k] = after(s)[k]}
    <2>3. 0 \in T
        BY <2>2
    <2>4. ASSUME NEW k \in 1 .. Len(s), k - 1 \in T PROVE k \in T
        <3>1. k \in 0 .. Len(s) /\ k \in 0 .. Len(s) + 1 /\ k # 0 /\ Append(s, x)[k] = s[k]
            OBVIOUS
        <3>2. /\ after(s)[k] = Step(after(s)[k - 1], s[k])
              /\ after(Append(s, x))[k] = Step(after(Append(s, x))[k - 1], Append(s, x)[k])
            BY Zenon, <2>2, <3>1
        <3> QED BY Zenon, <2>4, <3>1, <3>2
    <2>5. \A k \in 0 .. Len(s) : k \in T
        <3> HIDE DEF T
        <3> QED BY Zenon, <2>1, <2>3, <2>4, UpTo
    <2> QED BY <1>1, <2>1, <2>2, <2>5
<1> QED BY Zenon, <1>4, <1>5 DEF b, Step

\* What the decoder starts a block from, and what it makes of some representations.
Start(t) == [table |-> t, allowed |-> Allowed, fields |-> <<>>, error |-> "none"]
RepsRead(t, block) == Reduce(DecodeRep, Start(t), block)

\* The representations of a block.
LEMMA RepsReadOf ==
    ASSUME NEW t, NEW S
    PROVE  /\ RepsRead(t, <<>>) = Start(t)
           /\ \A s \in Seq(S), x \in S :
                 RepsRead(t, Append(s, x)) = DecodeRep(RepsRead(t, s), x)
<1> DEFINE b == Start(t)
           Step(acc, y) == DecodeRep(acc, y)
           Folds(g, n, u) == g = [k \in 0 .. n |-> IF k = 0 THEN b ELSE Step(g[k - 1], u[k])]
           after(u) == CHOOSE g : Folds(g, Len(u), u)
<1>1. \A u : RepsRead(t, u) = after(u)[Len(u)]
    BY Zenon DEF RepsRead, Reduce
<1> HIDE DEF b, Step
<1>2. ASSUME NEW n \in Nat, NEW u PROVE \E g : Folds(g, n, u)
    <2> DEFINE T == {k \in 0 .. n : \E g : Folds(g, k, u)}
    <2>1. 0 \in T
        <3>1. Folds([k \in 0 .. 0 |-> b], 0, u) /\ 0 \in 0 .. n
            OBVIOUS
        <3> HIDE DEF Folds
        <3> QED BY Zenon, <3>1
    <2>2. ASSUME NEW k \in 1 .. n, k - 1 \in T PROVE k \in T
        <3>1. PICK g : Folds(g, k - 1, u)
            BY Zenon, <2>2
        <3>2. Folds([j \in 0 .. k |-> IF j = k THEN Step(g[k - 1], u[k]) ELSE g[j]], k, u)
            BY <3>1
        <3>3. k \in 0 .. n
            OBVIOUS
        <3> HIDE DEF Folds
        <3> QED BY Zenon, <3>2, <3>3
    <2>3. n \in 0 .. n
        OBVIOUS
    <2>4. n \in T
        <3> HIDE DEF T
        <3> QED BY Zenon, <2>1, <2>2, <2>3, UpTo
    <2> QED BY Zenon, <2>4
<1>3. ASSUME NEW u, Len(u) \in Nat PROVE Folds(after(u), Len(u), u)
    <2> HIDE DEF Folds
    <2> QED BY Zenon, <1>2, <1>3
<1>4. RepsRead(t, <<>>) = b
    <2>1. Len(<<>>) = 0
        OBVIOUS
    <2>2. Folds(after(<<>>), 0, <<>>)
        <3> HIDE DEF Folds, after
        <3> QED BY Zenon, <1>3, <2>1
    <2> HIDE DEF after
    <2> QED BY <1>1, <2>1, <2>2
<1>5. ASSUME NEW s \in Seq(S), NEW x \in S
      PROVE  RepsRead(t, Append(s, x)) = Step(RepsRead(t, s), x)
    <2>1. Len(s) \in Nat /\ Len(s) + 1 \in Nat /\ Len(Append(s, x)) = Len(s) + 1
        OBVIOUS
    <2>2. /\ Folds(after(s), Len(s), s)
          /\ Folds(after(Append(s, x)), Len(s) + 1, Append(s, x))
        <3> HIDE DEF Folds, after
        <3> QED BY Zenon, <1>3, <2>1
    <2> HIDE DEF after
    <2> DEFINE T == {k \in 0 .. Len(s) : after(Append(s, x))[k] = after(s)[k]}
    <2>3. 0 \in T
        BY <2>2
    <2>4. ASSUME NEW k \in 1 .. Len(s), k - 1 \in T PROVE k \in T
        <3>1. k \in 0 .. Len(s) /\ k \in 0 .. Len(s) + 1 /\ k # 0 /\ Append(s, x)[k] = s[k]
            OBVIOUS
        <3>2. /\ after(s)[k] = Step(after(s)[k - 1], s[k])
              /\ after(Append(s, x))[k] = Step(after(Append(s, x))[k - 1], Append(s, x)[k])
            BY Zenon, <2>2, <3>1
        <3> QED BY Zenon, <2>4, <3>1, <3>2
    <2>5. \A k \in 0 .. Len(s) : k \in T
        <3> HIDE DEF T
        <3> QED BY Zenon, <2>1, <2>3, <2>4, UpTo
    <2> QED BY <1>1, <2>1, <2>2, <2>5
<1> QED BY Zenon, <1>4, <1>5 DEF b, Step

\* The table a decoder is left with by a block, and by several blocks; the last
\* block of several is read with the table the others left.
After(t, b) == IF b.malformed THEN t ELSE decode_with_cb(t, Allowed, b.block).table
BlocksRead(t, blocks) == Reduce(After, t, blocks)
ReadInTurn(t, S) ==
    \A s \in Seq(S), x \in S : BlocksRead(t, Append(s, x)) = After(BlocksRead(t, s), x)

\* The blocks in flight.
LEMMA BlocksReadOf ==
    ASSUME NEW t, NEW S
    PROVE  BlocksRead(t, <<>>) = t /\ ReadInTurn(t, S)
<1> DEFINE b == t
           Step(acc, y) == After(acc, y)
           Folds(g, n, u) == g = [k \in 0 .. n |-> IF k = 0 THEN b ELSE Step(g[k - 1], u[k])]
           after(u) == CHOOSE g : Folds(g, Len(u), u)
<1>1. \A u : BlocksRead(t, u) = after(u)[Len(u)]
    BY Zenon DEF BlocksRead, Reduce
<1> HIDE DEF b, Step
<1>2. ASSUME NEW n \in Nat, NEW u PROVE \E g : Folds(g, n, u)
    <2> DEFINE T == {k \in 0 .. n : \E g : Folds(g, k, u)}
    <2>1. 0 \in T
        <3>1. Folds([k \in 0 .. 0 |-> b], 0, u) /\ 0 \in 0 .. n
            OBVIOUS
        <3> HIDE DEF Folds
        <3> QED BY Zenon, <3>1
    <2>2. ASSUME NEW k \in 1 .. n, k - 1 \in T PROVE k \in T
        <3>1. PICK g : Folds(g, k - 1, u)
            BY Zenon, <2>2
        <3>2. Folds([j \in 0 .. k |-> IF j = k THEN Step(g[k - 1], u[k]) ELSE g[j]], k, u)
            BY <3>1
        <3>3. k \in 0 .. n
            OBVIOUS
        <3> HIDE DEF Folds
        <3> QED BY Zenon, <3>2, <3>3
    <2>3. n \in 0 .. n
        OBVIOUS
    <2>4. n \in T
        <3> HIDE DEF T
        <3> QED BY Zenon, <2>1, <2>2, <2>3, UpTo
    <2> QED BY Zenon, <2>4
<1>3. ASSUME NEW u, Len(u) \in Nat PROVE Folds(after(u), Len(u), u)
    <2> HIDE DEF Folds
    <2> QED BY Zenon, <1>2, <1>3
<1>4. BlocksRead(t, <<>>) = b
    <2>1. Len(<<>>) = 0
        OBVIOUS
    <2>2. Folds(after(<<>>), 0, <<>>)
        <3> HIDE DEF Folds, after
        <3> QED BY Zenon, <1>3, <2>1
    <2> HIDE DEF after
    <2> QED BY <1>1, <2>1, <2>2
<1>5. ASSUME NEW s \in Seq(S), NEW x \in S
      PROVE  BlocksRead(t, Append(s, x)) = Step(BlocksRead(t, s), x)
    <2>1. Len(s) \in Nat /\ Len(s) + 1 \in Nat /\ Len(Append(s, x)) = Len(s) + 1
        OBVIOUS
    <2>2. /\ Folds(after(s), Len(s), s)
          /\ Folds(after(Append(s, x)), Len(s) + 1, Append(s, x))
        <3> HIDE DEF Folds, after
        <3> QED BY Zenon, <1>3, <2>1
    <2> HIDE DEF after
    <2> DEFINE T == {k \in 0 .. Len(s) : after(Append(s, x))[k] = after(s)[k]}
    <2>3. 0 \in T
        BY <2>2
    <2>4. ASSUME NEW k \in 1 .. Len(s), k - 1 \in T PROVE k \in T
        <3>1. k \in 0 .. Len(s) /\ k \in 0 .. Len(s) + 1 /\ k # 0 /\ Append(s, x)[k] = s[k]
            OBVIOUS
        <3>2. /\ after(s)[k] = Step(after(s)[k - 1], s[k])
              /\ after(Append(s, x))[k] = Step(after(Append(s, x))[k - 1], Append(s, x)[k])
            BY Zenon, <2>2, <3>1
        <3> QED BY Zenon, <2>4, <3>1, <3>2
    <2>5. \A k \in 0 .. Len(s) : k \in T
        <3> HIDE DEF T
        <3> QED BY Zenon, <2>1, <2>3, <2>4, UpTo
    <2> QED BY <1>1, <2>1, <2>2, <2>5
<1>6. ReadInTurn(t, S)
    BY Zenon, <1>5 DEF Step, ReadInTurn
<1> QED BY Zenon, <1>4, <1>6 DEF b

-----------------------------------------------------------------------------
(* The dynamic table.                                                      *)

\* An entry takes some room in the table.
LEMMA SizeIsPositive ==
    ASSUME NEW f \in AllFields
    PROVE  SizeOf(f) \in Nat /\ SizeOf(f) >= 1
<1>1. f[1] \in Seq(Symbols) /\ f[2] \in Seq(Symbols)
    BY Zenon DEF AllFields
<1>2. Len(f[1]) \in Nat /\ Len(f[2]) \in Nat
    BY <1>1
<1>3. Overhead \in Nat /\ Overhead >= 1
    BY WidthAssumption
<1>4. \A a, b, c \in Nat : c >= 1 => a + b + c \in Nat /\ a + b + c >= 1
    OBVIOUS
<1> QED BY Zenon, <1>2, <1>3, <1>4 DEF SizeOf

\* p[n] is the size of the n newest entries of t.
IsSums(p, t) ==
    /\ p \in [0 .. Len(t) -> Nat]
    /\ p[0] = 0
    /\ \A i \in 1 .. Len(t) : p[i] = p[i - 1] + SizeOf(t[i])

\* The sum of the sizes of the entries is a natural number.
LEMMA SumType ==
    ASSUME NEW t \in Seq(AllFields)
    PROVE  Sum(t) \in Nat
<1> DEFINE T == {s \in Seq(AllFields) : Sum(s) \in Nat}
<1>1. <<>> \in T
    <2>1. <<>> \in Seq(AllFields) /\ 0 \in Nat
        OBVIOUS
    <2> QED BY Zenon, <2>1, SumOf
<1>2. ASSUME NEW s \in Seq(AllFields), NEW f \in AllFields, s \in T PROVE Append(s, f) \in T
    <2>1. Sum(Append(s, f)) = Sum(s) + SizeOf(f)
        BY Zenon, SumOf
    <2>2. Append(s, f) \in Seq(AllFields)
        OBVIOUS
    <2> QED BY <1>2, <2>1, <2>2, SizeIsPositive
<1>3. t \in T
    <2> HIDE DEF T
    <2> QED BY Zenon, <1>1, <1>2, BySnoc
<1> QED BY Zenon, <1>3

\* It is the last of the running sums.
LEMMA SumRuns ==
    ASSUME NEW t \in Seq(AllFields)
    PROVE  \E p : IsSums(p, t) /\ Sum(t) = p[Len(t)]
<1> DEFINE p == [i \in 0 .. Len(t) |-> Sum(SubSeq(t, 1, i))]
<1>1. /\ Len(t) \in Nat /\ Len(t) \in 0 .. Len(t) /\ 0 \in 0 .. Len(t)
      /\ SubSeq(t, 1, Len(t)) = t /\ SubSeq(t, 1, 0) = <<>>
    OBVIOUS
<1>2. \A i \in 0 .. Len(t) : SubSeq(t, 1, i) \in Seq(AllFields)
    OBVIOUS
<1>3. p \in [0 .. Len(t) -> Nat]
    BY Zenon, <1>2, SumType
<1>4. p[0] = 0 /\ p[Len(t)] = Sum(t)
    BY Zenon, <1>1, SumOf
<1>5. ASSUME NEW i \in 1 .. Len(t) PROVE p[i] = p[i - 1] + SizeOf(t[i])
    <2>1. /\ SubSeq(t, 1, i) = Append(SubSeq(t, 1, i - 1), t[i])
          /\ SubSeq(t, 1, i - 1) \in Seq(AllFields) /\ t[i] \in AllFields
        BY Zenon, PrefixSnoc
    <2>2. i \in 0 .. Len(t) /\ i - 1 \in 0 .. Len(t)
        BY <1>1
    <2>3. Sum(Append(SubSeq(t, 1, i - 1), t[i])) = Sum(SubSeq(t, 1, i - 1)) + SizeOf(t[i])
        BY Zenon, <2>1, SumOf
    <2> QED BY Zenon, <2>1, <2>2, <2>3
<1>6. IsSums(p, t)
    BY Zenon, <1>3, <1>4, <1>5 DEF IsSums
<1> HIDE DEF p
<1> QED BY Zenon, <1>4, <1>6

\* A table has one sequence of running sums.
LEMMA SumsAreUnique ==
    ASSUME NEW t \in Seq(AllFields), NEW p, NEW q, IsSums(p, t), IsSums(q, t)
    PROVE  p = q
<1> DEFINE T == {i \in 0 .. Len(t) : p[i] = q[i]}
<1>1. 0 \in T
    BY DEF IsSums
<1>2. ASSUME NEW i \in 1 .. Len(t), i - 1 \in T PROVE i \in T
    BY <1>2 DEF IsSums
<1>3. \A i \in 0 .. Len(t) : i \in T
    <2>1. Len(t) \in Nat
        OBVIOUS
    <2> HIDE DEF T
    <2> QED BY Zenon, <1>1, <1>2, <2>1, UpTo
<1> QED BY <1>3 DEF IsSums

\* Every entry adds to the size.
LEMMA SumsGrow ==
    ASSUME NEW t \in Seq(AllFields), NEW p, IsSums(p, t)
    PROVE  \A j \in 0 .. Len(t) : \A i \in 0 .. j : p[i] + (j - i) <= p[j]
<1> DEFINE T == {j \in 0 .. Len(t) : \A i \in 0 .. j : p[i] + (j - i) <= p[j]}
<1>0. /\ Len(t) \in Nat /\ p \in [0 .. Len(t) -> Nat]
      /\ \A i \in 1 .. Len(t) : p[i] = p[i - 1] + SizeOf(t[i])
      /\ \A i \in 1 .. Len(t) : SizeOf(t[i]) \in Nat /\ SizeOf(t[i]) >= 1
    BY SizeIsPositive DEF IsSums
<1>1. 0 \in T
    BY <1>0
<1>2. ASSUME NEW j \in 1 .. Len(t), j - 1 \in T PROVE j \in T
    <2>0. j \in 0 .. Len(t) /\ j - 1 \in 0 .. Len(t)
        BY <1>0
    <2>1. p[j] \in Nat /\ p[j - 1] \in Nat /\ p[j] >= p[j - 1] + 1
        <3>1. p[j] = p[j - 1] + SizeOf(t[j]) /\ SizeOf(t[j]) \in Nat /\ SizeOf(t[j]) >= 1
            BY Zenon, <1>0
        <3>2. p[j] \in Nat /\ p[j - 1] \in Nat
            BY Zenon, <1>0, <2>0
        <3> QED BY <3>1, <3>2
    <2>2. ASSUME NEW i \in 0 .. j PROVE p[i] + (j - i) <= p[j]
        <3>1. p[i] \in Nat
            BY SMTT(30), <1>0
        <3>2. CASE i = j
            BY <3>1, <3>2
        <3>3. CASE i # j
            <4>1. i \in 0 .. (j - 1)
                BY <3>3
            <4>2. p[i] + ((j - 1) - i) <= p[j - 1]
                BY <1>2, <4>1
            <4> QED BY SMTT(30), <2>1, <3>1, <4>2
        <3> QED BY <3>2, <3>3
    <2> QED BY Zenon, <2>0, <2>2
<1>3. \A j \in 0 .. Len(t) : j \in T
    <2>1. Len(t) \in Nat
        BY <1>0
    <2> HIDE DEF T
    <2> QED BY Zenon, <1>1, <1>2, <2>1, UpTo
<1> QED BY Zenon, <1>3

\* The first k elements of a sequence.
LEMMA PrefixType ==
    ASSUME NEW S, NEW t \in Seq(S), NEW k \in 0 .. Len(t)
    PROVE  /\ SubSeq(t, 1, k) \in Seq(S) /\ Len(SubSeq(t, 1, k)) = k
           /\ \A i \in 1 .. k : SubSeq(t, 1, k)[i] = t[i]
OBVIOUS

\* The running sum at k is the size of the first k entries.
LEMMA SumOfPrefix ==
    ASSUME NEW t \in Seq(AllFields), NEW p, IsSums(p, t), NEW k \in 0 .. Len(t)
    PROVE  Sum(SubSeq(t, 1, k)) = p[k]
<1> DEFINE s == SubSeq(t, 1, k)
           q == [i \in 0 .. k |-> p[i]]
<1>1. s \in Seq(AllFields) /\ Len(s) = k /\ \A i \in 1 .. k : s[i] = t[i]
    BY Zenon, PrefixType
<1>2. IsSums(q, s)
    <2>1. /\ Len(t) \in Nat /\ p \in [0 .. Len(t) -> Nat] /\ p[0] = 0
          /\ \A i \in 1 .. Len(t) : p[i] = p[i - 1] + SizeOf(t[i])
        BY DEF IsSums
    <2>2. q \in [0 .. k -> Nat] /\ q[0] = 0
        BY <2>1
    <2>3. ASSUME NEW i \in 1 .. k PROVE q[i] = q[i - 1] + SizeOf(s[i])
        <3>1. i \in 1 .. Len(t) /\ q[i] = p[i] /\ q[i - 1] = p[i - 1]
            BY <2>1
        <3>2. s[i] = t[i]
            BY Zenon, <1>1
        <3> QED BY Zenon, <2>1, <3>1, <3>2
    <2> HIDE DEF q, s
    <2> QED BY Zenon, <1>1, <2>2, <2>3 DEF IsSums
<1>3. PICK r : IsSums(r, s) /\ Sum(s) = r[Len(s)]
    <2> HIDE DEF s
    <2> QED BY Zenon, <1>1, SumRuns
<1>4. r = q
    <2> HIDE DEF s, q
    <2> QED BY Zenon, <1>1, <1>2, <1>3, SumsAreUnique
<1>5. q[k] = p[k]
    OBVIOUS
<1> QED BY Zenon, <1>1, <1>3, <1>4, <1>5

\* A sequence with one more element in front.
LEMMA ConsType ==
    ASSUME NEW S, NEW t \in Seq(S), NEW f \in S
    PROVE  /\ <<f>> \o t \in Seq(S) /\ Len(<<f>> \o t) = Len(t) + 1 /\ (<<f>> \o t)[1] = f
           /\ \A i \in 2 .. Len(t) + 1 : (<<f>> \o t)[i] = t[i - 1]
OBVIOUS

\* The running sums of a table with one more entry in front.
LEMMA SumsOfCons ==
    ASSUME NEW t \in Seq(AllFields), NEW p, IsSums(p, t), NEW f \in AllFields
    PROVE  IsSums([i \in 0 .. Len(t) + 1 |-> IF i = 0 THEN 0 ELSE SizeOf(f) + p[i - 1]],
                  <<f>> \o t)
<1> DEFINE s == <<f>> \o t
           q == [i \in 0 .. Len(t) + 1 |-> IF i = 0 THEN 0 ELSE SizeOf(f) + p[i - 1]]
<1>1. /\ s \in Seq(AllFields) /\ Len(s) = Len(t) + 1 /\ s[1] = f
      /\ \A i \in 2 .. Len(t) + 1 : s[i] = t[i - 1]
    BY ConsType
<1>2. /\ Len(t) \in Nat /\ SizeOf(f) \in Nat /\ p \in [0 .. Len(t) -> Nat] /\ p[0] = 0
      /\ \A i \in 1 .. Len(t) : p[i] = p[i - 1] + SizeOf(t[i]) /\ SizeOf(t[i]) \in Nat
    BY SizeIsPositive DEF IsSums
<1>3. q \in [0 .. Len(s) -> Nat] /\ q[0] = 0
    BY <1>1, <1>2
<1>4. ASSUME NEW i \in 1 .. Len(s) PROVE q[i] = q[i - 1] + SizeOf(s[i])
    <2>1. CASE i = 1
        BY <1>1, <1>2, <2>1
    <2>2. CASE i # 1
        <3>1. i - 1 \in 1 .. Len(t) /\ i \in 2 .. Len(t) + 1
            BY <1>1, <1>2, <2>2
        <3>2. p[i - 1] = p[(i - 1) - 1] + SizeOf(t[i - 1]) /\ SizeOf(t[i - 1]) \in Nat
            BY Zenon, <1>2, <3>1
        <3>3. s[i] = t[i - 1]
            BY Zenon, <1>1, <3>1
        <3>4. q[i] = SizeOf(f) + p[i - 1] /\ q[i - 1] = SizeOf(f) + p[(i - 1) - 1]
            BY <1>2, <3>1
        <3>5. p[(i - 1) - 1] \in Nat
            <4>1. (i - 1) - 1 \in 0 .. Len(t)
                BY <1>2, <3>1
            <4> QED BY Zenon, <1>2, <4>1
        <3> HIDE DEF s, q
        <3> QED BY <1>2, <3>2, <3>3, <3>4, <3>5
    <2> QED BY Zenon, <2>1, <2>2
<1> HIDE DEF s, q
<1>5. IsSums(q, s)
    BY Zenon, <1>3, <1>4 DEF IsSums
<1> QED BY Zenon, <1>5 DEF q, s

\* m entries are as many as fit.
IsLongest(m, p, n, max) ==
    m \in 0 .. n /\ p[m] <= max /\ \A k \in 0 .. n : p[k] <= max => k <= m

\* There is a longest beginning that fits.
LEMMA LongestExists ==
    ASSUME NEW n \in Nat, NEW p \in [0 .. n -> Nat], p[0] = 0, NEW max \in Nat
    PROVE  \E m : IsLongest(m, p, n, max)
<1> DEFINE T == {k \in 0 .. n : p[k] <= max}
<1>1. T \in SUBSET (0 .. n) /\ 0 \in T
    OBVIOUS
<1>2. PICK m \in T : \A y \in T : y <= m
    <2> HIDE DEF T
    <2> QED BY Zenon, <1>1, GreatestUpTo
<1> QED BY Zenon, <1>2 DEF IsLongest

\* There is only one.
LEMMA LongestIsUnique ==
    ASSUME NEW n \in Nat, NEW p, NEW max, NEW m, NEW k,
           IsLongest(m, p, n, max), IsLongest(k, p, n, max)
    PROVE  m = k
BY DEF IsLongest

\* The table t with its first m entries left, when p are its running sums.
Cut(t, p, m, max) == [table |-> SubSeq(t, 1, m), size |-> p[m], max |-> max]

\* The reference rule, in terms of the sizes of the beginnings of a table.
LEMMA FittingIs ==
    ASSUME NEW t \in Seq(AllFields), NEW p, IsSums(p, t), NEW max \in Nat, NEW m,
           IsLongest(m, p, Len(t), max)
    PROVE  Fitting(t, max) = Cut(t, p, m, max)
<1> DEFINE fits == {n \in 0 .. Len(t) : Sum(SubSeq(t, 1, n)) <= max}
           c == CHOOSE n \in fits : \A k \in fits : k <= n
<1>1. fits = {n \in 0 .. Len(t) : p[n] <= max}
    BY Zenon, SumOfPrefix
<1>2. m \in fits /\ \A k \in fits : k <= m
    BY Zenon, <1>1 DEF IsLongest
<1>3. c \in fits /\ \A k \in fits : k <= c
    <2> HIDE DEF fits
    <2> QED BY Zenon, <1>2
<1>4. Fitting(t, max) = [table |-> SubSeq(t, 1, c), size |-> Sum(SubSeq(t, 1, c)), max |-> max]
    BY Zenon DEF Fitting
<1> HIDE DEF c
<1>5. IsLongest(c, p, Len(t), max)
    BY Zenon, <1>1, <1>3 DEF IsLongest
<1>6. c = m
    <2>1. Len(t) \in Nat
        OBVIOUS
    <2> HIDE DEF fits
    <2> QED BY SMT, <1>5, <2>1, LongestIsUnique
<1>7. Sum(SubSeq(t, 1, m)) = p[m]
    BY Zenon, SumOfPrefix DEF IsLongest
<1> QED BY Zenon, <1>4, <1>6, <1>7 DEF Cut

\* The records that have the fields of a table.
Records == [table : Seq(AllFields), size : Nat, max : Nat]

\* DynamicTable evicts what the reference rule evicts, if its size was right.
LEMMA ConsolidateIsFitting ==
    ASSUME NEW t \in Records, t.size = Sum(t.table)
    PROVE  consolidate_table(t) = Fitting(t.table, t.max)
<1> DEFINE h == t.table
           N == Len(h)
<1>1. h = t.table /\ h \in Seq(AllFields)
    BY DEF Records
<1>2. N = Len(h) /\ N \in Nat
    BY <1>1
<1> USE <1>1, <1>2
<1>3. PICK p : IsSums(p, h) /\ Sum(h) = p[N]
    BY Zenon, <1>1, SumRuns
<1>4. /\ p \in [0 .. N -> Nat] /\ p[0] = 0
      /\ \A i \in 1 .. N : p[i] = p[i - 1] + SizeOf(h[i])
    BY Zenon, <1>2, <1>3 DEF IsSums
<1>5. \A i \in 1 .. N : SizeOf(h[i]) \in Nat
    BY <1>2, SizeIsPositive
<1>6. t.max \in Nat /\ t.size = p[N]
    BY Zenon, <1>1, <1>3 DEF Records
<1> DEFINE f == [k \in 0 .. N |-> p[N - k]]
           size == CHOOSE a : a = [k \in 0 .. N |->
                                     IF k = 0 THEN t.size ELSE a[k - 1] - SizeOf(h[N - k + 1])]
           c == CHOOSE n \in 0 .. N : size[n] <= t.max /\ \A k \in 0 .. (n - 1) : size[k] > t.max
<1>7. consolidate_table(t) = [t EXCEPT !.table = SubSeq(@, 1, Len(@) - c), !.size = size[c]]
    BY Zenon DEF consolidate_table
<1> HIDE DEF h, N
<1>8. ASSUME NEW k \in 1 .. N
      PROVE  /\ N - k \in 0 .. N /\ N - (k - 1) \in 0 .. N /\ N - k + 1 \in 1 .. N
             /\ p[N - k] = p[N - (k - 1)] - SizeOf(h[N - k + 1])
    <2> DEFINE j == N - k + 1
    <2>1. /\ j \in 1 .. N /\ j - 1 \in 0 .. N /\ j \in 0 .. N
          /\ N - k + 1 = j /\ N - k = j - 1 /\ N - (k - 1) = j
        OBVIOUS
    <2> HIDE DEF j
    <2>2. p[j] = p[j - 1] + SizeOf(h[j]) /\ p[j - 1] \in Nat /\ SizeOf(h[j]) \in Nat
        BY Zenon, <1>4, <1>5, <2>1
    <2>3. p[j - 1] = p[j] - SizeOf(h[j])
        BY <2>2
    <2> QED BY Zenon, <2>1, <2>3
<1>9. f = [k \in 0 .. N |-> IF k = 0 THEN t.size ELSE f[k - 1] - SizeOf(h[N - k + 1])]
    <2>1. ASSUME NEW k \in 0 .. N
          PROVE  f[k] = IF k = 0 THEN t.size ELSE f[k - 1] - SizeOf(h[N - k + 1])
        <3>1. CASE k = 0
            BY <1>6, <3>1
        <3>2. CASE k # 0
            <4>1. k \in 1 .. N /\ k - 1 \in 0 .. N
                BY <3>2
            <4> QED BY Zenon, <1>8, <3>2, <4>1
        <3> QED BY Zenon, <3>1, <3>2
    <2>2. f = [k \in 0 .. N |-> f[k]]
        BY Zenon
    <2> HIDE DEF f
    <2> QED BY Zenon, <2>1, <2>2
<1>10. size = [k \in 0 .. N |-> IF k = 0 THEN t.size ELSE size[k - 1] - SizeOf(h[N - k + 1])]
    <2> HIDE DEF f
    <2> QED BY Zenon, <1>9
<1> HIDE DEF size
<1>11. \A k \in 0 .. N : size[k] = p[N - k]
    <2> DEFINE T == {k \in 0 .. N : size[k] = p[N - k]}
    <2>1. 0 \in T
        BY <1>6, <1>10
    <2>2. ASSUME NEW k \in 1 .. N, k - 1 \in T PROVE k \in T
        <3>1. k \in 0 .. N /\ k # 0
            OBVIOUS
        <3>2. size[k] = size[k - 1] - SizeOf(h[N - k + 1])
            BY Zenon, <1>10, <3>1
        <3>3. size[k - 1] = p[N - (k - 1)]
            BY Zenon, <2>2
        <3> QED BY Zenon, <1>8, <3>1, <3>2, <3>3
    <2>3. \A k \in 0 .. N : k \in T
        <3> HIDE DEF T
        <3> QED BY Zenon, <2>1, <2>2, UpTo
    <2> QED BY Zenon, <2>3
<1>12. PICK m : IsLongest(m, p, N, t.max)
    BY Zenon, <1>4, <1>6, LongestExists
<1>13. m \in 0 .. N /\ p[m] <= t.max /\ \A k \in 0 .. N : p[k] <= t.max => k <= m
    BY Zenon, <1>12 DEF IsLongest
<1>14. /\ N - m \in 0 .. N /\ size[N - m] <= t.max
       /\ \A k \in 0 .. (N - m - 1) : size[k] > t.max
    <2>1. N - m \in 0 .. N /\ N - (N - m) = m
        BY <1>13
    <2>2. size[N - m] = p[m]
        BY Zenon, <1>11, <2>1
    <2>3. ASSUME NEW k \in 0 .. (N - m - 1) PROVE size[k] > t.max
        <3>1. k \in 0 .. N /\ N - k \in 0 .. N /\ ~(N - k <= m)
            BY <1>13
        <3>2. size[k] = p[N - k] /\ p[N - k] \in Nat /\ ~(p[N - k] <= t.max)
            BY Zenon, <1>4, <1>11, <1>13, <3>1
        <3> QED BY <1>6, <3>2
    <2> QED BY Zenon, <1>13, <2>1, <2>2, <2>3
<1>15. c \in 0 .. N /\ size[c] <= t.max /\ \A k \in 0 .. (c - 1) : size[k] > t.max
    BY Zenon, <1>14
<1> HIDE DEF c
<1>16. N - c = m
    <2>1. N - c \in 0 .. N /\ p[N - c] = size[c]
        BY <1>11, <1>15
    <2>2. N - c <= m
        BY Zenon, <1>13, <1>15, <2>1
    <2>3. CASE N - c < m
        <3>1. N - m \in 0 .. (c - 1) /\ N - m \in 0 .. N /\ N - (N - m) = m
            BY <1>13, <1>15, <2>3
        <3>2. size[N - m] > t.max /\ size[N - m] = p[m]
            BY Zenon, <1>11, <1>15, <3>1
        <3>3. p[m] \in Nat
            BY Zenon, <1>4, <1>13
        <3> QED BY <1>6, <1>13, <3>2, <3>3
    <2> QED BY <1>13, <1>15, <2>2, <2>3
<1>17. consolidate_table(t) = [table |-> SubSeq(h, 1, m), size |-> p[m], max |-> t.max]
    <2>1. size[c] = p[m]
        BY Zenon, <1>11, <1>15, <1>16
    <2>2. consolidate_table(t) = [t EXCEPT !.table = SubSeq(h, 1, m), !.size = p[m]]
        BY Zenon, <1>1, <1>2, <1>7, <1>16, <2>1
    <2> QED BY Zenon, <1>1, <2>2 DEF Records
<1>18. Fitting(h, t.max) = Cut(h, p, m, t.max)
    <2>1. IsSums(p, h) /\ IsLongest(m, p, Len(h), t.max) /\ t.max \in Nat
        BY Zenon, <1>2, <1>3, <1>6, <1>12
    <2>2. PICK b \in Nat : b = t.max
        BY Zenon, <2>1
    <2>3. Fitting(h, b) = Cut(h, p, m, b)
        <3>1. IsLongest(m, p, Len(h), b)
            BY Zenon, <2>1, <2>2
        <3> QED BY Zenon, <2>1, <3>1, FittingIs
    <2> QED BY Zenon, <2>2, <2>3
<1> QED BY Zenon, <1>1, <1>17, <1>18 DEF Cut

\* Tables whose size is right and within the maximum.
Tables == {t \in Records : t.size = Sum(t.table) /\ t.size <= t.max}

\* What fits is a table, and a beginning of the entries it was taken from.
LEMMA FittingType ==
    ASSUME NEW t \in Seq(AllFields), NEW max \in Nat
    PROVE  Fitting(t, max) \in Tables /\ Fitting(t, max).max = max
           /\ Begins(Fitting(t, max).table, t)
<1>1. PICK p : IsSums(p, t)
    BY Zenon, SumRuns
<1>2. Len(t) \in Nat /\ p \in [0 .. Len(t) -> Nat] /\ p[0] = 0
    BY <1>1 DEF IsSums
<1>3. PICK m : IsLongest(m, p, Len(t), max)
    BY Zenon, <1>2, LongestExists
<1>4. Fitting(t, max) = Cut(t, p, m, max)
    BY Zenon, <1>1, <1>3, FittingIs
<1>5. m \in 0 .. Len(t) /\ p[m] <= max /\ p[m] \in Nat
    BY Zenon, <1>2, <1>3 DEF IsLongest
<1>6. Sum(SubSeq(t, 1, m)) = p[m]
    BY Zenon, <1>1, <1>5, SumOfPrefix
<1>7. SubSeq(t, 1, m) \in Seq(AllFields) /\ Len(SubSeq(t, 1, m)) = m /\ m <= Len(t)
    BY <1>5
<1>8. Begins(SubSeq(t, 1, m), t)
    BY Zenon, <1>7 DEF Begins
<1> DEFINE r == Cut(t, p, m, max)
<1>9. r.table = SubSeq(t, 1, m) /\ r.size = p[m] /\ r.max = max
    BY Zenon DEF Cut
<1>10. r \in Records
    BY <1>5, <1>7 DEF Cut, Records
<1> HIDE DEF r
<1>11. r \in Tables /\ r.max = max /\ Begins(r.table, t)
    BY Zenon, <1>5, <1>6, <1>8, <1>9, <1>10 DEF Tables
<1> QED BY Zenon, <1>4, <1>11 DEF r

\* The parts of a table.
LEMMA TableType ==
    ASSUME NEW t \in Tables
    PROVE  /\ t.table \in Seq(AllFields) /\ t.size \in Nat /\ t.max \in Nat
           /\ t.size = Sum(t.table) /\ t.size <= t.max
           /\ t = [table |-> t.table, size |-> t.size, max |-> t.max]
BY DEF Tables, Records

\* Entries have a size, so there are no more of them than the maximum.
LEMMA TableLength ==
    ASSUME NEW t \in Tables
    PROVE  Len(t.table) \in Nat /\ Len(t.table) <= t.max
<1>1. t.table \in Seq(AllFields) /\ t.size \in Nat /\ t.max \in Nat /\ t.size = Sum(t.table)
      /\ t.size <= t.max
    BY Zenon, TableType
<1>2. PICK p : IsSums(p, t.table) /\ Sum(t.table) = p[Len(t.table)]
    BY Zenon, <1>1, SumRuns
<1>3. Len(t.table) \in Nat
    BY <1>1
<1>4. \A j \in 0 .. Len(t.table) : \A i \in 0 .. j : p[i] + (j - i) <= p[j]
    BY Zenon, <1>1, <1>2, SumsGrow
<1>5. 0 \in 0 .. Len(t.table) /\ Len(t.table) \in 0 .. Len(t.table)
    BY <1>3
<1>6. p[0] + (Len(t.table) - 0) <= p[Len(t.table)]
    BY Zenon, <1>4, <1>5
<1>7. p[0] = 0
    BY Zenon, <1>2 DEF IsSums
<1> QED BY <1>1, <1>2, <1>3, <1>6, <1>7

\* set_max_table_size leaves the longest beginning that fits.
LEMMA ResizeIsFitting ==
    ASSUME NEW t \in Tables, NEW max \in Nat
    PROVE  set_max_table_size(t, max) = Fitting(t.table, max)
<1> DEFINE r == [t EXCEPT !.max = max]
<1>1. r \in Records /\ r.size = Sum(r.table) /\ r.table = t.table /\ r.max = max
    BY DEF Tables, Records
<1>2. set_max_table_size(t, max) = consolidate_table(r)
    BY Zenon DEF set_max_table_size
<1> HIDE DEF r
<1> QED BY Zenon, <1>1, <1>2, ConsolidateIsFitting

\* A new entry adds its own size.
LEMMA SumOfCons ==
    ASSUME NEW t \in Seq(AllFields), NEW f \in AllFields
    PROVE  Sum(<<f>> \o t) = Sum(t) + SizeOf(f)
<1> DEFINE s == <<f>> \o t
<1>1. PICK p : IsSums(p, t) /\ Sum(t) = p[Len(t)]
    BY Zenon, SumRuns
<1> DEFINE q == [i \in 0 .. Len(t) + 1 |-> IF i = 0 THEN 0 ELSE SizeOf(f) + p[i - 1]]
<1>2. IsSums(q, s)
    BY Zenon, <1>1, SumsOfCons
<1>3. s \in Seq(AllFields) /\ Len(s) = Len(t) + 1 /\ Len(t) \in Nat
    OBVIOUS
<1>4. PICK r : IsSums(r, s) /\ Sum(s) = r[Len(s)]
    <2> HIDE DEF s
    <2> QED BY Zenon, <1>3, SumRuns
<1>5. r = q
    <2> HIDE DEF s, q
    <2> QED BY Zenon, <1>2, <1>3, <1>4, SumsAreUnique
<1>6. p[Len(t)] \in Nat /\ SizeOf(f) \in Nat
    BY <1>1, SizeIsPositive DEF IsSums
<1>7. q[Len(t) + 1] = SizeOf(f) + p[(Len(t) + 1) - 1]
    BY <1>3
<1>8. (Len(t) + 1) - 1 = Len(t)
    BY <1>3
<1>9. Sum(s) = SizeOf(f) + p[Len(t)]
    <2> HIDE DEF s, q
    <2> QED BY Zenon, <1>3, <1>4, <1>5, <1>7, <1>8
<1> HIDE DEF s
<1>10. Sum(s) = Sum(t) + SizeOf(f)
    BY <1>1, <1>6, <1>9
<1> QED BY Zenon, <1>10 DEF s

\* add_header puts the entry in front and leaves the longest beginning that fits.
LEMMA AddIsFitting ==
    ASSUME NEW t \in Tables, NEW f \in AllFields
    PROVE  add_header(t, f) = Fitting(<<f>> \o t.table, t.max)
<1>1. /\ t.table \in Seq(AllFields) /\ t.size \in Nat /\ t.max \in Nat /\ t.size = Sum(t.table)
      /\ t = [table |-> t.table, size |-> t.size, max |-> t.max]
    BY Zenon, TableType
<1> DEFINE r == [t EXCEPT !.size = @ + SizeOf(f), !.table = <<f>> \o @]
<1>2. SizeOf(f) \in Nat
    BY Zenon, SizeIsPositive
<1>3. <<f>> \o t.table \in Seq(AllFields)
    BY <1>1
<1>4. t.size + SizeOf(f) \in Nat
    BY <1>1, <1>2
<1>5. r \in Records /\ r.table = <<f>> \o t.table /\ r.max = t.max /\ r.size = t.size + SizeOf(f)
    <2>1. t \in Records
        BY Zenon DEF Tables
    <2> DEFINE n == t.size + SizeOf(f)
               h == <<f>> \o t.table
    <2>2. r = [t EXCEPT !.size = n, !.table = h]
        BY Zenon
    <2>3. n \in Nat /\ h \in Seq(AllFields)
        BY Zenon, <1>3, <1>4
    <2> HIDE DEF r, n, h
    <2>4. r \in Records /\ r.table = h /\ r.max = t.max /\ r.size = n
        BY Zenon, <2>1, <2>2, <2>3 DEF Records
    <2> QED BY Zenon, <2>4 DEF n, h
<1>6. r.size = Sum(r.table)
    <2> HIDE DEF r
    <2> QED BY Zenon, <1>1, <1>5, SumOfCons
<1>7. add_header(t, f) = consolidate_table(r)
    BY Zenon DEF add_header
<1> HIDE DEF r
<1> QED BY Zenon, <1>5, <1>6, <1>7, ConsolidateIsFitting

-----------------------------------------------------------------------------
(* Tables that begin alike.                                                *)

\* A beginning has the same elements, as far as it goes.
LEMMA BeginsIs ==
    ASSUME NEW S, NEW s \in Seq(S), NEW t \in Seq(S)
    PROVE  Begins(s, t) <=> Len(s) <= Len(t) /\ \A i \in 1 .. Len(s) : s[i] = t[i]
<1>1. CASE Len(s) <= Len(t)
    <2> DEFINE u == SubSeq(t, 1, Len(s))
    <2>1. u \in Seq(S) /\ Len(u) = Len(s) /\ \A i \in 1 .. Len(s) : u[i] = t[i]
        BY <1>1
    <2>2. s = u <=> \A i \in 1 .. Len(s) : s[i] = u[i]
        <3> HIDE DEF u
        <3> QED BY <2>1
    <2> HIDE DEF u
    <2>3. s = u <=> \A i \in 1 .. Len(s) : s[i] = t[i]
        BY Zenon, <2>1, <2>2
    <2> QED BY Zenon, <1>1, <2>3 DEF Begins, u
<1>2. CASE ~(Len(s) <= Len(t))
    BY Zenon, <1>2 DEF Begins
<1> QED BY Zenon, <1>1, <1>2

\* The same, in the direction the proofs below use.
LEMMA BeginsAgree ==
    ASSUME NEW S, NEW s \in Seq(S), NEW t \in Seq(S), Begins(s, t)
    PROVE  Len(s) <= Len(t) /\ \A i \in 1 .. Len(s) : s[i] = t[i]
BY BeginsIs

\* A beginning of a beginning is a beginning.
LEMMA BeginsTransitive ==
    ASSUME NEW S, NEW s \in Seq(S), NEW t \in Seq(S), NEW u \in Seq(S),
           Begins(s, t), Begins(t, u)
    PROVE  Begins(s, u)
<1>1. /\ Len(s) <= Len(t) /\ \A i \in 1 .. Len(s) : s[i] = t[i]
      /\ Len(t) <= Len(u) /\ \A i \in 1 .. Len(t) : t[i] = u[i]
    BY Zenon, BeginsAgree
<1>2. Len(s) <= Len(u) /\ \A i \in 1 .. Len(s) : s[i] = u[i]
    BY <1>1
<1> QED BY Zenon, <1>2, BeginsIs

\* An element in front of both leaves one the beginning of the other.
LEMMA ConsBegins ==
    ASSUME NEW S, NEW s \in Seq(S), NEW t \in Seq(S), Begins(s, t), NEW f \in S
    PROVE  Begins(<<f>> \o s, <<f>> \o t)
<1> DEFINE x == <<f>> \o s
           y == <<f>> \o t
<1>1. Len(s) <= Len(t) /\ \A i \in 1 .. Len(s) : s[i] = t[i]
    BY Zenon, BeginsAgree
<1>2. /\ x \in Seq(S) /\ Len(x) = Len(s) + 1 /\ x[1] = f
      /\ \A i \in 2 .. Len(s) + 1 : x[i] = s[i - 1]
    BY ConsType
<1>3. /\ y \in Seq(S) /\ Len(y) = Len(t) + 1 /\ y[1] = f
      /\ \A i \in 2 .. Len(t) + 1 : y[i] = t[i - 1]
    BY ConsType
<1>4. Len(s) \in Nat /\ Len(t) \in Nat
    OBVIOUS
<1> HIDE DEF x, y
<1>5. ASSUME NEW i \in 1 .. Len(x) PROVE x[i] = y[i]
    <2>1. i = 1 \/ (i \in 2 .. Len(s) + 1 /\ i \in 2 .. Len(t) + 1 /\ i - 1 \in 1 .. Len(s))
        BY <1>1, <1>2, <1>4
    <2> QED BY Zenon, <1>1, <1>2, <1>3, <2>1
<1>6. Len(x) <= Len(y)
    BY <1>1, <1>2, <1>3, <1>4
<1>7. Begins(x, y)
    BY Zenon, <1>2, <1>3, <1>5, <1>6, BeginsIs
<1> QED BY Zenon, <1>7 DEF x, y

\* With more entries, and with more room for them, no fewer are kept.
LEMMA FittingKeepsBeginning ==
    ASSUME NEW s \in Seq(AllFields), NEW t \in Seq(AllFields), Begins(s, t),
           NEW a \in Nat, NEW b \in Nat, a <= b
    PROVE  Begins(Fitting(s, a).table, Fitting(t, b).table)
<1>1. Len(s) \in Nat /\ Len(t) \in Nat
    OBVIOUS
<1>2. Len(s) <= Len(t) /\ \A i \in 1 .. Len(s) : s[i] = t[i]
    BY Zenon, BeginsAgree
<1>3. PICK p : IsSums(p, t)
    BY Zenon, SumRuns
<1>4. /\ p \in [0 .. Len(t) -> Nat] /\ p[0] = 0
      /\ \A i \in 1 .. Len(t) : p[i] = p[i - 1] + SizeOf(t[i])
    BY Zenon, <1>3 DEF IsSums
<1> DEFINE q == [i \in 0 .. Len(s) |-> p[i]]
<1>5. IsSums(q, s)
    <2>1. q \in [0 .. Len(s) -> Nat] /\ q[0] = 0
        BY <1>1, <1>2, <1>4
    <2>2. ASSUME NEW i \in 1 .. Len(s) PROVE q[i] = q[i - 1] + SizeOf(s[i])
        <3>1. i \in 0 .. Len(s) /\ i - 1 \in 0 .. Len(s) /\ i \in 1 .. Len(t)
            BY <1>1, <1>2
        <3> QED BY Zenon, <1>2, <1>4, <3>1
    <2> QED BY Zenon, <2>1, <2>2 DEF IsSums
<1>6. q \in [0 .. Len(s) -> Nat] /\ q[0] = 0
    BY Zenon, <1>5 DEF IsSums
<1>7. \A i \in 0 .. Len(s) : q[i] = p[i]
    BY Zenon
<1> HIDE DEF q
<1>8. PICK m : IsLongest(m, q, Len(s), a)
    BY Zenon, <1>1, <1>6, LongestExists
<1>9. PICK k : IsLongest(k, p, Len(t), b)
    BY Zenon, <1>1, <1>4, LongestExists
<1>10. Fitting(s, a) = Cut(s, q, m, a) /\ Fitting(t, b) = Cut(t, p, k, b)
    BY Zenon, <1>3, <1>5, <1>8, <1>9, FittingIs
<1>11. m \in 0 .. Len(s) /\ q[m] <= a /\ k \in 0 .. Len(t)
       /\ \A j \in 0 .. Len(t) : p[j] <= b => j <= k
    BY Zenon, <1>8, <1>9 DEF IsLongest
<1>12. m \in 0 .. Len(t) /\ m <= k
    <2>1. m \in 0 .. Len(t)
        BY <1>1, <1>2, <1>11
    <2>2. p[m] = q[m] /\ p[m] \in Nat
        BY Zenon, <1>4, <1>7, <1>11, <2>1
    <2>3. p[m] <= b
        BY <1>11, <2>2
    <2> QED BY Zenon, <1>11, <2>1, <2>3
<1> DEFINE x == SubSeq(s, 1, m)
           y == SubSeq(t, 1, k)
<1>13. x \in Seq(AllFields) /\ Len(x) = m /\ \A i \in 1 .. m : x[i] = s[i]
    BY Zenon, <1>11, PrefixType
<1>14. y \in Seq(AllFields) /\ Len(y) = k /\ \A i \in 1 .. k : y[i] = t[i]
    BY Zenon, <1>11, PrefixType
<1>15. ASSUME NEW i \in 1 .. m PROVE x[i] = y[i]
    <2>1. i \in 1 .. Len(s) /\ i \in 1 .. k
        BY <1>1, <1>11, <1>12
    <2> HIDE DEF x, y
    <2> QED BY Zenon, <1>2, <1>13, <1>14, <2>1
<1>16. Begins(x, y)
    <2> HIDE DEF x, y
    <2> QED BY Zenon, <1>12, <1>13, <1>14, <1>15, BeginsIs
<1>17. Fitting(s, a).table = x /\ Fitting(t, b).table = y
    <2>1. Cut(s, q, m, a).table = x /\ Cut(t, p, k, b).table = y
        BY Zenon DEF Cut
    <2> QED BY Zenon, <1>10, <2>1
<1> QED BY Zenon, <1>16, <1>17

-----------------------------------------------------------------------------
(* The two tables together, and what find_header finds in them.            *)

\* The index space: the static table, then the dynamic one.
LEMMA EntriesType ==
    ASSUME NEW t \in Tables
    PROVE  /\ Entries(t) \in Seq(AllFields)
           /\ Len(Entries(t)) \in Nat /\ Len(Entries(t)) = Len(STATIC_TABLE) + Len(t.table)
           /\ DOMAIN Entries(t) = 1 .. Len(Entries(t))
           /\ \A i \in 1 .. Len(STATIC_TABLE) : Entries(t)[i] = STATIC_TABLE[i]
           /\ \A i \in 1 .. Len(t.table) : Entries(t)[i + Len(STATIC_TABLE)] = t.table[i]
<1>1. t.table \in Seq(AllFields) /\ STATIC_TABLE \in Seq(AllFields)
    BY Zenon, TableType, WidthAssumption
<1> QED BY <1>1 DEF Entries

\* An index means the same in a table and in one it begins.
LEMMA EntriesAgree ==
    ASSUME NEW e \in Tables, NEW d \in Tables, Begins(e.table, d.table),
           NEW i \in 1 .. Len(Entries(e))
    PROVE  i \in 1 .. Len(Entries(d)) /\ Entries(d)[i] = Entries(e)[i]
<1>1. /\ Len(Entries(e)) = Len(STATIC_TABLE) + Len(e.table)
      /\ \A k \in 1 .. Len(STATIC_TABLE) : Entries(e)[k] = STATIC_TABLE[k]
      /\ \A k \in 1 .. Len(e.table) : Entries(e)[k + Len(STATIC_TABLE)] = e.table[k]
    BY Zenon, EntriesType
<1>2. /\ Len(Entries(d)) = Len(STATIC_TABLE) + Len(d.table)
      /\ \A k \in 1 .. Len(STATIC_TABLE) : Entries(d)[k] = STATIC_TABLE[k]
      /\ \A k \in 1 .. Len(d.table) : Entries(d)[k + Len(STATIC_TABLE)] = d.table[k]
    BY Zenon, EntriesType
<1>3. e.table \in Seq(AllFields) /\ d.table \in Seq(AllFields)
    BY Zenon, TableType
<1>4. Len(e.table) <= Len(d.table) /\ \A k \in 1 .. Len(e.table) : e.table[k] = d.table[k]
    BY Zenon, <1>3, BeginsAgree
<1>5. Len(e.table) \in Nat /\ Len(d.table) \in Nat /\ Len(STATIC_TABLE) \in Nat
    BY <1>3, WidthAssumption
<1>6. i \in 1 .. Len(Entries(d))
    BY <1>1, <1>2, <1>4, <1>5
<1>7. CASE i \in 1 .. Len(STATIC_TABLE)
    BY Zenon, <1>1, <1>2, <1>6, <1>7
<1>8. CASE i \notin 1 .. Len(STATIC_TABLE)
    <2> DEFINE k == i - Len(STATIC_TABLE)
    <2>1. k \in 1 .. Len(e.table) /\ k \in 1 .. Len(d.table) /\ i = k + Len(STATIC_TABLE)
        BY <1>1, <1>4, <1>5, <1>8
    <2> HIDE DEF k
    <2> QED BY Zenon, <1>1, <1>2, <1>4, <1>6, <2>1
<1> QED BY Zenon, <1>7, <1>8

\* find_header finds the field, or its name, or nothing.
LEMMA FindHeader ==
    ASSUME NEW t \in Tables, NEW f \in AllFields
    PROVE  \/ \E i \in 1 .. Len(Entries(t)) : Entries(t)[i] = f /\ find_header(t, f) = <<i, TRUE>>
           \/ \E i \in 1 .. Len(Entries(t)) :
                 Entries(t)[i][1] = f[1] /\ find_header(t, f) = <<i, FALSE>>
           \/ /\ find_header(t, f) = <<0, FALSE>>
              /\ \A i \in 1 .. Len(Entries(t)) : Entries(t)[i][1] # f[1]
<1> DEFINE full == {i \in DOMAIN Entries(t) : Entries(t)[i] = f}
           named == {i \in DOMAIN Entries(t) : Entries(t)[i][1] = f[1]}
           first == CHOOSE i \in full : \A j \in full : i <= j
           last == CHOOSE i \in named : \A j \in named : i >= j
<1>1. find_header(t, f) = IF full # {} THEN <<first, TRUE>>
                          ELSE IF named # {} THEN <<last, FALSE>> ELSE <<0, FALSE>>
    BY Zenon DEF find_header
<1>2. DOMAIN Entries(t) = 1 .. Len(Entries(t)) /\ Len(Entries(t)) \in Nat
    BY Zenon, EntriesType
<1>3. CASE full # {}
    <2>1. full \in SUBSET Nat
        BY <1>2
    <2>2. first \in full
        <3> HIDE DEF full
        <3>1. \E i \in full : \A j \in full : i <= j
            BY Zenon, <1>3, <2>1, LeastNatural
        <3> QED BY Zenon, <3>1
    <2>3. find_header(t, f) = <<first, TRUE>>
        BY Zenon, <1>1, <1>3
    <2> HIDE DEF first
    <2> QED BY Zenon, <1>2, <2>2, <2>3
<1>4. CASE full = {} /\ named # {}
    <2>1. named \in SUBSET (0 .. Len(Entries(t)))
        BY <1>2
    <2>2. last \in named
        <3> HIDE DEF named
        <3>1. PICK i \in named : \A j \in named : j <= i
            BY Zenon, <1>2, <1>4, <2>1, GreatestUpTo
        <3>2. \A j \in named : i >= j
            BY Zenon, <3>1
        <3> QED BY Zenon, <3>2
    <2>3. find_header(t, f) = <<last, FALSE>>
        BY Zenon, <1>1, <1>4
    <2> HIDE DEF last
    <2> QED BY Zenon, <1>2, <2>2, <2>3
<1>5. CASE full = {} /\ named = {}
    <2>1. find_header(t, f) = <<0, FALSE>>
        BY Zenon, <1>1, <1>5
    <2> QED BY Zenon, <1>2, <1>5, <2>1
<1> QED BY Zenon, <1>3, <1>4, <1>5

-----------------------------------------------------------------------------
(* Integers.                                                               *)

\* Division with remainder.
LEMMA Division ==
    ASSUME NEW v \in Nat, NEW b \in Nat \ {0}
    PROVE  v \div b \in Nat /\ v % b \in 0 .. b - 1 /\ v = b * (v \div b) + (v % b)
OBVIOUS

\* Dividing by two or more makes a number that is not small smaller.
LEMMA QuotientIsSmaller ==
    ASSUME NEW v \in Nat, NEW b \in Nat \ {0, 1}, v >= b
    PROVE  v \div b \in Nat /\ v \div b < v
<1>1. v \div b \in Nat /\ v % b \in 0 .. b - 1 /\ v = b * (v \div b) + (v % b)
    BY Zenon, Division
<1> DEFINE q == v \div b
<1> HIDE DEF q
<1>2. b * q >= 2 * q
    BY <1>1 DEF q
<1> QED BY <1>1, <1>2 DEF q

\* The remainder does not change with another b.
LEMMA RemainderOf ==
    ASSUME NEW b \in Nat \ {0, 1}, NEW r \in 0 .. b - 1
    PROVE  r % b = r /\ (r + b) % b = r
<1>1. ASSUME NEW v \in {r, r + b} PROVE v % b = r
    <2> DEFINE q == v \div b
               m == v % b
    <2>1. v \in Nat
        OBVIOUS
    <2>2. q \in Nat /\ m \in 0 .. b - 1 /\ v = b * q + m
        BY Zenon, <2>1, Division
    <2> HIDE DEF q, m
    <2>3. q = 0 \/ q = 1 \/ q >= 2
        BY <2>2
    <2>4. (q = 0 => b * q = 0) /\ (q = 1 => b * q = b) /\ (q >= 2 => b * q >= b * 2)
        BY <2>2
    <2>5. m = r
        BY <2>2, <2>3, <2>4
    <2> QED BY <2>5 DEF m
<1> QED BY Zenon, <1>1

\* One step of the recursion that Digits is.
DigitsFrom(g, v) == IF v >= Base THEN <<(v % Base) + Base>> \o g[v \div Base] ELSE <<v>>

\* The recursion of encode_integer_into ends: its function is defined.
LEMMA DigitsIs ==
    \A v \in Nat : Digits[v] = DigitsFrom(Digits, v)
<1> DEFINE Sol(g, n) == g = [v \in 0 .. n |-> DigitsFrom(g, v)]
<1>1. ASSUME NEW v \in Nat, v >= Base
      PROVE  v \div Base \in 0 .. v - 1
    BY <1>1, QuotientIsSmaller, WidthAssumption
<1>2. ASSUME NEW n \in Nat PROVE \E g : Sol(g, n)
    <2> DEFINE T == {k \in 0 .. n : \E g : Sol(g, k)}
    <2>1. 0 \in T
        <3>1. ~(0 >= Base)
            BY WidthAssumption
        <3>2. \A v \in 0 .. 0 : v = 0
            OBVIOUS
        <3>3. Sol([v \in 0 .. 0 |-> <<0>>], 0)
            BY Zenon, <3>1, <3>2 DEF DigitsFrom
        <3>4. 0 \in 0 .. n
            OBVIOUS
        <3> HIDE DEF Sol
        <3> QED BY Zenon, <3>3, <3>4
    <2>2. ASSUME NEW k \in 1 .. n, k - 1 \in T PROVE k \in T
        <3>1. PICK g : Sol(g, k - 1)
            BY Zenon, <2>2
        <3> DEFINE h == [v \in 0 .. k |-> IF v = k THEN DigitsFrom(g, k) ELSE g[v]]
        <3>2. ASSUME NEW v \in 0 .. k PROVE h[v] = DigitsFrom(h, v)
            <4>1. v >= Base => v \div Base \in 0 .. k /\ v \div Base # k
                BY <1>1
            <4>2. v >= Base => h[v \div Base] = g[v \div Base]
                BY Zenon, <4>1
            <4>3. DigitsFrom(h, v) = DigitsFrom(g, v)
                <5> HIDE DEF h
                <5> QED BY Zenon, <4>2 DEF DigitsFrom
            <4>4. v # k => v \in 0 .. k - 1
                OBVIOUS
            <4>5. v # k => g[v] = DigitsFrom(g, v)
                BY Zenon, <3>1, <4>4
            <4> QED BY Zenon, <4>3, <4>5
        <3>3. h = [v \in 0 .. k |-> h[v]]
            BY Zenon
        <3> HIDE DEF h
        <3>4. Sol(h, k)
            BY Zenon, <3>2, <3>3
        <3>5. k \in 0 .. n
            OBVIOUS
        <3> HIDE DEF Sol
        <3> QED BY Zenon, <3>4, <3>5
    <2>3. n \in 0 .. n
        OBVIOUS
    <2>4. n \in T
        <3> HIDE DEF T
        <3> QED BY Zenon, <2>1, <2>2, <2>3, UpTo
    <2> QED BY Zenon, <2>4
<1>3. ASSUME NEW n \in Nat, NEW m \in 0 .. n, NEW g, NEW h, Sol(g, m), Sol(h, n)
      PROVE  g[m] = h[m]
    <2> DEFINE T == {v \in 0 .. m : g[v] # h[v]}
    <2>1. CASE T = {}
        <3>1. m \in 0 .. m
            OBVIOUS
        <3> QED BY Zenon, <2>1, <3>1
    <2>2. CASE T # {}
        <3>1. T \in SUBSET Nat
            OBVIOUS
        <3>2. PICK v \in T : \A w \in T : v <= w
            <4> HIDE DEF T
            <4> QED BY Zenon, <2>2, <3>1, LeastNatural
        <3>3. v \in 0 .. m /\ v \in 0 .. n /\ g[v] # h[v]
            BY <3>2
        <3>4. g[v] = DigitsFrom(g, v) /\ h[v] = DigitsFrom(h, v)
            BY Zenon, <1>3, <3>3
        <3>5. v >= Base => v \div Base \in 0 .. m /\ ~(v <= v \div Base)
            BY <1>1, <3>3
        <3>6. v >= Base => g[v \div Base] = h[v \div Base]
            BY Zenon, <3>2, <3>5
        <3>7. DigitsFrom(g, v) = DigitsFrom(h, v)
            BY Zenon, <3>6 DEF DigitsFrom
        <3> QED BY Zenon, <3>3, <3>4, <3>7
    <2> QED BY Zenon, <2>1, <2>2
<1> DEFINE sol(n) == CHOOSE g : Sol(g, n)
           F == [v \in Nat |-> sol(v)[v]]
<1>4. ASSUME NEW n \in Nat PROVE Sol(sol(n), n)
    <2> HIDE DEF Sol
    <2> QED BY Zenon, <1>2
<1>5. ASSUME NEW v \in Nat PROVE F[v] = DigitsFrom(F, v)
    <2>1. v \in 0 .. v
        OBVIOUS
    <2>2. sol(v)[v] = DigitsFrom(sol(v), v)
        <3>1. Sol(sol(v), v)
            BY Zenon, <1>4
        <3> HIDE DEF sol
        <3> QED BY Zenon, <2>1, <3>1
    <2>3. ASSUME v >= Base PROVE sol(v)[v \div Base] = F[v \div Base]
        <3> DEFINE w == v \div Base
        <3>1. w \in Nat /\ w \in 0 .. v
            BY <1>1, <2>3
        <3> HIDE DEF w
        <3>2. Sol(sol(v), v) /\ Sol(sol(w), w)
            BY Zenon, <1>4, <3>1
        <3>3. sol(w)[w] = sol(v)[w]
            <4> HIDE DEF sol, Sol
            <4> QED BY Zenon, <1>3, <3>1, <3>2
        <3>4. F[w] = sol(w)[w]
            <4> HIDE DEF sol
            <4> QED BY Zenon, <3>1
        <3> HIDE DEF F, sol
        <3> QED BY Zenon, <3>3, <3>4 DEF w
    <2>4. F[v] = sol(v)[v]
        <3> HIDE DEF sol
        <3> QED BY Zenon
    <2>5. DigitsFrom(sol(v), v) = DigitsFrom(F, v)
        <3> HIDE DEF F, sol
        <3> QED BY Zenon, <2>3 DEF DigitsFrom
    <2> HIDE DEF F, sol
    <2> QED BY Zenon, <2>2, <2>4, <2>5
<1>6. F = [v \in Nat |-> F[v]]
    <2> HIDE DEF sol
    <2> QED BY Zenon
<1> HIDE DEF F
<1>7. F = [v \in Nat |-> DigitsFrom(F, v)]
    BY Zenon, <1>5, <1>6
<1> DEFINE D == CHOOSE g : g = [v \in Nat |-> DigitsFrom(g, v)]
<1>8. D = [v \in Nat |-> DigitsFrom(D, v)]
    BY Zenon, <1>7
<1>9. D = Digits
    BY Zenon DEF Digits, DigitsFrom
<1> HIDE DEF D
<1>10. \A v \in Nat : D[v] = DigitsFrom(D, v)
    BY Zenon, <1>8
<1> QED BY Zenon, <1>9, <1>10

\* A sequence, the last element first.
Reversed(s) == [i \in 1 .. Len(s) |-> s[Len(s) + 1 - i]]

\* The digits of v: the last one alone is below Base, and together they are v.
AreDigits(d, v) ==
    /\ d \in Seq(Nat) /\ Len(d) >= 1 /\ d[Len(d)] < Base
    /\ \A i \in 1 .. Len(d) - 1 : d[i] >= Base
    /\ ValueOf(Reversed(d)) = v

\* The elements of a reversed sequence.
LEMMA ReversedType ==
    ASSUME NEW S, NEW s \in Seq(S)
    PROVE  Reversed(s) \in Seq(S) /\ Len(Reversed(s)) = Len(s)
           /\ \A i \in 1 .. Len(s) : Reversed(s)[i] = s[Len(s) + 1 - i]
BY DEF Reversed

\* Reversing moves the first element to the end.
LEMMA ReversedCons ==
    ASSUME NEW S, NEW s \in Seq(S), NEW x \in S
    PROVE  Reversed(<<x>> \o s) = Append(Reversed(s), x)
<1> DEFINE u == <<x>> \o s
           r == Reversed(u)
           q == Append(Reversed(s), x)
<1>1. Len(s) \in Nat
    OBVIOUS
<1>2. /\ u \in Seq(S) /\ Len(u) = Len(s) + 1 /\ u[1] = x
      /\ \A i \in 2 .. Len(s) + 1 : u[i] = s[i - 1]
    BY ConsType
<1>3. r \in Seq(S) /\ Len(r) = Len(u) /\ \A i \in 1 .. Len(u) : r[i] = u[Len(u) + 1 - i]
    <2> HIDE DEF u
    <2> QED BY Zenon, <1>2, ReversedType
<1>4. /\ Reversed(s) \in Seq(S) /\ Len(Reversed(s)) = Len(s)
      /\ \A i \in 1 .. Len(s) : Reversed(s)[i] = s[Len(s) + 1 - i]
    BY Zenon, ReversedType
<1>5. /\ q \in Seq(S) /\ Len(q) = Len(s) + 1 /\ q[Len(s) + 1] = x
      /\ \A i \in 1 .. Len(s) : q[i] = Reversed(s)[i]
    BY <1>4
<1> HIDE DEF u, q, r
<1>6. ASSUME NEW i \in 1 .. Len(s) + 1 PROVE r[i] = q[i]
    <2> DEFINE j == Len(u) + 1 - i
    <2>1. r[i] = u[j]
        BY Zenon, <1>2, <1>3
    <2>2. CASE i = Len(s) + 1
        <3>1. j = 1
            BY <1>1, <1>2, <2>2
        <3> HIDE DEF j
        <3> QED BY Zenon, <1>2, <1>5, <2>1, <2>2, <3>1
    <2>3. CASE i # Len(s) + 1
        <3>1. i \in 1 .. Len(s) /\ j \in 2 .. Len(s) + 1 /\ j - 1 = Len(s) + 1 - i
            BY <1>1, <1>2, <2>3
        <3> HIDE DEF j
        <3> QED BY Zenon, <1>2, <1>4, <1>5, <2>1, <3>1
    <2> QED BY Zenon, <2>2, <2>3
<1>7. r = q
    BY <1>2, <1>3, <1>5, <1>6
<1> QED BY Zenon, <1>7 DEF r, q, u

\* Digits[v] are digits of v, for every v.
LEMMA DigitsAre ==
    ASSUME NEW v \in Nat
    PROVE  AreDigits(Digits[v], v)
<1> DEFINE T == {w \in Nat : ~AreDigits(Digits[w], w)}
<1> SUFFICES ASSUME T # {} PROVE FALSE
    BY Zenon
<1>1. T \in SUBSET Nat
    OBVIOUS
<1>2. PICK n \in T : \A w \in T : n <= w
    <2> HIDE DEF T
    <2> QED BY Zenon, <1>1, LeastNatural
<1>3. n \in Nat /\ ~AreDigits(Digits[n], n) /\ Digits[n] = DigitsFrom(Digits, n)
    BY Zenon, <1>2, DigitsIs
<1>4. Base \in Nat \ {0, 1}
    BY Zenon, WidthAssumption
<1>5. CASE n >= Base
    <2> DEFINE w == n \div Base
               r == n % Base
               e == Digits[w]
               x == r + Base
               d == <<x>> \o e
    <2>1. w \in Nat /\ ~(n <= w)
        BY <1>3, <1>4, <1>5, QuotientIsSmaller
    <2>2. r \in 0 .. Base - 1 /\ n = Base * w + r
        BY <1>3, <1>4, Division
    <2>3. x \in Nat /\ x >= Base /\ x % Base = r
        <3> HIDE DEF r, w
        <3>1. x \in Nat /\ x >= Base
            BY <1>4, <2>2
        <3>2. x % Base = r
            BY Zenon, <1>4, <2>2, RemainderOf
        <3> QED BY Zenon, <3>1, <3>2
    <2>4. Digits[n] = d
        BY Zenon, <1>3, <1>5 DEF DigitsFrom
    <2> HIDE DEF w, r, x
    <2>5. AreDigits(e, w)
        BY Zenon, <1>2, <2>1
    <2>6. /\ e \in Seq(Nat) /\ Len(e) >= 1 /\ e[Len(e)] < Base
          /\ \A i \in 1 .. Len(e) - 1 : e[i] >= Base
          /\ ValueOf(Reversed(e)) = w
        BY Zenon, <2>5 DEF AreDigits
    <2> HIDE DEF e
    <2>7. /\ d \in Seq(Nat) /\ Len(d) = Len(e) + 1 /\ d[1] = x
          /\ \A i \in 2 .. Len(e) + 1 : d[i] = e[i - 1]
        BY <2>3, <2>6, ConsType
    <2>8. Len(e) \in Nat
        BY <2>6
    <2>9. ValueOf(Reversed(d)) = n
        <3>1. Reversed(d) = Append(Reversed(e), x) /\ Reversed(e) \in Seq(Nat)
            BY Zenon, <2>3, <2>6, ReversedCons, ReversedType
        <3>2. ValueOf(Append(Reversed(e), x)) = (x % Base) + Base * ValueOf(Reversed(e))
            BY Zenon, <2>3, <3>1, ValueOfOf
        <3>3. ValueOf(Reversed(d)) = r + Base * w
            BY Zenon, <2>3, <2>6, <3>1, <3>2
        <3>4. r + Base * w = Base * w + r
            BY <1>4, <2>1, <2>2
        <3> QED BY Zenon, <2>2, <3>3, <3>4
    <2> HIDE DEF d
    <2>10. d[Len(d)] < Base /\ Len(d) >= 1
        <3>1. Len(d) \in 2 .. Len(e) + 1 /\ Len(d) - 1 = Len(e) /\ Len(d) >= 1
            BY <2>6, <2>7, <2>8
        <3> QED BY Zenon, <2>6, <2>7, <3>1
    <2>11. ASSUME NEW i \in 1 .. Len(d) - 1 PROVE d[i] >= Base
        <3>1. CASE i = 1
            BY Zenon, <2>3, <2>7, <3>1
        <3>2. CASE i # 1
            <4>1. i \in 2 .. Len(e) + 1 /\ i - 1 \in 1 .. Len(e) - 1
                BY <2>7, <2>8, <3>2
            <4> QED BY Zenon, <2>6, <2>7, <4>1
        <3> QED BY Zenon, <3>1, <3>2
    <2>12. AreDigits(d, n)
        BY Zenon, <2>7, <2>9, <2>10, <2>11 DEF AreDigits
    <2> QED BY Zenon, <1>3, <2>4, <2>12
<1>6. CASE ~(n >= Base)
    <2>1. Digits[n] = <<n>>
        BY Zenon, <1>3, <1>6 DEF DigitsFrom
    <2>2. n \in 0 .. Base - 1 /\ n < Base
        BY <1>3, <1>4, <1>6
    <2>3. <<n>> \in Seq(Nat) /\ Len(<<n>>) = 1 /\ <<n>>[1] = n
        BY <1>3
    <2>4. Reversed(<<n>>) = Append(<<>>, n) /\ <<>> \in Seq(Nat)
        BY <1>3 DEF Reversed
    <2>5. ValueOf(Append(<<>>, n)) = (n % Base) + Base * ValueOf(<<>>) /\ ValueOf(<<>>) = 0
        BY Zenon, <1>3, <2>4, ValueOfOf
    <2>6. n % Base = n
        BY <1>4, <2>2, RemainderOf
    <2>7. n + Base * 0 = n
        BY <1>3, <1>4
    <2>8. ValueOf(Reversed(<<n>>)) = n
        BY Zenon, <2>4, <2>5, <2>6, <2>7
    <2>9. 1 >= 1 /\ \A i \in 1 .. 1 - 1 : FALSE
        OBVIOUS
    <2>10. AreDigits(<<n>>, n)
        BY Zenon, <2>2, <2>3, <2>8, <2>9 DEF AreDigits
    <2> QED BY Zenon, <1>3, <2>1, <2>10
<1> QED BY Zenon, <1>5, <1>6

\* Values never leave Nat.
LEMMA ValueType ==
    ASSUME NEW d \in Seq(Nat)
    PROVE  ValueOf(d) \in Nat
<1> DEFINE T == {s \in Seq(Nat) : ValueOf(s) \in Nat}
<1>1. <<>> \in T
    <2>1. <<>> \in Seq(Nat) /\ 0 \in Nat
        OBVIOUS
    <2> QED BY Zenon, <2>1, ValueOfOf
<1>2. ASSUME NEW s \in Seq(Nat), NEW x \in Nat, s \in T PROVE Append(s, x) \in T
    <2>1. ValueOf(Append(s, x)) = (x % Base) + Base * ValueOf(s)
        BY Zenon, ValueOfOf
    <2>2. Base \in Nat \ {0, 1} /\ Append(s, x) \in Seq(Nat) /\ ValueOf(s) \in Nat
        BY <1>2, WidthAssumption
    <2>3. x % Base \in Nat
        BY <2>2, Division
    <2>4. \A r, b, q \in Nat : r + b * q \in Nat
        OBVIOUS
    <2>5. Base \in Nat
        BY <2>2
    <2>6. (x % Base) + Base * ValueOf(s) \in Nat
        BY Zenon, <2>2, <2>3, <2>4, <2>5
    <2> QED BY Zenon, <2>1, <2>2, <2>6
<1>3. d \in T
    <2> HIDE DEF T
    <2> QED BY Zenon, <1>1, <1>2, BySnoc
<1> QED BY Zenon, <1>3

\* The octets of an integer as they are written.
Octets == {o \in Seq(Nat) : o # <<>>}

\* Whatever the octets are, decode_integer gives a number.
LEMMA DecodeIntegerType ==
    ASSUME NEW o \in Octets, NEW mask \in Nat
    PROVE  decode_integer(o, mask).value \in Nat
<1> DEFINE final == {i \in 2 .. Len(o) : i <= OctetLimit /\ o[i] < Base}
           last == CHOOSE i \in final : \A j \in final : i <= j
           code == IF Len(o) >= OctetLimit THEN "TooManyOctets" ELSE "NotEnoughOctets"
<1>1. decode_integer(o, mask) =
        IF o[1] < mask THEN [value |-> o[1], consumed |-> 1, error |-> "none"]
        ELSE IF final # {} THEN [value |-> ValueUpTo(o, last), consumed |-> last, error |-> "none"]
        ELSE [value |-> 0, consumed |-> 0, error |-> code]
    BY Zenon DEF decode_integer
<1>2. o \in Seq(Nat) /\ Len(o) \in Nat /\ Len(o) >= 1 /\ o[1] \in Nat
    BY DEF Octets
<1>5. o[1] < mask => decode_integer(o, mask).value \in Nat
    <2>1. o[1] < mask => decode_integer(o, mask) = [value |-> o[1], consumed |-> 1, error |-> "none"]
        <3> HIDE DEF final, last
        <3> QED BY Zenon, <1>1
    <2> QED BY <1>2, <2>1
<1>3. CASE final # {}
    <2>1. final \in SUBSET Nat
        BY <1>2
    <2>2. \E i \in final : \A j \in final : i <= j
        <3> HIDE DEF final
        <3> QED BY Zenon, <1>3, <2>1, LeastNatural
    <2>3. last \in final
        <3> HIDE DEF final
        <3> QED BY Zenon, <2>2
    <2>4. last \in 2 .. Len(o)
        BY Zenon, <2>3
    <2> HIDE DEF last, final
    <2> DEFINE d == [i \in 1 .. last - 1 |-> o[last + 1 - i]]
    <2>5. d \in Seq(Nat)
        BY <1>2, <2>4
    <2>6. ValueUpTo(o, last) = ValueOf(d) + o[1]
        BY Zenon DEF ValueUpTo, ValueOf
    <2> HIDE DEF d
    <2>7. ValueOf(d) \in Nat
        BY Zenon, <2>5, ValueType
    <2>8. ValueUpTo(o, last) \in Nat
        BY <1>2, <2>6, <2>7
    <2>9. o[1] < mask \/ decode_integer(o, mask) =
                           [value |-> ValueUpTo(o, last), consumed |-> last, error |-> "none"]
        BY Zenon, <1>1, <1>3
    <2> QED BY <1>5, <2>8, <2>9
<1>4. CASE final = {}
    <2>1. o[1] < mask \/ decode_integer(o, mask) = [value |-> 0, consumed |-> 0, error |-> code]
        <3> HIDE DEF final, last
        <3> QED BY Zenon, <1>1, <1>4
    <2>2. 0 \in Nat
        OBVIOUS
    <2> HIDE DEF code
    <2> QED BY <1>5, <2>1, <2>2
<1> QED BY Zenon, <1>3, <1>4

\* What decode_integer makes of what encode_integer wrote: the same number, or
\* an error if there were too many octets.
LEMMA IntegerRoundTrip ==
    ASSUME NEW v \in Nat, NEW mask \in Nat
    PROVE  /\ encode_integer(v, mask) \in Octets
           /\ Len(encode_integer(v, mask)) <= OctetLimit =>
                decode_integer(encode_integer(v, mask), mask) =
                  [value |-> v, consumed |-> Len(encode_integer(v, mask)), error |-> "none"]
           /\ ~(Len(encode_integer(v, mask)) <= OctetLimit) =>
                decode_integer(encode_integer(v, mask), mask).error # "none"
<1> DEFINE o == encode_integer(v, mask)
           final == {i \in 2 .. Len(o) : i <= OctetLimit /\ o[i] < Base}
           last == CHOOSE i \in final : \A j \in final : i <= j
           code == IF Len(o) >= OctetLimit THEN "TooManyOctets" ELSE "NotEnoughOctets"
<1>1. decode_integer(o, mask) =
        IF o[1] < mask THEN [value |-> o[1], consumed |-> 1, error |-> "none"]
        ELSE IF final # {} THEN [value |-> ValueUpTo(o, last), consumed |-> last, error |-> "none"]
        ELSE [value |-> 0, consumed |-> 0, error |-> code]
    BY Zenon DEF decode_integer
<1>2. OctetLimit \in Nat /\ 1 <= OctetLimit /\ Base \in Nat
    BY WidthAssumption
<1>3. CASE v < mask
    <2>1. o = <<v>>
        BY Zenon, <1>3 DEF encode_integer
    <2> HIDE DEF o, final, last, code
    <2>2. o \in Octets /\ Len(o) = 1 /\ o[1] = v
        BY <2>1 DEF Octets
    <2>3. decode_integer(o, mask) = [value |-> v, consumed |-> 1, error |-> "none"]
        BY Zenon, <1>1, <1>3, <2>2
    <2>4. Len(o) <= OctetLimit
        BY Zenon, <1>2, <2>2
    <2> QED BY Zenon, <2>2, <2>3, <2>4 DEF o
<1>4. CASE ~(v < mask)
    <2> DEFINE w == v - mask
               d == Digits[w]
    <2>1. w \in Nat /\ w + mask = v
        BY <1>4
    <2>2. o = <<mask>> \o d
        BY Zenon, <1>4 DEF encode_integer
    <2>3. AreDigits(d, w)
        <3> HIDE DEF w
        <3> QED BY Zenon, <2>1, DigitsAre
    <2>4. /\ d \in Seq(Nat) /\ Len(d) >= 1 /\ d[Len(d)] < Base
          /\ \A i \in 1 .. Len(d) - 1 : d[i] >= Base
          /\ ValueOf(Reversed(d)) = w
        BY Zenon, <2>3 DEF AreDigits
    <2> HIDE DEF o, d, w
    <2>5. /\ o \in Seq(Nat) /\ Len(o) = Len(d) + 1 /\ o[1] = mask
          /\ \A i \in 2 .. Len(d) + 1 : o[i] = d[i - 1]
        BY <2>2, <2>4, ConsType
    <2>6. Len(d) \in Nat /\ Len(o) \in 2 .. Len(d) + 1 /\ Len(o) - 1 = Len(d)
          /\ o # <<>> /\ ~(mask < mask)
        BY <2>4, <2>5
    <2>7. o \in Octets
        BY Zenon, <2>5, <2>6 DEF Octets
    <2>8. ASSUME NEW i \in final PROVE i = Len(o)
        <3>1. i \in 2 .. Len(d) + 1 /\ i - 1 \in 1 .. Len(d) /\ o[i] < Base
            BY <2>5, <2>6
        <3>2. CASE i - 1 \in 1 .. Len(d) - 1
            <4>1. PICK k \in 1 .. Len(d) - 1 : k = i - 1
                BY Zenon, <3>2
            <4>2. o[i] = d[k]
                BY Zenon, <2>5, <3>1, <4>1
            <4>3. d[k] >= Base
                BY Zenon, <2>4
            <4>4. k \in 1 .. Len(d)
                BY <2>6
            <4>5. d[k] \in Nat
                BY <2>4, <4>4
            <4> QED BY <1>2, <3>1, <4>2, <4>3, <4>5
        <3>3. CASE i - 1 \notin 1 .. Len(d) - 1
            BY <2>5, <2>6, <3>1, <3>3
        <3> QED BY Zenon, <3>2, <3>3
    <2>9. ~(o[1] < mask)
        BY Zenon, <2>5, <2>6
    <2>10. CASE Len(o) <= OctetLimit
        <3>1. Len(o) \in 2 .. Len(o) /\ Len(o) <= Len(o)
            BY <2>5, <2>6
        <3>2. o[Len(o)] < Base
            BY Zenon, <2>4, <2>5, <2>6
        <3>3. Len(o) \in final
            BY Zenon, <2>10, <3>1, <3>2
        <3>4. last = Len(o)
            <4> HIDE DEF final
            <4>1. \A j \in final : Len(o) <= j
                BY Zenon, <2>8, <3>1
            <4> QED BY Zenon, <2>8, <3>3, <4>1
        <3>5. decode_integer(o, mask) =
                [value |-> ValueUpTo(o, Len(o)), consumed |-> Len(o), error |-> "none"]
            <4> HIDE DEF final, last, code
            <4> QED BY Zenon, <1>1, <2>9, <3>3, <3>4
        <3> DEFINE r == [i \in 1 .. Len(o) - 1 |-> o[Len(o) + 1 - i]]
        <3>6. ValueUpTo(o, Len(o)) = ValueOf(r) + o[1]
            BY Zenon DEF ValueUpTo, ValueOf
        <3>7. r = Reversed(d)
            <4>1. ASSUME NEW i \in 1 .. Len(d) PROVE o[Len(o) + 1 - i] = d[Len(d) + 1 - i]
                <5> DEFINE j == Len(o) + 1 - i
                <5>1. j \in 2 .. Len(d) + 1 /\ j - 1 = Len(d) + 1 - i
                    BY <2>5, <2>6
                <5> HIDE DEF j
                <5>2. o[j] = d[Len(d) + 1 - i]
                    BY Zenon, <2>5, <5>1
                <5> QED BY Zenon, <5>2 DEF j
            <4> QED BY Zenon, <2>6, <4>1 DEF Reversed
        <3> HIDE DEF r
        <3>8. ValueUpTo(o, Len(o)) = v
            BY Zenon, <2>1, <2>4, <2>5, <3>6, <3>7
        <3> QED BY Zenon, <2>7, <2>10, <3>5, <3>8 DEF o
    <2>11. CASE ~(Len(o) <= OctetLimit)
        <3>1. final = {}
            BY <2>8, <2>11
        <3>2. decode_integer(o, mask) = [value |-> 0, consumed |-> 0, error |-> code]
            <4> HIDE DEF final, last, code
            <4> QED BY Zenon, <1>1, <2>9, <3>1
        <3>3. code # "none"
            OBVIOUS
        <3> HIDE DEF code
        <3>4. decode_integer(o, mask).error # "none"
            BY <3>2, <3>3
        <3> QED BY Zenon, <2>7, <2>11, <3>4 DEF o
    <2> QED BY Zenon, <2>10, <2>11
<1> QED BY Zenon, <1>3, <1>4

-----------------------------------------------------------------------------
(* Huffman-coded strings.                                                  *)

\* The bits of a Huffman-coded string, and a state of its decoder.
Bits == {0, 1}
Reading(x, y, e) == [string |-> x, current |-> y, error |-> e]

\* Codes are sequences of two bits or more.
LEMMA CodeType ==
    ASSUME NEW c \in Symbols
    PROVE  HUFFMAN_CODE_TABLE[c] \in Seq(Bits) /\ Len(HUFFMAN_CODE_TABLE[c]) \in Nat
           /\ Len(HUFFMAN_CODE_TABLE[c]) > 1
BY CodeAssumption DEF Symbols, Bits

\* One bit: it makes an error of EOS, a symbol of a code, and else is kept.
LEMMA OneBit ==
    ASSUME NEW x, NEW y, NEW b
    PROVE  /\ Append(y, b) = EndOfString =>
                DecodeBit(Reading(x, y, "none"), b) = Reading(x, y, "EOSInString")
           /\ Append(y, b) # EndOfString /\ (\A c \in Symbols : HUFFMAN_CODE_TABLE[c] # Append(y, b)) =>
                DecodeBit(Reading(x, y, "none"), b) = Reading(x, Append(y, b), "none")
           /\ \A c \in Symbols : Append(y, b) # EndOfString /\ HUFFMAN_CODE_TABLE[c] = Append(y, b) =>
                DecodeBit(Reading(x, y, "none"), b) = Reading(Append(x, c), <<>>, "none")
<1> DEFINE d == Reading(x, y, "none")
           z == Append(d.current, b)
           hit == {s \in DOMAIN HUFFMAN_CODE_TABLE : HUFFMAN_CODE_TABLE[s] = z}
           one == CHOOSE s \in hit : TRUE
<1>1. d.string = x /\ d.current = y /\ d.error = "none"
    BY Zenon DEF Reading
<1>2. /\ [d EXCEPT !.error = "EOSInString"] = Reading(x, y, "EOSInString")
      /\ \A c : [d EXCEPT !.current = <<>>, !.string = Append(@, c)] = Reading(Append(x, c), <<>>, "none")
      /\ \A c : [d EXCEPT !.current = c] = Reading(x, c, "none")
    <2>1. [d EXCEPT !.error = "EOSInString"] = Reading(x, y, "EOSInString")
        BY DEF Reading
    <2>2. ASSUME NEW c PROVE [d EXCEPT !.current = c] = Reading(x, c, "none")
        BY DEF Reading
    <2>3. ASSUME NEW c
          PROVE [d EXCEPT !.current = <<>>, !.string = Append(@, c)] = Reading(Append(x, c), <<>>, "none")
        <3> DEFINE w == Append(x, c)
        <3>1. [d EXCEPT !.current = <<>>, !.string = Append(@, c)] = [d EXCEPT !.current = <<>>, !.string = w]
            BY DEF Reading
        <3> HIDE DEF w
        <3>2. [d EXCEPT !.current = <<>>, !.string = w] = Reading(w, <<>>, "none")
            <4>1. ASSUME NEW e PROVE [d EXCEPT !.current = e, !.string = w] = Reading(w, e, "none")
                <5>1. [d EXCEPT !.current = e, !.string = w] = [[d EXCEPT !.current = e] EXCEPT !.string = w]
                    BY DEF Reading
                <5>2. [Reading(x, e, "none") EXCEPT !.string = w] = Reading(w, e, "none")
                    BY DEF Reading
                <5> HIDE DEF d
                <5> QED BY Zenon, <2>2, <5>1, <5>2
            <4> QED BY Zenon, <4>1
        <3> QED BY Zenon, <3>1, <3>2 DEF w
    <2> QED BY Zenon, <2>1, <2>2, <2>3
<1> HIDE DEF d
<1>3. DecodeBit(d, b) =
        IF d.error # "none" THEN d
        ELSE IF z = EndOfString THEN [d EXCEPT !.error = "EOSInString"]
        ELSE IF hit # {} THEN [d EXCEPT !.current = <<>>, !.string = Append(@, one)]
        ELSE [d EXCEPT !.current = z]
    BY Zenon DEF DecodeBit
<1>4. z = Append(y, b)
    BY Zenon, <1>1
<1>5. z = EndOfString => DecodeBit(d, b) = Reading(x, y, "EOSInString")
    <2> HIDE DEF z, hit, one
    <2> QED BY Zenon, <1>1, <1>2, <1>3
<1>6. z # EndOfString /\ hit = {} => DecodeBit(d, b) = Reading(x, z, "none")
    <2> HIDE DEF z, hit, one
    <2> QED BY Zenon, <1>1, <1>2, <1>3
<1>7. z # EndOfString /\ hit # {} => DecodeBit(d, b) = Reading(Append(x, one), <<>>, "none")
    <2> HIDE DEF z, hit, one
    <2> QED BY Zenon, <1>1, <1>2, <1>3
<1> HIDE DEF z
<1>8. (\A c \in Symbols : HUFFMAN_CODE_TABLE[c] # z) => hit = {}
    BY Zenon DEF Symbols
<1>9. ASSUME NEW c \in Symbols, HUFFMAN_CODE_TABLE[c] = z PROVE hit # {} /\ one = c
    <2>1. c \in hit
        BY Zenon, <1>9 DEF Symbols
    <2>2. one \in hit
        <3> HIDE DEF hit
        <3> QED BY Zenon, <2>1
    <2>3. one \in Symbols /\ HUFFMAN_CODE_TABLE[one] = HUFFMAN_CODE_TABLE[c]
        BY Zenon, <1>9, <2>2 DEF Symbols
    <2> HIDE DEF one
    <2>4. HUFFMAN_CODE_TABLE[c] \in Seq(Bits)
        BY Zenon, CodeType
    <2>5. Begins(HUFFMAN_CODE_TABLE[one], HUFFMAN_CODE_TABLE[c])
        BY <2>3, <2>4 DEF Begins
    <2> QED BY Zenon, <2>1, <2>3, <2>5, CodeAssumption
<1> HIDE DEF hit, one
<1> QED BY Zenon, <1>4, <1>5, <1>6, <1>7, <1>8, <1>9 DEF d

\* A bit that completes EOS is an error.
LEMMA EosBit ==
    ASSUME NEW x, NEW y, NEW b, Append(y, b) = EndOfString
    PROVE  DecodeBit(Reading(x, y, "none"), b) = Reading(x, y, "EOSInString")
BY OneBit

\* A bit that completes no code is kept.
LEMMA KeptBit ==
    ASSUME NEW x, NEW y, NEW b, Append(y, b) # EndOfString,
           \A c \in Symbols : HUFFMAN_CODE_TABLE[c] # Append(y, b)
    PROVE  DecodeBit(Reading(x, y, "none"), b) = Reading(x, Append(y, b), "none")
BY OneBit

\* A bit that completes a code gives its symbol.
LEMMA SymbolBit ==
    ASSUME NEW x, NEW y, NEW b, NEW c \in Symbols, HUFFMAN_CODE_TABLE[c] = Append(y, b),
           Append(y, b) # EndOfString
    PROVE  DecodeBit(Reading(x, y, "none"), b) = Reading(Append(x, c), <<>>, "none")
BY OneBit

\* A beginning of a beginning of s.
LEMMA PrefixOfPrefix ==
    ASSUME NEW S, NEW s \in Seq(S), NEW k \in 0 .. Len(s), NEW i \in 0 .. k
    PROVE  SubSeq(SubSeq(s, 1, k), 1, i) = SubSeq(s, 1, i)
OBVIOUS

\* Bits no beginning of which is a code or EOS are kept.
LEMMA ReadPart ==
    ASSUME NEW u \in Seq(Bits), NEW w \in Seq(Bits), NEW x,
           BitsRead(u) = Reading(x, <<>>, "none"),
           \A i \in 1 .. Len(w) : /\ SubSeq(w, 1, i) # EndOfString
                                   /\ \A c \in Symbols : HUFFMAN_CODE_TABLE[c] # SubSeq(w, 1, i)
    PROVE  BitsRead(u \o w) = Reading(x, w, "none")
<1> DEFINE T == {i \in 0 .. Len(w) :
                   BitsRead(u \o SubSeq(w, 1, i)) = Reading(x, SubSeq(w, 1, i), "none")}
<1>1. 0 \in T
    <2>1. SubSeq(w, 1, 0) = <<>> /\ u \o <<>> = u /\ 0 \in 0 .. Len(w)
        OBVIOUS
    <2> QED BY Zenon, <2>1
<1>2. ASSUME NEW i \in 1 .. Len(w), i - 1 \in T PROVE i \in T
    <2> DEFINE p == SubSeq(w, 1, i - 1)
    <2>1. SubSeq(w, 1, i) = Append(p, w[i]) /\ p \in Seq(Bits) /\ w[i] \in Bits
        BY Zenon, PrefixSnoc
    <2>2. i \in 0 .. Len(w)
        OBVIOUS
    <2>3. BitsRead(u \o p) = Reading(x, p, "none")
        BY Zenon, <1>2
    <2>4. Append(p, w[i]) # EndOfString /\ \A c \in Symbols : HUFFMAN_CODE_TABLE[c] # Append(p, w[i])
        <3> HIDE DEF p
        <3> QED BY Zenon, <2>1
    <2> HIDE DEF p
    <2>5. u \o Append(p, w[i]) = Append(u \o p, w[i]) /\ u \o p \in Seq(Bits)
        BY <2>1
    <2>6. BitsRead(Append(u \o p, w[i])) = DecodeBit(BitsRead(u \o p), w[i])
        BY Zenon, <2>1, <2>5, BitsReadOf
    <2>7. DecodeBit(Reading(x, p, "none"), w[i]) = Reading(x, Append(p, w[i]), "none")
        BY Zenon, <2>4, KeptBit
    <2> QED BY Zenon, <2>1, <2>2, <2>3, <2>5, <2>6, <2>7
<1>3. Len(w) \in T
    <2>1. Len(w) \in Nat /\ Len(w) \in 0 .. Len(w)
        OBVIOUS
    <2> HIDE DEF T
    <2> QED BY Zenon, <1>1, <1>2, <2>1, UpTo
<1>4. SubSeq(w, 1, Len(w)) = w
    OBVIOUS
<1> QED BY Zenon, <1>3, <1>4

\* The bits of a code make its symbol, because no code begins another one.
LEMMA ReadCode ==
    ASSUME NEW u \in Seq(Bits), NEW x, BitsRead(u) = Reading(x, <<>>, "none"), NEW c \in Symbols
    PROVE  BitsRead(u \o HUFFMAN_CODE_TABLE[c]) = Reading(Append(x, c), <<>>, "none")
<1> DEFINE code == HUFFMAN_CODE_TABLE[c]
           n == Len(code)
           w == SubSeq(code, 1, n - 1)
<1>1. code \in Seq(Bits) /\ n \in Nat /\ n > 1
    BY Zenon, CodeType
<1>2. /\ code = Append(w, code[n]) /\ w \in Seq(Bits) /\ code[n] \in Bits /\ Len(w) = n - 1
    <2> HIDE DEF code
    <2> QED BY <1>1
<1>3. EndOfString \in Seq(Bits) /\ ~Begins(EndOfString, code)
      /\ \A d \in Symbols : Begins(HUFFMAN_CODE_TABLE[d], code) => d = c
    BY Zenon, CodeAssumption DEF Bits
<1>4. ASSUME NEW i \in 1 .. Len(w)
      PROVE  /\ SubSeq(w, 1, i) # EndOfString
             /\ \A d \in Symbols : HUFFMAN_CODE_TABLE[d] # SubSeq(w, 1, i)
    <2> HIDE DEF code
    <2>1. SubSeq(w, 1, i) = SubSeq(code, 1, i) /\ Len(SubSeq(code, 1, i)) = i /\ i <= n /\ i # n
        <3>1. n - 1 \in 0 .. Len(code) /\ i \in 0 .. n - 1 /\ i \in 0 .. Len(code) /\ i <= n /\ i # n
            <4>1. Len(w) = n - 1 /\ n = Len(code) /\ n \in Nat
                BY Zenon, <1>1, <1>2
            <4> HIDE DEF w, n
            <4> QED BY <4>1
        <3>2. SubSeq(w, 1, i) = SubSeq(code, 1, i)
            BY Zenon, <1>1, <3>1, PrefixOfPrefix
        <3>3. Len(SubSeq(code, 1, i)) = i
            BY Zenon, <1>1, <3>1, PrefixType
        <3> QED BY Zenon, <3>1, <3>2, <3>3
    <2>2. Begins(SubSeq(w, 1, i), code)
        BY Zenon, <2>1 DEF Begins
    <2>3. Len(SubSeq(w, 1, i)) # n
        BY Zenon, <2>1
    <2> QED BY Zenon, <1>3, <2>2, <2>3 DEF code
<1>5. BitsRead(u \o w) = Reading(x, w, "none")
    <2> HIDE DEF w
    <2> QED BY Zenon, <1>2, <1>4, ReadPart
<1>6. code # EndOfString
    <2> HIDE DEF code
    <2>1. Begins(code, code)
        BY <1>1 DEF Begins
    <2> QED BY Zenon, <1>3, <2>1
<1>7. DecodeBit(Reading(x, w, "none"), code[n]) = Reading(Append(x, c), <<>>, "none")
    <2> HIDE DEF w, n
    <2>1. HUFFMAN_CODE_TABLE[c] = Append(w, code[n]) /\ Append(w, code[n]) # EndOfString
        BY Zenon, <1>2, <1>6
    <2> HIDE DEF code
    <2> QED BY Zenon, <2>1, SymbolBit
<1> HIDE DEF w, n, code
<1>8. u \o code = Append(u \o w, code[n]) /\ u \o w \in Seq(Bits)
    <2>1. u \o Append(w, code[n]) = Append(u \o w, code[n]) /\ u \o w \in Seq(Bits)
        BY <1>2
    <2> QED BY Zenon, <1>2, <2>1
<1>9. BitsRead(Append(u \o w, code[n])) = DecodeBit(BitsRead(u \o w), code[n])
    BY Zenon, <1>2, <1>8, BitsReadOf
<1> QED BY Zenon, <1>5, <1>7, <1>8, <1>9 DEF code

\* The codes of a string are read as that string, with no bit left over.
LEMMA ReadCodes ==
    ASSUME NEW s \in Seq(Symbols)
    PROVE  CodesOf(s) \in Seq(Bits) /\ BitsRead(CodesOf(s)) = Reading(s, <<>>, "none")
<1> DEFINE T == {x \in Seq(Symbols) : /\ CodesOf(x) \in Seq(Bits)
                                      /\ BitsRead(CodesOf(x)) = Reading(x, <<>>, "none")}
<1>1. <<>> \in T
    <2>1. <<>> \in Seq(Symbols) /\ <<>> \in Seq(Bits)
        OBVIOUS
    <2>2. CodesOf(<<>>) = <<>> /\ BitsRead(<<>>) = NoBits
        BY Zenon, CodesOfOf, BitsReadOf
    <2>3. NoBits = Reading(<<>>, <<>>, "none")
        BY Zenon DEF NoBits, Reading
    <2> QED BY Zenon, <2>1, <2>2, <2>3
<1>2. ASSUME NEW x \in Seq(Symbols), NEW c \in Symbols, x \in T PROVE Append(x, c) \in T
    <2>1. CodesOf(Append(x, c)) = CodesOf(x) \o HUFFMAN_CODE_TABLE[c]
        BY Zenon, CodesOfOf
    <2>2. CodesOf(x) \in Seq(Bits) /\ BitsRead(CodesOf(x)) = Reading(x, <<>>, "none")
        BY Zenon, <1>2
    <2>3. Append(x, c) \in Seq(Symbols)
        OBVIOUS
    <2>4. CodesOf(x) \o HUFFMAN_CODE_TABLE[c] \in Seq(Bits)
        BY <2>2, CodeType
    <2>5. BitsRead(CodesOf(x) \o HUFFMAN_CODE_TABLE[c]) = Reading(Append(x, c), <<>>, "none")
        BY Zenon, <2>2, ReadCode
    <2> QED BY Zenon, <2>1, <2>3, <2>4, <2>5
<1>3. s \in T
    <2> HIDE DEF T
    <2> QED BY Zenon, <1>1, <1>2, BySnoc
<1> QED BY Zenon, <1>3

\* An error is the end of it.
LEMMA ErrorStays ==
    ASSUME NEW u \in Seq(Bits), NEW w \in Seq(Bits), BitsRead(u).error # "none"
    PROVE  BitsRead(u \o w) = BitsRead(u)
<1> DEFINE T == {x \in Seq(Bits) : BitsRead(u \o x) = BitsRead(u)}
<1>1. <<>> \in T
    <2>1. <<>> \in Seq(Bits) /\ u \o <<>> = u
        OBVIOUS
    <2> QED BY Zenon, <2>1
<1>2. ASSUME NEW x \in Seq(Bits), NEW b \in Bits, x \in T PROVE Append(x, b) \in T
    <2>1. /\ Append(x, b) \in Seq(Bits) /\ u \o x \in Seq(Bits)
          /\ u \o Append(x, b) = Append(u \o x, b)
        OBVIOUS
    <2>2. BitsRead(Append(u \o x, b)) = DecodeBit(BitsRead(u \o x), b)
        BY Zenon, <2>1, BitsReadOf
    <2>3. DecodeBit(BitsRead(u), b) = BitsRead(u)
        BY Zenon DEF DecodeBit
    <2> QED BY Zenon, <1>2, <2>1, <2>2, <2>3
<1>3. w \in T
    <2> HIDE DEF T
    <2> QED BY Zenon, <1>1, <1>2, BySnoc
<1> QED BY Zenon, <1>3

\* Whatever the bits are, what is read consists of symbols.
LEMMA BitsReadType ==
    ASSUME NEW u \in Seq(Bits)
    PROVE  \E x \in Seq(Symbols) : \E y, e : BitsRead(u) = Reading(x, y, e)
<1> DEFINE T == {s \in Seq(Bits) : \E x \in Seq(Symbols) : \E y, e : BitsRead(s) = Reading(x, y, e)}
<1>1. <<>> \in T
    <2>1. <<>> \in Seq(Symbols) /\ <<>> \in Seq(Bits)
        OBVIOUS
    <2>2. BitsRead(<<>>) = NoBits
        BY Zenon, BitsReadOf
    <2>3. NoBits = Reading(<<>>, <<>>, "none")
        BY Zenon DEF NoBits, Reading
    <2> QED BY Zenon, <2>1, <2>2, <2>3
<1>2. ASSUME NEW s \in Seq(Bits), NEW b \in Bits, s \in T PROVE Append(s, b) \in T
    <2>0. PICK x \in Seq(Symbols) : \E y, e : BitsRead(s) = Reading(x, y, e)
        BY Zenon, <1>2
    <2>1. PICK y, e : BitsRead(s) = Reading(x, y, e)
        BY Zenon, <2>0
    <2>2. BitsRead(Append(s, b)) = DecodeBit(Reading(x, y, e), b)
        BY Zenon, <2>1, BitsReadOf
    <2>3. Append(s, b) \in Seq(Bits)
        OBVIOUS
    <2>4. CASE e # "none"
        <3>1. Reading(x, y, e).error = e
            BY Zenon DEF Reading
        <3>2. DecodeBit(Reading(x, y, e), b) = Reading(x, y, e)
            BY Zenon, <2>4, <3>1 DEF DecodeBit
        <3> QED BY Zenon, <2>2, <2>3, <3>2
    <2>5. CASE e = "none"
        <3>1. CASE Append(y, b) = EndOfString
            <4>1. DecodeBit(Reading(x, y, "none"), b) = Reading(x, y, "EOSInString")
                BY Zenon, <3>1, EosBit
            <4> QED BY Zenon, <2>2, <2>3, <2>5, <4>1
        <3>2. CASE /\ Append(y, b) # EndOfString
                   /\ \A c \in Symbols : HUFFMAN_CODE_TABLE[c] # Append(y, b)
            <4>1. DecodeBit(Reading(x, y, "none"), b) = Reading(x, Append(y, b), "none")
                BY Zenon, <3>2, KeptBit
            <4> QED BY Zenon, <2>2, <2>3, <2>5, <4>1
        <3>3. ASSUME NEW c \in Symbols, HUFFMAN_CODE_TABLE[c] = Append(y, b), Append(y, b) # EndOfString
              PROVE  Append(s, b) \in T
            <4>1. DecodeBit(Reading(x, y, "none"), b) = Reading(Append(x, c), <<>>, "none")
                BY SMT, <3>3, SymbolBit
            <4>2. Append(x, c) \in Seq(Symbols)
                OBVIOUS
            <4> QED BY Zenon, <2>2, <2>3, <2>5, <4>1, <4>2
        <3> QED BY Zenon, <3>1, <3>2, <3>3
    <2> QED BY Zenon, <2>4, <2>5
<1>3. u \in T
    <2> HIDE DEF T
    <2> QED BY Zenon, <1>1, <1>2, BySnoc
<1> QED BY Zenon, <1>3

\* Huffman decoding is reading the bits, then checking the padding.
LEMMA HuffmanDecodeIs ==
    ASSUME NEW bits
    PROVE  HuffmanDecode(bits) = CheckPadding(BitsRead(bits))
BY Zenon DEF HuffmanDecode, BitsRead, NoBits

\* Whatever the bits, the decoder gives a string of symbols.
LEMMA HuffmanDecodeType ==
    ASSUME NEW u \in Seq(Bits)
    PROVE  HuffmanDecode(u).string \in Seq(Symbols)
<1>0. PICK x \in Seq(Symbols) : \E y, e : BitsRead(u) = Reading(x, y, e)
    BY Zenon, BitsReadType
<1>1. PICK y, e : BitsRead(u) = Reading(x, y, e)
    BY Zenon, <1>0
<1>2. HuffmanDecode(u) = CheckPadding(Reading(x, y, e))
    BY Zenon, <1>1, HuffmanDecodeIs
<1>3. ASSUME NEW g PROVE [Reading(x, y, e) EXCEPT !.error = g] = Reading(x, y, g)
    BY DEF Reading
<1>4. \E g : CheckPadding(Reading(x, y, e)) = Reading(x, y, g)
    BY Zenon, <1>3 DEF CheckPadding
<1>5. \A g : Reading(x, y, g).string = x
    BY Zenon DEF Reading
<1> QED BY Zenon, <1>2, <1>4, <1>5

\* A part of EOS is kept.
LEMMA ReadPadding ==
    ASSUME NEW u \in Seq(Bits), NEW x, BitsRead(u) = Reading(x, <<>>, "none"),
           NEW n \in Nat, n < Len(EndOfString)
    PROVE  /\ SubSeq(EndOfString, 1, n) \in Seq(Bits) /\ Len(SubSeq(EndOfString, 1, n)) = n
           /\ BitsRead(u \o SubSeq(EndOfString, 1, n)) = Reading(x, SubSeq(EndOfString, 1, n), "none")
<1> DEFINE w == SubSeq(EndOfString, 1, n)
<1>1. EndOfString \in Seq(Bits)
    BY Zenon, CodeAssumption DEF Bits
<1>2. n \in 0 .. Len(EndOfString)
    BY <1>1
<1>3. w \in Seq(Bits) /\ Len(w) = n
    BY Zenon, <1>1, <1>2, PrefixType
<1>4. ASSUME NEW i \in 1 .. Len(w)
      PROVE  /\ SubSeq(w, 1, i) # EndOfString
             /\ \A c \in Symbols : HUFFMAN_CODE_TABLE[c] # SubSeq(w, 1, i)
    <2>1. i \in 0 .. n /\ i \in 0 .. Len(EndOfString) /\ i <= Len(EndOfString) /\ i # Len(EndOfString)
        <3> HIDE DEF w
        <3> QED BY <1>1, <1>3
    <2>2. SubSeq(w, 1, i) = SubSeq(EndOfString, 1, i)
        BY Zenon, <1>1, <1>2, <2>1, PrefixOfPrefix
    <2>3. Len(SubSeq(EndOfString, 1, i)) = i
        BY Zenon, <1>1, <2>1, PrefixType
    <2> HIDE DEF w
    <2>4. Begins(SubSeq(w, 1, i), EndOfString)
        BY Zenon, <2>1, <2>2, <2>3 DEF Begins
    <2>5. SubSeq(w, 1, i) # EndOfString
        BY Zenon, <2>1, <2>2, <2>3
    <2> QED BY Zenon, <2>4, <2>5, CodeAssumption
<1> HIDE DEF w
<1>5. BitsRead(u \o w) = Reading(x, w, "none")
    BY Zenon, <1>3, <1>4, ReadPart
<1> QED BY Zenon, <1>3, <1>5 DEF w

\* HuffmanDecoder::decode gives back the string whose bits it is given.
LEMMA HuffmanRoundTrip ==
    ASSUME NEW s \in Seq(Symbols)
    PROVE  /\ HuffmanBits(s) \in Seq(Bits)
           /\ HuffmanDecode(HuffmanBits(s)).string = s
           /\ HuffmanDecode(HuffmanBits(s)).error = "none"
<1> DEFINE u == CodesOf(s)
           n == (OctetBits - (Len(u) % OctetBits)) % OctetBits
           w == SubSeq(EndOfString, 1, n)
<1>1. HuffmanBits(s) = u \o w
    BY Zenon DEF HuffmanBits, CodesOf
<1>2. u \in Seq(Bits) /\ BitsRead(u) = Reading(s, <<>>, "none")
    BY Zenon, ReadCodes
<1> HIDE DEF u
<1>3. OctetBits \in Nat \ {0} /\ Len(EndOfString) >= OctetBits /\ EndOfString \in Seq(Bits)
    BY Zenon, WidthAssumption, CodeAssumption DEF Bits
<1>4. n \in 0 .. OctetBits - 1
    <2> DEFINE r == Len(u) % OctetBits
    <2>1. Len(u) \in Nat
        BY <1>2
    <2>2. r \in 0 .. OctetBits - 1
        BY Zenon, <1>3, <2>1, Division
    <2> HIDE DEF r
    <2>3. OctetBits - r \in Nat
        BY <1>3, <2>2
    <2>4. (OctetBits - r) % OctetBits \in 0 .. OctetBits - 1
        BY Zenon, <1>3, <2>3, Division
    <2> QED BY Zenon, <2>4 DEF r
<1> HIDE DEF n
<1>5. n \in Nat /\ n < Len(EndOfString) /\ ~(n > OctetBits - 1) /\ n <= Len(EndOfString)
    BY <1>3, <1>4
<1>6. w \in Seq(Bits) /\ Len(w) = n /\ BitsRead(u \o w) = Reading(s, w, "none")
    BY Zenon, <1>2, <1>5, ReadPadding
<1>7. Begins(w, EndOfString)
    BY Zenon, <1>5, <1>6 DEF Begins
<1> HIDE DEF w
<1>8. CheckPadding(Reading(s, w, "none")) = Reading(s, w, "none")
    <2> DEFINE d == Reading(s, w, "none")
    <2>1. d.error = "none" /\ d.current = w
        BY Zenon DEF Reading
    <2> HIDE DEF d
    <2>2. CheckPadding(d) = d
        BY Zenon, <1>5, <1>6, <1>7, <2>1 DEF CheckPadding
    <2> QED BY Zenon, <2>2 DEF d
<1>9. HuffmanDecode(u \o w) = Reading(s, w, "none")
    BY Zenon, <1>6, <1>8, HuffmanDecodeIs
<1>10. Reading(s, w, "none").string = s /\ Reading(s, w, "none").error = "none"
    BY Zenon DEF Reading
<1>11. u \o w \in Seq(Bits)
    BY <1>2, <1>6
<1> QED BY Zenon, <1>1, <1>9, <1>10, <1>11

-----------------------------------------------------------------------------
(* Strings.                                                                *)

\* What may stand for a string on the wire.
WireStrings == [huffman : {FALSE}, len : Octets, octets : Seq(Symbols)]
               \cup [huffman : {TRUE}, len : Octets, octets : Seq(Bits)]

\* The ways to write a string are strings on the wire.
LEMMA StringsType ==
    ASSUME NEW s \in Seq(Symbols)
    PROVE  /\ Raw(s) \in WireStrings
           /\ Strings(s) \subseteq WireStrings
<1>1. Mask["string"] \in Nat
    BY WidthAssumption
<1>2. Len(s) \in Nat
    OBVIOUS
<1>3. encode_integer(Len(s), Mask["string"]) \in Octets
    BY Zenon, <1>1, <1>2, IntegerRoundTrip
<1>4. Raw(s) \in WireStrings
    BY <1>3 DEF Raw, WireStrings
<1> DEFINE b == HuffmanBits(s)
<1>5. b \in Seq(Bits)
    BY Zenon, HuffmanRoundTrip
<1> HIDE DEF b
<1>6. Len(b) \in Nat
    BY <1>5
<1>7. Len(b) \div OctetBits \in Nat
    BY Zenon, <1>6, Division, WidthAssumption
<1>8. encode_integer(Len(b) \div OctetBits, Mask["string"]) \in Octets
    BY Zenon, <1>1, <1>7, IntegerRoundTrip
<1>9. Coded(b) \in WireStrings
    BY <1>5, <1>8 DEF Coded, WireStrings
<1>10. Strings(s) = {Raw(s), Coded(b)}
    BY Zenon DEF Strings, b
<1> QED BY Zenon, <1>4, <1>9, <1>10

\* decode_string, with the states of the Huffman decoder by name.
LEMMA DecodeStringIs ==
    ASSUME NEW s
    PROVE  decode_string(s) =
             LET len == decode_integer(s.len, Mask["string"])
                 held == IF s.huffman THEN Len(s.octets) \div OctetBits ELSE Len(s.octets)
             IN  IF len.error # "none" THEN Reading(<<>>, <<>>, len.error)
                 ELSE IF len.value > held THEN Reading(<<>>, <<>>, "NotEnoughOctets")
                 ELSE IF s.huffman THEN HuffmanDecode(s.octets)
                 ELSE Reading(s.octets, <<>>, "none")
BY Zenon DEF decode_string, Reading

\* Whatever is on the wire, decode_string gives a string of symbols.
LEMMA DecodeStringType ==
    ASSUME NEW s \in WireStrings
    PROVE  decode_string(s).string \in Seq(Symbols)
<1>1. \A x, y, e : Reading(x, y, e).string = x
    BY Zenon DEF Reading
<1>2. <<>> \in Seq(Symbols)
    OBVIOUS
<1>3. CASE s.huffman
    <2>1. s.octets \in Seq(Bits)
        BY Zenon, <1>3 DEF WireStrings
    <2>2. HuffmanDecode(s.octets).string \in Seq(Symbols)
        BY Zenon, <2>1, HuffmanDecodeType
    <2>3. \/ \E e : decode_string(s) = Reading(<<>>, <<>>, e)
          \/ decode_string(s) = HuffmanDecode(s.octets)
        BY Zenon, <1>3, DecodeStringIs
    <2>4. ASSUME NEW e, NEW x \in Seq(Symbols), decode_string(s) = Reading(x, <<>>, e)
          PROVE  decode_string(s).string \in Seq(Symbols)
        BY SMT, <1>1, <2>4
    <2> QED BY Zenon, <1>2, <2>2, <2>3, <2>4
<1>4. CASE ~s.huffman
    <2>1. s.octets \in Seq(Symbols)
        BY Zenon, <1>4 DEF WireStrings
    <2>2. \/ \E e : decode_string(s) = Reading(<<>>, <<>>, e)
          \/ decode_string(s) = Reading(s.octets, <<>>, "none")
        BY Zenon, <1>4, DecodeStringIs
    <2>3. ASSUME NEW e, NEW x \in Seq(Symbols), decode_string(s) = Reading(x, <<>>, e)
          PROVE decode_string(s).string \in Seq(Symbols)
        BY SMT, <1>1, <2>3
    <2> QED BY Zenon, <1>2, <2>1, <2>2, <2>3
<1> QED BY Zenon, <1>3, <1>4

\* However a string is written, decode_string gives it back.
LEMMA StringRoundTrip ==
    ASSUME NEW s \in Seq(Symbols), NEW w \in Strings(s), Len(w.len) <= OctetLimit
    PROVE  decode_string(w).string = s /\ decode_string(w).error = "none"
<1> DEFINE mask == Mask["string"]
<1>1. mask \in Nat
    BY WidthAssumption
<1>2. CASE w = Raw(s)
    <2> DEFINE o == encode_integer(Len(s), mask)
    <2>1. w.huffman = FALSE /\ w.len = o /\ w.octets = s
        BY <1>2 DEF Raw
    <2>2. Len(s) \in Nat
        OBVIOUS
    <2> HIDE DEF mask
    <2>3. decode_integer(o, mask) = [value |-> Len(s), consumed |-> Len(o), error |-> "none"]
        BY Zenon, <1>1, <2>1, <2>2, IntegerRoundTrip
    <2> HIDE DEF o
    <2>4. decode_integer(o, mask).value = Len(s) /\ decode_integer(o, mask).error = "none"
        BY <2>3
    <2>5. ~(Len(s) > Len(s))
        BY <2>2
    <2>6. decode_string(w) = Reading(s, <<>>, "none")
        BY Zenon, <2>1, <2>4, <2>5, DecodeStringIs DEF mask
    <2> QED BY <2>6 DEF Reading
<1>3. CASE w = Coded(HuffmanBits(s))
    <2> DEFINE b == HuffmanBits(s)
               v == Len(b) \div OctetBits
               o == encode_integer(v, mask)
    <2>1. w.huffman = TRUE /\ w.len = o /\ w.octets = b
        BY <1>3 DEF Coded
    <2>2. b \in Seq(Bits) /\ HuffmanDecode(b).string = s /\ HuffmanDecode(b).error = "none"
        BY Zenon, HuffmanRoundTrip
    <2> HIDE DEF b
    <2>3. Len(b) \in Nat
        BY <2>2
    <2>4. v \in Nat
        BY Zenon, <2>3, Division, WidthAssumption
    <2> HIDE DEF v, mask
    <2>5. decode_integer(o, mask) = [value |-> v, consumed |-> Len(o), error |-> "none"]
        BY Zenon, <1>1, <2>1, <2>4, IntegerRoundTrip
    <2> HIDE DEF o
    <2>6. decode_integer(o, mask).value = v /\ decode_integer(o, mask).error = "none"
        BY <2>5
    <2>7. ~(v > v)
        BY <2>4
    <2>8. decode_string(w) = HuffmanDecode(b)
        BY Zenon, <2>1, <2>6, <2>7, DecodeStringIs DEF mask, v
    <2> QED BY Zenon, <2>2, <2>8
<1> QED BY Zenon, <1>2, <1>3 DEF Strings

-----------------------------------------------------------------------------
(* The decoder, one representation.                                        *)

\* What may stand for a field on the wire.
Reps == [kind : Kinds, int : Octets, name : WireStrings, value : WireStrings]

\* A state of the decoder in the middle of a block.
State(t, fields, error) ==
    [table |-> t, allowed |-> Allowed, fields |-> fields, error |-> error]

\* The parts of such a state.
LEMMA StateFields ==
    ASSUME NEW t, NEW fs, NEW e
    PROVE  /\ State(t, fs, e).table = t /\ State(t, fs, e).allowed = Allowed
           /\ State(t, fs, e).fields = fs /\ State(t, fs, e).error = e
BY Zenon DEF State

\* The parts of a representation, and that it is one.
LEMMA RepType ==
    ASSUME NEW k \in Kinds, NEW v \in Nat, NEW n \in WireStrings, NEW x \in WireStrings
    PROVE  /\ Rep(k, v, n, x) \in Reps
           /\ Rep(k, v, n, x).kind = k /\ Rep(k, v, n, x).int = encode_integer(v, Mask[k])
           /\ Rep(k, v, n, x).name = n /\ Rep(k, v, n, x).value = x
<1>1. Mask[k] \in Nat
    BY WidthAssumption
<1>2. encode_integer(v, Mask[k]) \in Octets
    BY Zenon, <1>1, IntegerRoundTrip
<1>3. Rep(k, v, n, x) \in Reps
    BY <1>2 DEF Rep, Reps
<1> QED BY Zenon, <1>3 DEF Rep

\* The table after a field of this kind.
Taken(t, kind, f) == IF Adds(kind) THEN add_header(t, f) ELSE t

\* TakeField, by the outcome.
Takes(d, t, fs, kind, r) ==
    /\ r.error # "none" => d = State(t, fs, r.error)
    /\ r.error = "none" => d = State(Taken(t, kind, r.field), Append(fs, r.field), "none")

\* TakeField does what Takes says.
LEMMA TakeFieldIs ==
    ASSUME NEW t, NEW fs, NEW kind, NEW r
    PROVE  Takes(TakeField(State(t, fs, "none"), kind, r), t, fs, kind, r)
<1> DEFINE d == State(t, fs, "none")
           new == IF Adds(kind) THEN add_header(d.table, r.field) ELSE d.table
<1>1. d.table = t /\ d.fields = fs
    BY Zenon DEF State
<1>2. r.error # "none" => TakeField(d, kind, r) = State(t, fs, r.error)
    <2>1. [d EXCEPT !.error = r.error] = State(t, fs, r.error)
        BY DEF State
    <2> HIDE DEF d
    <2> QED BY Zenon, <2>1 DEF TakeField
<1>3. r.error = "none" => TakeField(d, kind, r) =
        [d EXCEPT !.fields = Append(@, r.field), !.table = IF Adds(kind) THEN add_header(@, r.field) ELSE @]
    <2> HIDE DEF d
    <2> QED BY Zenon DEF TakeField
<1>4. [d EXCEPT !.fields = Append(@, r.field), !.table = IF Adds(kind) THEN add_header(@, r.field) ELSE @]
        = [[d EXCEPT !.fields = Append(fs, r.field)] EXCEPT !.table = new]
    BY DEF State
<1>5. [[d EXCEPT !.fields = Append(fs, r.field)] EXCEPT !.table = new] = State(new, Append(fs, r.field), "none")
    <2> DEFINE a == Append(fs, r.field)
    <2>1. [d EXCEPT !.fields = a] = State(t, a, "none")
        <3> HIDE DEF a
        <3> QED BY DEF State
    <2>2. [State(t, a, "none") EXCEPT !.table = new] = State(new, a, "none")
        <3> HIDE DEF new, a
        <3> QED BY DEF State
    <2> HIDE DEF new, a, d
    <2> QED BY Zenon, <2>1, <2>2 DEF a
<1>6. new = Taken(t, kind, r.field)
    <2> HIDE DEF d
    <2> QED BY Zenon, <1>1 DEF Taken
<1> HIDE DEF new, d
<1> QED BY Zenon, <1>2, <1>3, <1>4, <1>5, <1>6 DEF d, Takes

\* The name of a literal, in the table or written out.
NameOf(t, rep, i) ==
    IF i = 0 THEN decode_string(rep.name)
    ELSE IF i \in DOMAIN Entries(t) THEN Reading(Entries(t)[i][1], <<>>, "none")
    ELSE Reading(<<>>, <<>>, "HeaderIndexOutOfBounds")

\* decode_literal, with its name and its value by name.
LEMMA LiteralIs ==
    ASSUME NEW t, NEW rep, NEW i
    PROVE  /\ decode_literal(t, rep, i).field = <<NameOf(t, rep, i).string, decode_string(rep.value).string>>
           /\ decode_literal(t, rep, i).error =
                IF NameOf(t, rep, i).error # "none" THEN NameOf(t, rep, i).error
                ELSE decode_string(rep.value).error
<1> DEFINE n == NameOf(t, rep, i)
           v == decode_string(rep.value)
           e == IF n.error # "none" THEN n.error ELSE v.error
<1>1. decode_literal(t, rep, i) = [field |-> <<n.string, v.string>>, error |-> e]
    BY Zenon DEF decode_literal, NameOf, Reading
<1> HIDE DEF n, v
<1>2. decode_literal(t, rep, i).field = <<n.string, v.string>> /\ decode_literal(t, rep, i).error = e
    BY <1>1
<1> QED BY Zenon, <1>2 DEF n, v

\* The field of a representation, and the table after it, are fields and a table.
LEMMA FieldType ==
    ASSUME NEW t \in Tables, NEW rep \in Reps, NEW i
    PROVE  /\ decode_indexed(t, i).error = "none" => decode_indexed(t, i).field \in AllFields
           /\ decode_literal(t, rep, i).error = "none" => decode_literal(t, rep, i).field \in AllFields
<1>1. Entries(t) \in Seq(AllFields)
    BY Zenon, EntriesType
<1>2. \A k \in DOMAIN Entries(t) : Entries(t)[k] \in AllFields
    <2> DEFINE s == Entries(t)
    <2> HIDE DEF s
    <2>1. \A k \in DOMAIN s : s[k] \in AllFields
        BY <1>1 DEF s
    <2> QED BY Zenon, <2>1 DEF s
<1>3. ASSUME decode_indexed(t, i).error = "none"
      PROVE  decode_indexed(t, i).field \in AllFields
    <2>1. CASE i \in DOMAIN Entries(t)
        <3>1. decode_indexed(t, i) = [field |-> Entries(t)[i], error |-> "none"]
            BY Zenon, <2>1 DEF decode_indexed
        <3>2. decode_indexed(t, i).field = Entries(t)[i]
            BY <3>1
        <3> QED BY Zenon, <1>2, <2>1, <3>2
    <2>2. CASE i \notin DOMAIN Entries(t)
        <3>1. decode_indexed(t, i) = [field |-> <<>>, error |-> "HeaderIndexOutOfBounds"]
            BY Zenon, <2>2 DEF decode_indexed
        <3>2. decode_indexed(t, i).error = "HeaderIndexOutOfBounds"
            BY <3>1
        <3> QED BY <1>3, <3>2
    <2> QED BY Zenon, <2>1, <2>2
<1>4. NameOf(t, rep, i).string \in Seq(Symbols)
    <2>1. rep.name \in WireStrings
        BY DEF Reps
    <2>2. CASE i = 0
        BY Zenon, <2>1, <2>2, DecodeStringType DEF NameOf
    <2>3. CASE i # 0 /\ i \in DOMAIN Entries(t)
        <3>1. NameOf(t, rep, i) = Reading(Entries(t)[i][1], <<>>, "none")
            BY Zenon, <2>3 DEF NameOf
        <3>2. Entries(t)[i][1] \in Seq(Symbols)
            BY Zenon, <1>2, <2>3 DEF AllFields
        <3>3. NameOf(t, rep, i).string = Entries(t)[i][1]
            BY <3>1 DEF Reading
        <3> QED BY Zenon, <3>2, <3>3
    <2>4. CASE i # 0 /\ i \notin DOMAIN Entries(t)
        <3>1. NameOf(t, rep, i) = Reading(<<>>, <<>>, "HeaderIndexOutOfBounds")
            BY Zenon, <2>4 DEF NameOf
        <3>2. NameOf(t, rep, i).string = <<>>
            BY <3>1 DEF Reading
        <3>3. <<>> \in Seq(Symbols)
            OBVIOUS
        <3> QED BY Zenon, <3>2, <3>3
    <2> QED BY Zenon, <2>2, <2>3, <2>4
<1>5. decode_string(rep.value).string \in Seq(Symbols)
    <2>1. rep.value \in WireStrings
        BY DEF Reps
    <2> QED BY Zenon, <2>1, DecodeStringType
<1>6. <<NameOf(t, rep, i).string, decode_string(rep.value).string>> \in AllFields
    BY Zenon, <1>4, <1>5 DEF AllFields
<1> QED BY Zenon, <1>3, <1>6, LiteralIs

\* DecodeRep, by what its integer says.
DecodesTo(d, t, fs, rep, int) ==
    /\ int.error # "none" => d = State(t, fs, int.error)
    /\ int.error = "none" /\ rep.kind = "SizeUpdate" =>
         d = IF int.value > Allowed THEN State(t, fs, "InvalidMaxDynamicSize")
             ELSE State(set_max_table_size(t, int.value), fs, "none")
    /\ int.error = "none" /\ rep.kind = "Indexed" =>
         d = TakeField(State(t, fs, "none"), rep.kind, decode_indexed(t, int.value))
    /\ int.error = "none" /\ rep.kind # "SizeUpdate" /\ rep.kind # "Indexed" =>
         d = TakeField(State(t, fs, "none"), rep.kind, decode_literal(t, rep, int.value))

\* DecodeRep does what DecodesTo says, whatever the representation.
LEMMA DecodeRepIs ==
    ASSUME NEW t, NEW fs, NEW rep
    PROVE  DecodesTo(DecodeRep(State(t, fs, "none"), rep), t, fs, rep,
                     decode_integer(rep.int, Mask[rep.kind]))
<1> DEFINE int == decode_integer(rep.int, Mask[rep.kind])
           s == State(t, fs, "none")
<1>1. s.table = t /\ s.allowed = Allowed /\ s.error = "none"
    BY Zenon DEF State
<1>4. DecodeRep(s, rep) = DecodeWith(s, rep, int)
    BY Zenon, <1>1 DEF DecodeRep
<1> HIDE DEF int
<1>2. /\ [s EXCEPT !.error = int.error] = State(t, fs, int.error)
      /\ [s EXCEPT !.error = "InvalidMaxDynamicSize"] = State(t, fs, "InvalidMaxDynamicSize")
    BY DEF State
<1>3. [s EXCEPT !.table = set_max_table_size(@, int.value)] = State(set_max_table_size(t, int.value), fs, "none")
    BY DEF State
<1> HIDE DEF s
<1>5. int.error # "none" => DecodeWith(s, rep, int) = [s EXCEPT !.error = int.error]
    BY Zenon DEF DecodeWith
<1>6. int.error = "none" /\ rep.kind = "SizeUpdate" =>
        DecodeWith(s, rep, int) =
          IF int.value > Allowed THEN [s EXCEPT !.error = "InvalidMaxDynamicSize"]
          ELSE [s EXCEPT !.table = set_max_table_size(@, int.value)]
    BY Zenon, <1>1 DEF DecodeWith
<1>7. "Indexed" # "SizeUpdate"
    OBVIOUS
<1>8. int.error = "none" /\ rep.kind = "Indexed" =>
        DecodeWith(s, rep, int) = TakeField(s, rep.kind, decode_indexed(t, int.value))
    BY Zenon, <1>1, <1>7 DEF DecodeWith
<1>9. int.error = "none" /\ rep.kind # "SizeUpdate" /\ rep.kind # "Indexed" =>
        DecodeWith(s, rep, int) = TakeField(s, rep.kind, decode_literal(t, rep, int.value))
    BY Zenon, <1>1 DEF DecodeWith
<1>10. DecodesTo(DecodeRep(s, rep), t, fs, rep, int)
    BY Zenon, <1>2, <1>3, <1>4, <1>5, <1>6, <1>8, <1>9 DEF s, DecodesTo
<1> QED BY Zenon, <1>10 DEF s, int

\* Whatever is read, the table's size stays right.
LEMMA DecodeRepType ==
    ASSUME NEW t \in Tables, NEW fs, NEW e, NEW rep \in Reps
    PROVE  \E u \in Tables : \E gs, g : DecodeRep(State(t, fs, e), rep) = State(u, gs, g)
<1> DEFINE d == DecodeRep(State(t, fs, e), rep)
           int == decode_integer(rep.int, Mask[rep.kind])
<1> SUFFICES \E u \in Tables : \E gs, g : d = State(u, gs, g)
    BY Zenon
<1>1. CASE e # "none"
    <2>1. State(t, fs, e).error = e
        BY DEF State
    <2>2. d = State(t, fs, e)
        BY Zenon, <1>1, <2>1 DEF DecodeRep
    <2> HIDE DEF d
    <2> QED BY Zenon, <2>2
<1>2. CASE e = "none"
    <2>1. rep.int \in Octets /\ Mask[rep.kind] \in Nat
        BY WidthAssumption DEF Reps
    <2>2. int.value \in Nat
        BY Zenon, <2>1, DecodeIntegerType
    <2>3. d = DecodeRep(State(t, fs, "none"), rep)
        BY Zenon, <1>2
    <2> HIDE DEF d
    <2>10. DecodesTo(d, t, fs, rep, int)
        BY Zenon, <2>3, DecodeRepIs
    <2> HIDE DEF int
    <2>4. CASE int.error # "none"
        <3>1. d = State(t, fs, int.error)
            BY Zenon, <2>4, <2>10 DEF DecodesTo
        <3> QED BY Zenon, <3>1
    <2>5. CASE int.error = "none" /\ rep.kind = "SizeUpdate" /\ int.value > Allowed
        <3>1. d = State(t, fs, "InvalidMaxDynamicSize")
            BY Zenon, <2>5, <2>10 DEF DecodesTo
        <3> QED BY Zenon, <3>1
    <2>6. CASE int.error = "none" /\ rep.kind = "SizeUpdate" /\ ~(int.value > Allowed)
        <3>1. d = State(set_max_table_size(t, int.value), fs, "none")
            BY Zenon, <2>6, <2>10 DEF DecodesTo
        <3>2. t.table \in Seq(AllFields)
            BY Zenon, TableType
        <3> HIDE DEF int
        <3>3. set_max_table_size(t, int.value) \in Tables
            BY Zenon, <2>2, <3>2, ResizeIsFitting, FittingType
        <3> QED BY Zenon, <3>1, <3>3
    <2>7. ASSUME NEW r, r.error = "none" => r.field \in AllFields,
                 d = TakeField(State(t, fs, "none"), rep.kind, r)
          PROVE  \E u \in Tables : \E gs, g : d = State(u, gs, g)
        <3>0. Takes(d, t, fs, rep.kind, r)
            BY Zenon, <2>7, TakeFieldIs
        <3>1. CASE r.error # "none"
            <4>1. d = State(t, fs, r.error)
                BY Zenon, <3>0, <3>1 DEF Takes
            <4> QED BY Zenon, <4>1
        <3>2. CASE r.error = "none"
            <4> DEFINE u == Taken(t, rep.kind, r.field)
            <4>1. d = State(u, Append(fs, r.field), "none")
                BY Zenon, <3>0, <3>2 DEF Takes
            <4>2. t.table \in Seq(AllFields) /\ t.max \in Nat
                BY Zenon, TableType
            <4>3. r.field \in AllFields
                BY Zenon, <2>7, <3>2
            <4>4. <<r.field>> \o t.table \in Seq(AllFields)
                BY <4>2, <4>3
            <4>5. add_header(t, r.field) = Fitting(<<r.field>> \o t.table, t.max)
                BY Zenon, <4>3, AddIsFitting
            <4>6. add_header(t, r.field) \in Tables
                BY Zenon, <4>2, <4>4, <4>5, FittingType
            <4>7. u \in Tables
                BY Zenon, <4>6 DEF Taken
            <4> HIDE DEF u
            <4> QED BY Zenon, <4>1, <4>7
        <3> QED BY Zenon, <3>1, <3>2
    <2>8. CASE int.error = "none" /\ rep.kind = "Indexed"
        <3>1. d = TakeField(State(t, fs, "none"), rep.kind, decode_indexed(t, int.value))
            BY Zenon, <2>8, <2>10 DEF DecodesTo
        <3> HIDE DEF int
        <3> QED BY Zenon, <2>7, <3>1, FieldType
    <2>9. CASE int.error = "none" /\ rep.kind # "SizeUpdate" /\ rep.kind # "Indexed"
        <3>1. d = TakeField(State(t, fs, "none"), rep.kind, decode_literal(t, rep, int.value))
            BY Zenon, <2>9, <2>10 DEF DecodesTo
        <3> HIDE DEF int
        <3> QED BY Zenon, <2>7, <3>1, FieldType
    <2> QED BY Zenon, <2>4, <2>5, <2>6, <2>8, <2>9
<1> QED BY Zenon, <1>1, <1>2

\* The last representation of a block is read in the state the others left.
LEMMA RepsReadSnoc ==
    ASSUME NEW t
    PROVE  \A block \in Seq(Reps), rep \in Reps :
             RepsRead(t, Append(block, rep)) = DecodeRep(RepsRead(t, block), rep)
BY ZenonT(30), RepsReadOf

\* So does a whole block.
LEMMA RepsReadType ==
    ASSUME NEW t \in Tables, NEW block \in Seq(Reps)
    PROVE  \E u \in Tables : \E gs, g : RepsRead(t, block) = State(u, gs, g)
<1> DEFINE T == {b \in Seq(Reps) : \E u \in Tables : \E gs, g : RepsRead(t, b) = State(u, gs, g)}
<1>1. <<>> \in T
    <2>1. RepsRead(t, <<>>) = State(t, <<>>, "none")
        BY Zenon, RepsReadOf DEF Start, State
    <2>2. <<>> \in Seq(Reps)
        OBVIOUS
    <2> QED BY Zenon, <2>1, <2>2
<1>2. ASSUME NEW b \in Seq(Reps), NEW rep \in Reps, b \in T PROVE Append(b, rep) \in T
    <2>1. PICK u \in Tables : \E gs, g : RepsRead(t, b) = State(u, gs, g)
        BY Zenon, <1>2
    <2>2. PICK gs, g : RepsRead(t, b) = State(u, gs, g)
        BY Zenon, <2>1
    <2>3. RepsRead(t, Append(b, rep)) = DecodeRep(State(u, gs, g), rep)
        <3>1. RepsRead(t, Append(b, rep)) = DecodeRep(RepsRead(t, b), rep)
            BY Zenon, RepsReadSnoc
        <3> QED BY Zenon, <2>2, <3>1
    <2>4. Append(b, rep) \in Seq(Reps)
        OBVIOUS
    <2> QED BY <2>3, <2>4, DecodeRepType
<1> HIDE DEF T
<1>3. block \in T
    BY Zenon, <1>1, <1>2, BySnoc
<1> QED BY Zenon, <1>3 DEF T

\* Decoder::decode_with_cb, in terms of its representations.
Ending(block, e) ==
    IF e = "none" /\ block # <<>> /\ block[Len(block)].kind = "SizeUpdate" THEN "SizeUpdateAtEnd" ELSE e

\* The decoder reads the representations and then looks at how the block ends.
LEMMA DecodeBlockIs ==
    ASSUME NEW t, NEW block, NEW u, NEW fs, NEW e, RepsRead(t, block) = State(u, fs, e)
    PROVE  decode_with_cb(t, Allowed, block) = State(u, fs, Ending(block, e))
<1> DEFINE s == State(u, fs, e)
           d == RepsRead(t, block)
<1>1. s.error = e
    BY DEF State
<1>2. [s EXCEPT !.error = "SizeUpdateAtEnd"] = State(u, fs, "SizeUpdateAtEnd")
    BY DEF State
<1>3. decode_with_cb(t, Allowed, block) =
        IF d.error = "none" /\ block # <<>> /\ block[Len(block)].kind = "SizeUpdate"
          THEN [d EXCEPT !.error = "SizeUpdateAtEnd"] ELSE d
    BY Zenon DEF decode_with_cb, RepsRead, Start
<1>4. d = s
    OBVIOUS
<1> HIDE DEF d, s
<1>5. decode_with_cb(t, Allowed, block) =
        IF e = "none" /\ block # <<>> /\ block[Len(block)].kind = "SizeUpdate"
          THEN State(u, fs, "SizeUpdateAtEnd") ELSE s
    BY Zenon, <1>1, <1>2, <1>3, <1>4
<1> QED BY Zenon, <1>5 DEF Ending, s

\* The decoder's table stays a table, whatever block arrives.
LEMMA DecodeBlockType ==
    ASSUME NEW t \in Tables, NEW block \in Seq(Reps)
    PROVE  decode_with_cb(t, Allowed, block).table \in Tables
<1>1. PICK u \in Tables : \E gs, g : RepsRead(t, block) = State(u, gs, g)
    BY Zenon, RepsReadType
<1>2. PICK gs, g : RepsRead(t, block) = State(u, gs, g)
    BY Zenon, <1>1
<1>3. decode_with_cb(t, Allowed, block) = State(u, gs, Ending(block, g))
    BY <1>2, DecodeBlockIs
<1>4. State(u, gs, Ending(block, g)).table = u
    BY DEF State
<1> QED BY Zenon, <1>3, <1>4

-----------------------------------------------------------------------------
(* What an encoder writes, the decoder reads.                              *)

\* The representations that spell out a value.
Literals == Kinds \ {"Indexed", "SizeUpdate"}

\* An index of a table is short enough to be read back.
LEMMA IndexFits ==
    ASSUME NEW k \in Kinds, NEW v \in Nat, v <= Len(STATIC_TABLE) + Allowed + 1, NEW n, NEW x
    PROVE  /\ decode_integer(Rep(k, v, n, x).int, Mask[Rep(k, v, n, x).kind]).value = v
           /\ decode_integer(Rep(k, v, n, x).int, Mask[Rep(k, v, n, x).kind]).error = "none"
<1> DEFINE o == encode_integer(v, Mask[k])
<1>1. Rep(k, v, n, x).int = o /\ Rep(k, v, n, x).kind = k
    BY Zenon DEF Rep
<1>2. Mask[k] \in Nat
    BY WidthAssumption
<1>3. v \in 0 .. Len(STATIC_TABLE) + Allowed + 1
    BY WidthAssumption
<1>4. Len(o) <= OctetLimit
    BY Zenon, <1>3, IntegerAssumption
<1>5. decode_integer(o, Mask[k]) = [value |-> v, consumed |-> Len(o), error |-> "none"]
    BY Zenon, <1>2, <1>4, IntegerRoundTrip
<1> HIDE DEF o
<1>6. decode_integer(o, Mask[k]).value = v /\ decode_integer(o, Mask[k]).error = "none"
    BY <1>5
<1> QED BY Zenon, <1>1, <1>6

\* The strings of the fields that are sent, and the empty one.
LEMMA StringFits ==
    /\ \A f \in Fields : \A i \in {1, 2} : f[i] \in Seq(Symbols) /\
         \A w \in Strings(f[i]) : w \in WireStrings /\ decode_string(w).string = f[i]
                                 /\ decode_string(w).error = "none"
    /\ Raw(<<>>) \in WireStrings /\ decode_string(Raw(<<>>)).string = <<>>
    /\ decode_string(Raw(<<>>)).error = "none"
<1>1. ASSUME NEW f \in Fields, NEW i \in {1, 2}
      PROVE  f[i] \in Seq(Symbols) /\ \A w \in Strings(f[i]) : w \in WireStrings
               /\ decode_string(w).string = f[i] /\ decode_string(w).error = "none"
    <2>1. f[i] \in Seq(Symbols)
        BY WidthAssumption DEF AllFields
    <2>2. ASSUME NEW w \in Strings(f[i])
          PROVE  w \in WireStrings /\ decode_string(w).string = f[i] /\ decode_string(w).error = "none"
        <3>1. Len(w.len) <= OctetLimit
            BY Zenon, IntegerAssumption
        <3>2. w \in WireStrings
            BY Zenon, <2>1, StringsType
        <3> QED BY Zenon, <2>1, <3>1, <3>2, StringRoundTrip
    <2> QED BY Zenon, <2>1, <2>2
<1>2. /\ Raw(<<>>) \in WireStrings /\ decode_string(Raw(<<>>)).string = <<>>
      /\ decode_string(Raw(<<>>)).error = "none"
    <2> DEFINE w == Raw(<<>>)
    <2>1. <<>> \in Seq(Symbols) /\ Len(<<>>) = 0 /\ 0 < Mask["string"]
        BY WidthAssumption
    <2>2. w.len = <<0>>
        BY Zenon, <2>1 DEF Raw, encode_integer
    <2>3. Len(w.len) <= OctetLimit
        <3>1. Len(<<0>>) <= OctetLimit
            BY WidthAssumption
        <3> QED BY Zenon, <2>2, <3>1
    <2>4. w \in Strings(<<>>)
        BY Zenon DEF Strings
    <2>5. w \in WireStrings
        BY Zenon, <2>1, StringsType
    <2> QED BY Zenon, <2>1, <2>3, <2>4, <2>5, StringRoundTrip
<1> QED BY Zenon, <1>1, <1>2

\* The three ways to write a field.
LEMMA RepresentationIs ==
    ASSUME NEW e \in Tables, NEW f, NEW rep \in Representations(e, f)
    PROVE  \/ \E i \in 1 .. Len(Entries(e)) :
                 Entries(e)[i] = f /\ rep = Rep("Indexed", i, Raw(<<>>), Raw(<<>>))
           \/ \E k \in Literals : \E n \in Strings(f[1]) : rep = Rep(k, 0, n, Raw(f[2]))
           \/ \E k \in Literals : \E i \in 1 .. Len(Entries(e)) : \E v \in Strings(f[2]) :
                 Entries(e)[i][1] = f[1] /\ rep = Rep(k, i, Raw(<<>>), v)
<1>1. DOMAIN Entries(e) = 1 .. Len(Entries(e))
    BY Zenon, EntriesType
<1> DEFINE A == {Rep("Indexed", i, Raw(<<>>), Raw(<<>>)) :
                   i \in {i \in DOMAIN Entries(e) : Entries(e)[i] = f}}
           B == {Rep(k, 0, n, Raw(f[2])) : k \in Literals, n \in Strings(f[1])}
           C == {Rep(k, i, Raw(<<>>), v) :
                   k \in Literals, i \in {i \in DOMAIN Entries(e) : Entries(e)[i][1] = f[1]},
                   v \in Strings(f[2])}
<1>2. rep \in A \/ rep \in B \/ rep \in C
    <2>1. Representations(e, f) = A \cup B \cup C
        BY DEF Representations, Literals
    <2> HIDE DEF A, B, C
    <2> QED BY Zenon, <2>1
<1>3. CASE rep \in A
    BY Zenon, <1>1, <1>3
<1>4. CASE rep \in B
    BY <1>4
<1>5. CASE rep \in C
    BY <1>1, <1>5
<1> HIDE DEF A, B, C
<1> QED BY Zenon, <1>2, <1>3, <1>4, <1>5

\* A decoder with table d takes the field f from rep.
ReadsBack(d, f, rep, fs) ==
    /\ rep \in Reps /\ rep.kind \in Kinds \ {"SizeUpdate"}
    /\ DecodeRep(State(d, fs, "none"), rep) = State(Taken(d, rep.kind, f), Append(fs, f), "none")

\* One representation of a field: the decoder, whose table begins with the
\* encoder's, takes the field it stands for.
LEMMA DecodeRepresentation ==
    ASSUME NEW e \in Tables, NEW d \in Tables, Begins(e.table, d.table), e.max <= Allowed,
           NEW f \in Fields, NEW rep \in Representations(e, f), NEW fs
    PROVE  ReadsBack(d, f, rep, fs)
<1> DEFINE int == decode_integer(rep.int, Mask[rep.kind])
           out == DecodeRep(State(d, fs, "none"), rep)
           x == Raw(<<>>)
<1>1. DecodesTo(out, d, fs, rep, int)
    BY Zenon, DecodeRepIs
<1>2. /\ f[1] \in Seq(Symbols) /\ f[2] \in Seq(Symbols) /\ f = <<f[1], f[2]>>
    BY WidthAssumption DEF AllFields
<1>3. /\ \A w \in Strings(f[1]) : w \in WireStrings /\ decode_string(w).string = f[1]
                                    /\ decode_string(w).error = "none"
      /\ \A w \in Strings(f[2]) : w \in WireStrings /\ decode_string(w).string = f[2]
                                    /\ decode_string(w).error = "none"
    <2>1. 1 \in {1, 2} /\ 2 \in {1, 2}
        OBVIOUS
    <2> QED BY Zenon, <2>1, StringFits
<1>4. x \in WireStrings
    BY Zenon, StringFits
<1>5. /\ Len(Entries(e)) \in Nat /\ Len(Entries(e)) <= Len(STATIC_TABLE) + Allowed + 1
      /\ 0 \in Nat /\ 0 <= Len(STATIC_TABLE) + Allowed + 1
    <2>1. /\ Len(Entries(e)) \in Nat /\ Len(Entries(e)) = Len(STATIC_TABLE) + Len(e.table)
          /\ Len(e.table) \in Nat /\ Len(e.table) <= e.max /\ e.max \in Nat
        BY Zenon, EntriesType, TableLength, TableType
    <2>2. Len(STATIC_TABLE) \in Nat /\ Allowed \in Nat
        BY WidthAssumption
    <2> QED BY <2>1, <2>2
<1>6. \A i \in 1 .. Len(Entries(e)) : i \in Nat /\ i # 0 /\ i <= Len(STATIC_TABLE) + Allowed + 1
    BY <1>5, WidthAssumption
<1>7. \A i \in 1 .. Len(Entries(e)) : i \in DOMAIN Entries(d) /\ Entries(d)[i] = Entries(e)[i]
    <2>1. DOMAIN Entries(d) = 1 .. Len(Entries(d))
        BY Zenon, EntriesType
    <2> QED BY ZenonT(40), <2>1, EntriesAgree
<1>8. \A k \in Literals : k \in Kinds /\ k # "Indexed" /\ k # "SizeUpdate"
    BY Zenon DEF Literals
<1>9. Raw(f[2]) \in Strings(f[2])
    BY Zenon DEF Strings
<1> HIDE DEF x
<1>10. ASSUME NEW i \in 1 .. Len(Entries(e)), Entries(e)[i] = f, rep = Rep("Indexed", i, x, x)
       PROVE  rep \in Reps /\ rep.kind = "Indexed" /\ out = State(Taken(d, rep.kind, f), Append(fs, f), "none")
    <2>1. "Indexed" \in Kinds
        BY DEF Kinds
    <2>2. rep \in Reps /\ rep.kind = "Indexed"
        <3>1. Rep("Indexed", i, x, x) \in Reps /\ Rep("Indexed", i, x, x).kind = "Indexed"
            BY <1>4, <1>6, <2>1, RepType
        <3> QED BY Zenon, <1>10, <3>1
    <2>3. int.value = i /\ int.error = "none"
        <3> DEFINE q == Rep("Indexed", i, x, x)
        <3>1. /\ decode_integer(q.int, Mask[q.kind]).value = i
              /\ decode_integer(q.int, Mask[q.kind]).error = "none"
            BY <1>6, <2>1, IndexFits
        <3> HIDE DEF q
        <3>2. rep = q
            BY Zenon, <1>10 DEF q
        <3> QED BY Zenon, <3>1, <3>2
    <2> DEFINE r == decode_indexed(d, i)
    <2>4. r = [field |-> f, error |-> "none"]
        BY Zenon, <1>7, <1>10 DEF decode_indexed
    <2> HIDE DEF int, out, r
    <2>5. r.field = f /\ r.error = "none"
        BY <2>4
    <2>6. out = TakeField(State(d, fs, "none"), rep.kind, r)
        BY Zenon, <1>1, <2>2, <2>3 DEF DecodesTo, r
    <2>7. Takes(out, d, fs, rep.kind, r)
        BY Zenon, <2>6, TakeFieldIs
    <2> QED BY Zenon, <2>2, <2>5, <2>7 DEF Takes
<1>11. ASSUME NEW k \in Literals, NEW i \in Nat, i <= Len(STATIC_TABLE) + Allowed + 1,
              NEW n \in WireStrings, NEW v \in Strings(f[2]), rep = Rep(k, i, n, v),
              NameOf(d, rep, i).string = f[1], NameOf(d, rep, i).error = "none"
       PROVE  rep \in Reps /\ rep.kind = k /\ out = State(Taken(d, rep.kind, f), Append(fs, f), "none")
    <2>1. v \in WireStrings /\ decode_string(v).string = f[2] /\ decode_string(v).error = "none"
        BY Zenon, <1>3
    <2>2. k \in Kinds
        BY Zenon, <1>8
    <2>3. rep \in Reps /\ rep.kind = k /\ rep.value = v
        <3>1. Rep(k, i, n, v) \in Reps /\ Rep(k, i, n, v).kind = k /\ Rep(k, i, n, v).value = v
            BY <2>1, <2>2, RepType
        <3> QED BY Zenon, <1>11, <3>1
    <2>4. int.value = i /\ int.error = "none"
        <3> DEFINE q == Rep(k, i, n, v)
        <3>1. /\ decode_integer(q.int, Mask[q.kind]).value = i
              /\ decode_integer(q.int, Mask[q.kind]).error = "none"
            BY <1>11, <2>2, IndexFits
        <3> HIDE DEF q
        <3>2. rep = q
            BY Zenon, <1>11 DEF q
        <3> QED BY Zenon, <3>1, <3>2
    <2> DEFINE r == decode_literal(d, rep, i)
    <2>5. r.field = f /\ r.error = "none"
        <3>1. /\ r.field = <<NameOf(d, rep, i).string, decode_string(rep.value).string>>
              /\ r.error = IF NameOf(d, rep, i).error # "none" THEN NameOf(d, rep, i).error
                           ELSE decode_string(rep.value).error
            BY LiteralIs
        <3> HIDE DEF r
        <3>2. r.error = "none"
            BY Zenon, <1>11, <2>1, <2>3, <3>1
        <3>3. r.field = <<f[1], f[2]>>
            BY Zenon, <1>11, <2>1, <2>3, <3>1
        <3> QED BY Zenon, <1>2, <3>2, <3>3
    <2> HIDE DEF int, out, r
    <2>6. out = TakeField(State(d, fs, "none"), rep.kind, r)
        BY Zenon, <1>1, <1>8, <2>3, <2>4 DEF DecodesTo, r
    <2>7. Takes(out, d, fs, rep.kind, r)
        BY Zenon, <2>6, TakeFieldIs
    <2> QED BY Zenon, <2>3, <2>5, <2>7 DEF Takes
<1>12. ASSUME NEW k \in Literals, NEW n \in Strings(f[1]), rep = Rep(k, 0, n, Raw(f[2]))
       PROVE  rep \in Reps /\ rep.kind = k /\ out = State(Taken(d, rep.kind, f), Append(fs, f), "none")
    <2>1. n \in WireStrings /\ decode_string(n).string = f[1] /\ decode_string(n).error = "none"
        BY Zenon, <1>3
    <2>2. rep.name = n
        BY Zenon, <1>12 DEF Rep
    <2>3. NameOf(d, rep, 0) = decode_string(n)
        BY Zenon, <2>2 DEF NameOf
    <2> HIDE DEF out
    <2> QED BY Zenon, <1>5, <1>9, <1>11, <1>12, <2>1, <2>3
<1>13. ASSUME NEW k \in Literals, NEW i \in 1 .. Len(Entries(e)), NEW v \in Strings(f[2]),
              Entries(e)[i][1] = f[1], rep = Rep(k, i, x, v)
       PROVE  rep \in Reps /\ rep.kind = k /\ out = State(Taken(d, rep.kind, f), Append(fs, f), "none")
    <2>1. NameOf(d, rep, i) = Reading(Entries(e)[i][1], <<>>, "none")
        BY Zenon, <1>6, <1>7 DEF NameOf
    <2>2. NameOf(d, rep, i).string = f[1] /\ NameOf(d, rep, i).error = "none"
        BY <1>13, <2>1 DEF Reading
    <2> HIDE DEF out
    <2> QED BY Zenon, <1>4, <1>6, <1>11, <1>13, <2>2
<1>14. \A k \in Literals : k \in Kinds \ {"SizeUpdate"}
    BY Zenon DEF Literals
<1>15. "Indexed" \in Kinds \ {"SizeUpdate"}
    BY SMTT(30) DEF Kinds
<1>16. rep \in Reps /\ rep.kind \in Kinds \ {"SizeUpdate"} /\ out = State(Taken(d, rep.kind, f), Append(fs, f), "none")
    <2> HIDE DEF out
    <2>1. CASE \E i \in 1 .. Len(Entries(e)) : Entries(e)[i] = f /\ rep = Rep("Indexed", i, x, x)
        <3>1. rep \in Reps /\ rep.kind = "Indexed" /\ out = State(Taken(d, rep.kind, f), Append(fs, f), "none")
            BY Zenon, <1>10, <2>1
        <3> QED BY Zenon, <1>15, <3>1
    <2>2. CASE \E k \in Literals : \E n \in Strings(f[1]) : rep = Rep(k, 0, n, Raw(f[2]))
        BY Zenon, <1>12, <1>14, <2>2
    <2>3. CASE \E k \in Literals : \E i \in 1 .. Len(Entries(e)) : \E v \in Strings(f[2]) :
                 Entries(e)[i][1] = f[1] /\ rep = Rep(k, i, x, v)
        BY Zenon, <1>13, <1>14, <2>3
    <2>4. f \in AllFields
        BY Zenon, WidthAssumption
    <2> QED BY <2>1, <2>2, <2>3, RepresentationIs DEF x
<1> QED BY Zenon, <1>16 DEF ReadsBack

-----------------------------------------------------------------------------
(* The encoder.                                                            *)

\* The one literal that goes into the table.
Indexing == "LiteralWithIncrementalIndexing"

\* The table after a field was taken.
LEMMA TakenIs ==
    ASSUME NEW t \in Tables, NEW kind, NEW f \in AllFields
    PROVE  /\ Taken(t, kind, f) = IF kind = Indexing THEN Fitting(<<f>> \o t.table, t.max) ELSE t
           /\ Taken(t, kind, f) \in Tables /\ Taken(t, kind, f).max = t.max
<1>1. Taken(t, kind, f) = IF kind = Indexing THEN Fitting(<<f>> \o t.table, t.max) ELSE t
    BY Zenon, AddIsFitting DEF Taken, Adds, Indexing
<1>2. t.table \in Seq(AllFields) /\ t.max \in Nat
    BY Zenon, TableType
<1>3. <<f>> \o t.table \in Seq(AllFields)
    BY Zenon, <1>2, ConsType
<1>4. PICK b \in Nat : b = t.max
    BY Zenon, <1>2
<1>5. Fitting(<<f>> \o t.table, b) \in Tables /\ Fitting(<<f>> \o t.table, b).max = b
    BY Zenon, <1>3, FittingType
<1> QED BY Zenon, <1>1, <1>4, <1>5

\* A table that begins another one still does when a field is added to both.
LEMMA TakenKeepsBeginning ==
    ASSUME NEW e \in Tables, NEW d \in Tables, Begins(e.table, d.table), e.max <= d.max,
           NEW kind, NEW f \in AllFields
    PROVE  Begins(Taken(e, kind, f).table, Taken(d, kind, f).table)
<1>1. /\ e.table \in Seq(AllFields) /\ e.max \in Nat
      /\ d.table \in Seq(AllFields) /\ d.max \in Nat
    BY Zenon, TableType
<1>2. PICK a \in Nat : a = e.max
    BY Zenon, <1>1
<1>3. PICK b \in Nat : b = d.max
    BY Zenon, <1>1
<1>4. a <= b
    BY Zenon, <1>2, <1>3
<1> DEFINE s == <<f>> \o e.table
           t == <<f>> \o d.table
<1>5. s \in Seq(AllFields) /\ t \in Seq(AllFields) /\ Begins(s, t)
    BY Zenon, <1>1, ConsType, ConsBegins
<1> HIDE DEF s, t
<1>6. Begins(Fitting(s, a).table, Fitting(t, b).table)
    BY Zenon, <1>4, <1>5, FittingKeepsBeginning
<1>7. /\ Taken(e, kind, f) = IF kind = Indexing THEN Fitting(s, a) ELSE e
      /\ Taken(d, kind, f) = IF kind = Indexing THEN Fitting(t, b) ELSE d
    <2>1. /\ Taken(e, kind, f) = IF kind = Indexing THEN Fitting(s, e.max) ELSE e
          /\ Taken(d, kind, f) = IF kind = Indexing THEN Fitting(t, d.max) ELSE d
        BY TakenIs DEF s, t
    <2> QED BY Zenon, <1>2, <1>3, <2>1
<1> QED BY Zenon, <1>6, <1>7

\* Names in a dynamic table are distinct, and none is in the static one.
Distinct(s) ==
    /\ \A i, j \in 1 .. Len(s) : s[i][1] = s[j][1] => i = j
    /\ \A i \in 1 .. Len(s), j \in 1 .. Len(STATIC_TABLE) : s[i][1] # STATIC_TABLE[j][1]

\* Evicting entries keeps the names distinct.
LEMMA BeginningDistinct ==
    ASSUME NEW s \in Seq(AllFields), NEW t \in Seq(AllFields), Begins(s, t), Distinct(t)
    PROVE  Distinct(s)
<1>1. /\ Len(s) \in Nat /\ Len(t) \in Nat /\ Len(s) <= Len(t)
      /\ \A i \in 1 .. Len(s) : s[i] = t[i]
    BY BeginsAgree
<1>2. \A i \in 1 .. Len(s) : i \in 1 .. Len(t)
    BY <1>1
<1>3. ASSUME NEW i \in 1 .. Len(s) PROVE i \in 1 .. Len(t) /\ s[i][1] = t[i][1]
    <2>1. s[i] = t[i]
        BY Zenon, <1>1
    <2> QED BY Zenon, <1>2, <2>1
<1>4. ASSUME NEW i \in 1 .. Len(s), NEW j \in 1 .. Len(s), s[i][1] = s[j][1] PROVE i = j
    <2>1. t[i][1] = t[j][1]
        BY Zenon, <1>3, <1>4
    <2> QED BY Zenon, <1>2, <2>1 DEF Distinct
<1>5. ASSUME NEW i \in 1 .. Len(s), NEW j \in 1 .. Len(STATIC_TABLE) PROVE s[i][1] # STATIC_TABLE[j][1]
    <2>1. t[i][1] # STATIC_TABLE[j][1]
        BY Zenon, <1>2 DEF Distinct
    <2> QED BY Zenon, <1>3, <2>1
<1> QED BY Zenon, <1>4, <1>5 DEF Distinct

\* So does adding an entry whose name is in neither table.
LEMMA ConsDistinct ==
    ASSUME NEW t \in Seq(AllFields), Distinct(t), NEW f \in AllFields,
           \A i \in 1 .. Len(t) : t[i][1] # f[1],
           \A j \in 1 .. Len(STATIC_TABLE) : STATIC_TABLE[j][1] # f[1]
    PROVE  Distinct(<<f>> \o t)
<1> DEFINE u == <<f>> \o t
<1>1. /\ Len(t) \in Nat /\ Len(u) = Len(t) + 1 /\ u[1] = f
      /\ \A i \in 2 .. Len(t) + 1 : u[i] = t[i - 1]
    BY ConsType
<1> HIDE DEF u
<1>2. ASSUME NEW i \in 1 .. Len(u)
      PROVE  i = 1 \/ (i \in 2 .. Len(t) + 1 /\ i - 1 \in 1 .. Len(t))
    BY <1>1
<1>3. \A i \in 1 .. Len(u) : u[i] = f \/ (i - 1 \in 1 .. Len(t) /\ u[i] = t[i - 1])
    BY Zenon, <1>1, <1>2
<1>4. ASSUME NEW i \in 1 .. Len(u), NEW j \in 1 .. Len(u), u[i][1] = u[j][1] PROVE i = j
    <2>1. CASE i = 1 /\ j = 1
        BY Zenon, <2>1
    <2>2. CASE i = 1 /\ j \in 2 .. Len(t) + 1 /\ j - 1 \in 1 .. Len(t)
        BY Zenon, <1>1, <1>4, <2>2
    <2>3. CASE j = 1 /\ i \in 2 .. Len(t) + 1 /\ i - 1 \in 1 .. Len(t)
        BY Zenon, <1>1, <1>4, <2>3
    <2>4. CASE /\ i \in 2 .. Len(t) + 1 /\ i - 1 \in 1 .. Len(t)
               /\ j \in 2 .. Len(t) + 1 /\ j - 1 \in 1 .. Len(t)
        <3>1. i - 1 = j - 1
            BY Zenon, <1>1, <1>4, <2>4 DEF Distinct
        <3> QED BY <3>1
    <2> QED BY Zenon, <1>2, <2>1, <2>2, <2>3, <2>4
<1>5. ASSUME NEW i \in 1 .. Len(u), NEW j \in 1 .. Len(STATIC_TABLE) PROVE u[i][1] # STATIC_TABLE[j][1]
    <2>1. CASE u[i] = f
        BY Zenon, <2>1
    <2>2. CASE i - 1 \in 1 .. Len(t) /\ u[i] = t[i - 1]
        <3>1. t[i - 1][1] # STATIC_TABLE[j][1]
            BY Zenon, <2>2 DEF Distinct
        <3> QED BY Zenon, <2>2, <3>1
    <2> QED BY Zenon, <1>3, <2>1, <2>2
<1>6. Distinct(u)
    BY Zenon, <1>4, <1>5 DEF Distinct
<1> QED BY Zenon, <1>6 DEF u

\* A state of the encoder in the middle of a block.
Encoded(t, block) == [table |-> t, block |-> block]

\* The representations of a field that an encoder may choose from.
LEMMA AreRepresentations ==
    ASSUME NEW e \in Tables, NEW f
    PROVE  /\ \A i \in 1 .. Len(Entries(e)) : Entries(e)[i] = f =>
                 Rep("Indexed", i, Raw(<<>>), Raw(<<>>)) \in Representations(e, f)
           /\ \A k \in Literals : \A n \in Strings(f[1]) : Rep(k, 0, n, Raw(f[2])) \in Representations(e, f)
           /\ \A k \in Literals : \A i \in 1 .. Len(Entries(e)) : \A v \in Strings(f[2]) :
                 Entries(e)[i][1] = f[1] => Rep(k, i, Raw(<<>>), v) \in Representations(e, f)
<1> DEFINE full == {i \in DOMAIN Entries(e) : Entries(e)[i] = f}
           named == {i \in DOMAIN Entries(e) : Entries(e)[i][1] = f[1]}
           A == {Rep("Indexed", i, Raw(<<>>), Raw(<<>>)) : i \in full}
           B == {Rep(k, 0, n, Raw(f[2])) : k \in Literals, n \in Strings(f[1])}
           C == {Rep(k, i, Raw(<<>>), v) : k \in Literals, i \in named, v \in Strings(f[2])}
<1>1. Representations(e, f) = A \cup B \cup C
    BY DEF Representations, Literals
<1>2. DOMAIN Entries(e) = 1 .. Len(Entries(e))
    BY Zenon, EntriesType
<1>3. \A i \in 1 .. Len(Entries(e)) : /\ Entries(e)[i] = f => i \in full
                                      /\ Entries(e)[i][1] = f[1] => i \in named
    BY Zenon, <1>2
<1> HIDE DEF full, named
<1>4. \A i \in full : Rep("Indexed", i, Raw(<<>>), Raw(<<>>)) \in A
    BY Zenon
<1>5. \A k \in Literals : \A n \in Strings(f[1]) : Rep(k, 0, n, Raw(f[2])) \in B
    OBVIOUS
<1>6. \A k \in Literals : \A i \in named : \A v \in Strings(f[2]) : Rep(k, i, Raw(<<>>), v) \in C
    OBVIOUS
<1> HIDE DEF A, B, C
<1> QED BY Zenon, <1>1, <1>3, <1>4, <1>5, <1>6

\* Encoder::encode_header_into writes one of the representations of the field,
\* and adds it to the table only if the name was in neither table.
LEMMA EncodeHeader ==
    ASSUME NEW e \in Tables, NEW f \in AllFields, NEW block
    PROVE  \E rep \in Representations(e, f) :
              /\ encode_header_into(Encoded(e, block), f) = Encoded(Taken(e, rep.kind, f), Append(block, rep))
              /\ rep.kind = Indexing => \A i \in 1 .. Len(Entries(e)) : Entries(e)[i][1] # f[1]
<1> DEFINE s == Encoded(e, block)
           x == Raw(<<>>)
           out == encode_header_into(s, f)
           found == find_header(e, f)
<1>1. s.table = e /\ s.block = block
    BY DEF Encoded
<1>2. DOMAIN Entries(e) = 1 .. Len(Entries(e))
    BY Zenon, EntriesType
<1>3. /\ "LiteralWithoutIndexing" \in Literals /\ Indexing \in Literals
      /\ "LiteralWithoutIndexing" # Indexing /\ "Indexed" # Indexing
    BY DEF Kinds, Literals, Indexing
<1>4. \A g : Raw(g) \in Strings(g)
    BY Zenon DEF Strings
<1>5. ASSUME NEW rep
      PROVE  /\ [s EXCEPT !.block = Append(@, rep)] = Encoded(e, Append(block, rep))
             /\ [s EXCEPT !.block = Append(@, rep), !.table = add_header(@, f)]
                   = Encoded(add_header(e, f), Append(block, rep))
    <2> DEFINE b == Append(block, rep)
               t == add_header(e, f)
    <2>1. [s EXCEPT !.block = Append(@, rep)] = [s EXCEPT !.block = b]
        BY Zenon, <1>1
    <2>2. [s EXCEPT !.block = Append(@, rep), !.table = add_header(@, f)] = [[s EXCEPT !.block = b] EXCEPT !.table = t]
        BY DEF Encoded
    <2> HIDE DEF b, t
    <2>3. [s EXCEPT !.block = b] = Encoded(e, b)
        BY DEF Encoded
    <2>4. [Encoded(e, b) EXCEPT !.table = t] = Encoded(t, b)
        BY DEF Encoded
    <2> HIDE DEF s
    <2>5. /\ [s EXCEPT !.block = Append(@, rep)] = Encoded(e, b)
          /\ [s EXCEPT !.block = Append(@, rep), !.table = add_header(@, f)] = Encoded(t, b)
        BY Zenon, <2>1, <2>2, <2>3, <2>4
    <2> QED BY Zenon, <2>5 DEF b, t
<1> HIDE DEF s
<1>6. CASE found = <<0, FALSE>> /\ \A i \in 1 .. Len(Entries(e)) : Entries(e)[i][1] # f[1]
    <2> DEFINE rep == Rep(Indexing, 0, Raw(f[1]), Raw(f[2]))
    <2>1. rep \in Representations(e, f)
        BY Zenon, <1>3, <1>4, AreRepresentations
    <2>2. rep.kind = Indexing
        BY Zenon DEF Rep
    <2>3. out = [s EXCEPT !.block = Append(@, rep), !.table = add_header(@, f)]
        BY Zenon, <1>1, <1>6 DEF encode_header_into, Indexing
    <2> HIDE DEF rep, out
    <2>4. out = Encoded(Taken(e, rep.kind, f), Append(block, rep))
        BY Zenon, <1>5, <2>2, <2>3 DEF Taken, Adds, Indexing
    <2> QED BY Zenon, <1>6, <2>1, <2>4 DEF out, s
<1>7. ASSUME NEW i \in 1 .. Len(Entries(e)), Entries(e)[i][1] = f[1], found = <<i, FALSE>>
      PROVE  \E rep \in Representations(e, f) :
                rep.kind # Indexing /\ out = Encoded(Taken(e, rep.kind, f), Append(block, rep))
    <2> DEFINE rep == Rep("LiteralWithoutIndexing", i, x, Raw(f[2]))
    <2>1. rep \in Representations(e, f)
        BY Zenon, <1>3, <1>4, <1>7, AreRepresentations
    <2>2. rep.kind = "LiteralWithoutIndexing"
        BY Zenon DEF Rep
    <2>3. found # <<0, FALSE>> /\ found[1] = i /\ ~found[2]
        BY <1>7
    <2>4. out = [s EXCEPT !.block = Append(@, rep)]
        BY Zenon, <1>1, <2>3 DEF encode_header_into
    <2> HIDE DEF rep, out
    <2>5. out = Encoded(Taken(e, rep.kind, f), Append(block, rep))
        BY Zenon, <1>3, <1>5, <2>2, <2>4 DEF Taken, Adds, Indexing
    <2> QED BY Zenon, <1>3, <2>1, <2>2, <2>5
<1>8. ASSUME NEW i \in 1 .. Len(Entries(e)), Entries(e)[i] = f, found = <<i, TRUE>>
      PROVE  \E rep \in Representations(e, f) :
                rep.kind # Indexing /\ out = Encoded(Taken(e, rep.kind, f), Append(block, rep))
    <2> DEFINE rep == Rep("Indexed", i, x, x)
    <2>1. rep \in Representations(e, f)
        BY Zenon, <1>8, AreRepresentations
    <2>2. rep.kind = "Indexed"
        BY Zenon DEF Rep
    <2>3. found # <<0, FALSE>> /\ found[1] = i /\ found[2]
        BY <1>8
    <2>4. out = [s EXCEPT !.block = Append(@, rep)]
        BY Zenon, <1>1, <2>3 DEF encode_header_into
    <2> HIDE DEF rep, out
    <2>5. out = Encoded(Taken(e, rep.kind, f), Append(block, rep))
        BY Zenon, <1>3, <1>5, <2>2, <2>4 DEF Taken, Adds, Indexing
    <2> QED BY Zenon, <1>3, <2>1, <2>2, <2>5
<1> HIDE DEF out
<1>9. \E rep \in Representations(e, f) :
         /\ out = Encoded(Taken(e, rep.kind, f), Append(block, rep))
         /\ rep.kind = Indexing => \A i \in 1 .. Len(Entries(e)) : Entries(e)[i][1] # f[1]
    BY Zenon, <1>6, <1>7, <1>8, FindHeader DEF out, s
<1> QED BY Zenon, <1>9 DEF out, s

\* What a list of fields does to the encoder, and to a decoder that reads what
\* was written.
Follows(e, d, fields, u, v, block) ==
    /\ encode_into(e, fields) = Encoded(u, block)
    /\ RepsRead(d, block) = State(v, fields, "none")
    /\ Begins(u.table, v.table) /\ u.max = e.max /\ v.max = d.max
    /\ Distinct(u.table)
    /\ \A i \in 1 .. Len(block) : block[i].kind # "SizeUpdate"

\* The last field is encoded in the state the others left.
LEMMA EncodeSnoc ==
    ASSUME NEW t
    PROVE  \A s \in Seq(Fields), x \in Fields :
             encode_into(t, Append(s, x)) = encode_header_into(encode_into(t, s), x)
BY ZenonT(30), EncodeOf

\* Encoder::encode_into and Decoder::decode_with_cb, field by field.
LEMMA EncodeList ==
    ASSUME NEW e \in Tables, NEW d \in Tables, Begins(e.table, d.table), e.max <= d.max, e.max <= Allowed,
           Distinct(e.table), NEW fields \in Seq(Fields)
    PROVE  \E u \in Tables, v \in Tables, block \in Seq(Reps) : Follows(e, d, fields, u, v, block)
<1> DEFINE T == {fs \in Seq(Fields) :
                   \E u \in Tables, v \in Tables, block \in Seq(Reps) : Follows(e, d, fs, u, v, block)}
<1>1. <<>> \in T
    <2>1. <<>> \in Seq(Fields) /\ <<>> \in Seq(Reps) /\ 1 .. Len(<<>>) = {}
        OBVIOUS
    <2>2. RepsRead(d, <<>>) = State(d, <<>>, "none") /\ encode_into(e, <<>>) = Encoded(e, <<>>)
        BY Zenon, RepsReadOf, EncodeOf DEF Start, State, Encoded
    <2>3. Follows(e, d, <<>>, e, d, <<>>)
        BY Zenon, <2>1, <2>2 DEF Follows
    <2> QED BY Zenon, <2>1, <2>3
<1>2. ASSUME NEW fs \in Seq(Fields), NEW f \in Fields, fs \in T PROVE Append(fs, f) \in T
    <2>1. PICK u \in Tables, v \in Tables, block \in Seq(Reps) : Follows(e, d, fs, u, v, block)
        BY Zenon, <1>2
    <2>2. f \in AllFields /\ Append(fs, f) \in Seq(Fields)
        BY WidthAssumption
    <2>3. PICK rep \in Representations(u, f) :
              /\ encode_header_into(Encoded(u, block), f) = Encoded(Taken(u, rep.kind, f), Append(block, rep))
              /\ rep.kind = Indexing => \A i \in 1 .. Len(Entries(u)) : Entries(u)[i][1] # f[1]
        BY Zenon, <2>2, EncodeHeader
    <2> DEFINE x == Taken(u, rep.kind, f)
               y == Taken(v, rep.kind, f)
               b == Append(block, rep)
    <2>4. x \in Tables /\ y \in Tables /\ x.max = e.max /\ y.max = d.max
        <3>1. x \in Tables /\ x.max = u.max
            BY Zenon, <2>2, TakenIs
        <3>2. y \in Tables /\ y.max = v.max
            BY Zenon, <2>2, TakenIs
        <3> HIDE DEF x, y
        <3> QED BY Zenon, <2>1, <3>1, <3>2 DEF Follows
    <2>5. u.max <= Allowed /\ u.max <= v.max /\ Begins(u.table, v.table)
        BY Zenon, <2>1 DEF Follows
    <2>6. /\ rep \in Reps /\ rep.kind \in Kinds \ {"SizeUpdate"}
          /\ DecodeRep(State(v, fs, "none"), rep) = State(y, Append(fs, f), "none")
        <3>1. ReadsBack(v, f, rep, fs)
            BY Zenon, <2>5, DecodeRepresentation
        <3> QED BY Zenon, <3>1 DEF ReadsBack
    <2>7. encode_into(e, Append(fs, f)) = Encoded(x, b)
        <3>1. encode_into(e, Append(fs, f)) = encode_header_into(encode_into(e, fs), f)
            BY Zenon, EncodeSnoc
        <3> HIDE DEF x, b
        <3> QED BY Zenon, <2>1, <2>3, <3>1 DEF Follows, x, b
    <2>8. RepsRead(d, b) = State(y, Append(fs, f), "none")
        <3>1. RepsRead(d, b) = DecodeRep(RepsRead(d, block), rep)
            BY Zenon, <2>6, RepsReadSnoc
        <3> HIDE DEF y, b
        <3> QED BY Zenon, <2>1, <2>6, <3>1 DEF Follows
    <2>9. Begins(x.table, y.table)
        BY Zenon, <2>2, <2>5, TakenKeepsBeginning
    <2>10. Distinct(x.table)
        <3>1. Distinct(u.table) /\ u.table \in Seq(AllFields) /\ u.max \in Nat
            BY Zenon, <2>1, TableType DEF Follows
        <3>2. CASE rep.kind # Indexing
            BY Zenon, <2>2, <3>1, <3>2, TakenIs
        <3>3. CASE rep.kind = Indexing
            <4>1. /\ \A i \in 1 .. Len(STATIC_TABLE) : STATIC_TABLE[i][1] # f[1]
                  /\ \A i \in 1 .. Len(u.table) : u.table[i][1] # f[1]
                <5>1. /\ \A i \in 1 .. Len(STATIC_TABLE) : Entries(u)[i] = STATIC_TABLE[i]
                      /\ \A i \in 1 .. Len(u.table) : Entries(u)[i + Len(STATIC_TABLE)] = u.table[i]
                    BY Zenon, EntriesType
                <5>2. /\ \A i \in 1 .. Len(STATIC_TABLE) : i \in 1 .. Len(Entries(u))
                      /\ \A i \in 1 .. Len(u.table) : i + Len(STATIC_TABLE) \in 1 .. Len(Entries(u))
                    <6>1. /\ Len(Entries(u)) = Len(STATIC_TABLE) + Len(u.table)
                          /\ Len(STATIC_TABLE) \in Nat /\ Len(u.table) \in Nat
                        <7>1. STATIC_TABLE \in Seq(AllFields)
                            BY Zenon, WidthAssumption
                        <7>2. Len(STATIC_TABLE) \in Nat /\ Len(u.table) \in Nat
                            BY <3>1, <7>1
                        <7> QED BY Zenon, <7>2, EntriesType
                    <6> QED BY <6>1
                <5>3. ASSUME NEW i \in 1 .. Len(STATIC_TABLE) PROVE STATIC_TABLE[i][1] # f[1]
                    BY Zenon, <2>3, <3>3, <5>1, <5>2
                <5>4. ASSUME NEW i \in 1 .. Len(u.table) PROVE u.table[i][1] # f[1]
                    <6>1. Entries(u)[i + Len(STATIC_TABLE)][1] # f[1]
                        BY Zenon, <2>3, <3>3, <5>2
                    <6> QED BY Zenon, <5>1, <6>1
                <5> QED BY Zenon, <5>3, <5>4
            <4>2. <<f>> \o u.table \in Seq(AllFields) /\ Distinct(<<f>> \o u.table)
                BY Zenon, <2>2, <3>1, <4>1, ConsType, ConsDistinct
            <4>3. PICK a \in Nat : a = u.max
                BY Zenon, <3>1
            <4>4. x = Fitting(<<f>> \o u.table, a)
                BY Zenon, <2>2, <3>3, <4>3, TakenIs
            <4>5. x.table \in Seq(AllFields) /\ Begins(x.table, <<f>> \o u.table)
                BY Zenon, <2>4, <4>2, <4>4, FittingType, TableType
            <4> HIDE DEF x
            <4> QED BY Zenon, <4>2, <4>5, BeginningDistinct
        <3> QED BY Zenon, <3>2, <3>3
    <2>11. b \in Seq(Reps) /\ \A i \in 1 .. Len(b) : b[i].kind # "SizeUpdate"
        <3>1. b \in Seq(Reps) /\ \A i \in 1 .. Len(b) : b[i] = rep \/ (i \in 1 .. Len(block) /\ b[i] = block[i])
            BY <2>6
        <3> HIDE DEF b
        <3>2. \A i \in 1 .. Len(block) : block[i].kind # "SizeUpdate"
            BY Zenon, <2>1 DEF Follows
        <3>3. rep.kind # "SizeUpdate"
            BY Zenon, <2>6
        <3> QED BY Zenon, <3>1, <3>2, <3>3
    <2> HIDE DEF x, y, b
    <2>12. Follows(e, d, Append(fs, f), x, y, b)
        BY Zenon, <2>4, <2>7, <2>8, <2>9, <2>10, <2>11 DEF Follows
    <2> QED BY Zenon, <2>2, <2>4, <2>11, <2>12
<1> HIDE DEF T
<1>3. fields \in T
    BY Zenon, <1>1, <1>2, BySnoc
<1> QED BY Zenon, <1>3 DEF T

-----------------------------------------------------------------------------
(* Malformed blocks are refused.                                           *)

\* The decoder ends the block with an error.
Refused(t, block) == decode_with_cb(t, Allowed, block).error # "none"

\* A block of one representation.
LEMMA ReadOne ==
    ASSUME NEW t, NEW a \in Reps
    PROVE  /\ <<a>> \in Seq(Reps) /\ <<a>>[Len(<<a>>)] = a
           /\ RepsRead(t, <<a>>) = DecodeRep(State(t, <<>>, "none"), a)
<1>1. <<>> \in Seq(Reps) /\ <<a>> = Append(<<>>, a) /\ <<a>> \in Seq(Reps) /\ <<a>>[Len(<<a>>)] = a
    OBVIOUS
<1>2. RepsRead(t, <<>>) = State(t, <<>>, "none")
    BY Zenon, RepsReadOf DEF Start, State
<1>3. RepsRead(t, Append(<<>>, a)) = DecodeRep(RepsRead(t, <<>>), a)
    BY Zenon, <1>1, RepsReadSnoc
<1> QED BY Zenon, <1>1, <1>2, <1>3

\* A block of two representations.
LEMMA ReadTwo ==
    ASSUME NEW t, NEW a \in Reps, NEW b \in Reps
    PROVE  /\ <<a, b>> \in Seq(Reps) /\ <<a, b>> # <<>> /\ <<a, b>>[Len(<<a, b>>)] = b
           /\ RepsRead(t, <<a, b>>) = DecodeRep(DecodeRep(State(t, <<>>, "none"), a), b)
<1>1. <<a, b>> = Append(<<a>>, b) /\ <<a, b>> \in Seq(Reps) /\ <<a, b>> # <<>> /\ <<a, b>>[Len(<<a, b>>)] = b
    OBVIOUS
<1>2. <<a>> \in Seq(Reps) /\ RepsRead(t, <<a>>) = DecodeRep(State(t, <<>>, "none"), a)
    BY Zenon, ReadOne
<1>3. RepsRead(t, Append(<<a>>, b)) = DecodeRep(RepsRead(t, <<a>>), b)
    BY Zenon, <1>2, RepsReadSnoc
<1> QED BY Zenon, <1>1, <1>2, <1>3

\* An error in a representation is an error of the block.
LEMMA RefusedBlock ==
    ASSUME NEW t, NEW block, NEW u, NEW fs, NEW e, RepsRead(t, block) = State(u, fs, e), e # "none"
    PROVE  Refused(t, block)
<1>1. decode_with_cb(t, Allowed, block) = State(u, fs, Ending(block, e))
    BY DecodeBlockIs
<1>2. Ending(block, e) = e
    BY Zenon DEF Ending
<1>3. State(u, fs, e).error = e
    BY DEF State
<1> QED BY Zenon, <1>1, <1>2, <1>3 DEF Refused

\* A representation is refused for its integer, ...
LEMMA BadInteger ==
    ASSUME NEW t, NEW rep \in Reps, decode_integer(rep.int, Mask[rep.kind]).error # "none"
    PROVE  Refused(t, <<rep>>)
<1> DEFINE int == decode_integer(rep.int, Mask[rep.kind])
<1>1. DecodesTo(DecodeRep(State(t, <<>>, "none"), rep), t, <<>>, rep, int)
    BY Zenon, DecodeRepIs
<1>2. int.error # "none"
    BY Zenon
<1> HIDE DEF int
<1>3. DecodeRep(State(t, <<>>, "none"), rep) = State(t, <<>>, int.error)
    BY Zenon, <1>1, <1>2 DEF DecodesTo
<1>4. RepsRead(t, <<rep>>) = State(t, <<>>, int.error)
    BY Zenon, <1>3, ReadOne
<1> QED BY <1>2, <1>4, RefusedBlock

\* ... or for its field.
LEMMA BadField ==
    ASSUME NEW t, NEW rep \in Reps, NEW r, r.error # "none",
           DecodeRep(State(t, <<>>, "none"), rep) = TakeField(State(t, <<>>, "none"), rep.kind, r)
    PROVE  Refused(t, <<rep>>)
<1>1. Takes(TakeField(State(t, <<>>, "none"), rep.kind, r), t, <<>>, rep.kind, r)
    BY Zenon, TakeFieldIs
<1>2. TakeField(State(t, <<>>, "none"), rep.kind, r) = State(t, <<>>, r.error)
    BY Zenon, <1>1 DEF Takes
<1>3. RepsRead(t, <<rep>>) = State(t, <<>>, r.error)
    BY Zenon, <1>2, ReadOne
<1> QED BY <1>3, RefusedBlock

\* An index outside the table.
LEMMA BadIndex ==
    ASSUME NEW t \in Tables, NEW i \in Nat, i \notin 1 .. Len(Entries(t)),
           i <= Len(STATIC_TABLE) + Allowed + 1
    PROVE  LET x == Raw(<<>>)
           IN  /\ Rep("Indexed", i, x, x) \in Reps /\ Refused(t, <<Rep("Indexed", i, x, x)>>)
               /\ i # 0 => /\ Rep("LiteralNeverIndexed", i, x, x) \in Reps
                           /\ Refused(t, <<Rep("LiteralNeverIndexed", i, x, x)>>)
<1> DEFINE x == Raw(<<>>)
<1>1. x \in WireStrings
    BY Zenon, StringFits
<1> HIDE DEF x
<1>2. "Indexed" \in Kinds /\ "LiteralNeverIndexed" \in Kinds
    BY DEF Kinds
<1>3. i \notin DOMAIN Entries(t)
    BY Zenon, EntriesType
<1>4. Rep("Indexed", i, x, x) \in Reps /\ Refused(t, <<Rep("Indexed", i, x, x)>>)
    <2> DEFINE rep == Rep("Indexed", i, x, x)
               int == decode_integer(rep.int, Mask[rep.kind])
               r == decode_indexed(t, i)
    <2>1. rep \in Reps /\ rep.kind = "Indexed"
        BY SMTT(30), <1>1, <1>2, RepType
    <2>2. int.value = i /\ int.error = "none"
        BY <1>2, IndexFits
    <2>3. r.error = "HeaderIndexOutOfBounds"
        BY Zenon, <1>3 DEF decode_indexed
    <2>4. DecodesTo(DecodeRep(State(t, <<>>, "none"), rep), t, <<>>, rep, int)
        BY Zenon, DecodeRepIs
    <2> HIDE DEF rep, int, r
    <2>5. DecodeRep(State(t, <<>>, "none"), rep) = TakeField(State(t, <<>>, "none"), rep.kind, r)
        BY Zenon, <2>1, <2>2, <2>4 DEF DecodesTo, r
    <2>6. r.error # "none"
        BY <2>3
    <2>7. Refused(t, <<rep>>)
        BY <2>1, <2>5, <2>6, BadField
    <2> QED BY Zenon, <2>1, <2>7 DEF rep
<1>5. ASSUME i # 0
      PROVE  /\ Rep("LiteralNeverIndexed", i, x, x) \in Reps
             /\ Refused(t, <<Rep("LiteralNeverIndexed", i, x, x)>>)
    <2> DEFINE rep == Rep("LiteralNeverIndexed", i, x, x)
               int == decode_integer(rep.int, Mask[rep.kind])
               r == decode_literal(t, rep, i)
    <2>1. rep \in Reps /\ rep.kind = "LiteralNeverIndexed"
        <3>1. rep \in Reps
            BY Zenon, <1>1, <1>2, RepType
        <3>2. rep.kind = "LiteralNeverIndexed"
            BY Zenon DEF Rep
        <3> QED BY Zenon, <3>1, <3>2
    <2>2. int.value = i /\ int.error = "none"
        BY <1>2, IndexFits
    <2> HIDE DEF rep
    <2>3. NameOf(t, rep, i) = Reading(<<>>, <<>>, "HeaderIndexOutOfBounds")
        BY Zenon, <1>3, <1>5 DEF NameOf
    <2>4. NameOf(t, rep, i).error = "HeaderIndexOutOfBounds"
        BY <2>3 DEF Reading
    <2>5. r.error = IF NameOf(t, rep, i).error # "none" THEN NameOf(t, rep, i).error
                    ELSE decode_string(rep.value).error
        BY LiteralIs
    <2>6. DecodesTo(DecodeRep(State(t, <<>>, "none"), rep), t, <<>>, rep, int)
        BY Zenon, DecodeRepIs
    <2> HIDE DEF int, r
    <2>7. r.error # "none"
        BY <2>4, <2>5
    <2>8. rep.kind # "SizeUpdate" /\ rep.kind # "Indexed"
        BY <2>1
    <2>9. DecodeRep(State(t, <<>>, "none"), rep) = TakeField(State(t, <<>>, "none"), rep.kind, r)
        BY Zenon, <2>2, <2>6, <2>8 DEF DecodesTo, r
    <2>10. Refused(t, <<rep>>)
        BY <2>1, <2>7, <2>9, BadField
    <2> QED BY Zenon, <2>1, <2>10 DEF rep
<1> QED BY Zenon, <1>4, <1>5 DEF x

\* A literal is refused for its strings, ...
LEMMA BadLiteral ==
    ASSUME NEW t \in Tables, NEW n \in WireStrings, NEW v \in WireStrings,
           decode_string(n).error # "none" \/ decode_string(v).error # "none"
    PROVE  /\ Rep("LiteralWithoutIndexing", 0, n, v) \in Reps
           /\ Refused(t, <<Rep("LiteralWithoutIndexing", 0, n, v)>>)
<1> DEFINE rep == Rep("LiteralWithoutIndexing", 0, n, v)
           int == decode_integer(rep.int, Mask[rep.kind])
           r == decode_literal(t, rep, 0)
<1>1. "LiteralWithoutIndexing" \in Kinds /\ 0 \in Nat
    BY DEF Kinds
<1>2. rep \in Reps
    BY Zenon, <1>1, RepType
<1>3. rep.kind = "LiteralWithoutIndexing" /\ rep.name = n /\ rep.value = v
    BY Zenon DEF Rep
<1>4. 0 <= Len(STATIC_TABLE) + Allowed + 1
    BY WidthAssumption
<1>5. int.value = 0 /\ int.error = "none"
    BY <1>1, <1>4, IndexFits
<1> HIDE DEF rep
<1>6. NameOf(t, rep, 0) = decode_string(n)
    BY Zenon, <1>3 DEF NameOf
<1>7. r.error = IF NameOf(t, rep, 0).error # "none" THEN NameOf(t, rep, 0).error
                ELSE decode_string(rep.value).error
    BY LiteralIs
<1>8. DecodesTo(DecodeRep(State(t, <<>>, "none"), rep), t, <<>>, rep, int)
    BY Zenon, DecodeRepIs
<1> HIDE DEF int, r
<1>9. r.error # "none"
    BY Zenon, <1>3, <1>6, <1>7
<1>10. rep.kind # "SizeUpdate" /\ rep.kind # "Indexed"
    BY <1>3
<1>11. DecodeRep(State(t, <<>>, "none"), rep) = TakeField(State(t, <<>>, "none"), rep.kind, r)
    BY Zenon, <1>5, <1>8, <1>10 DEF DecodesTo, r
<1>12. Refused(t, <<rep>>)
    BY <1>2, <1>9, <1>11, BadField
<1> QED BY Zenon, <1>2, <1>12 DEF rep

\* ... for bits that are no string, ...
LEMMA BadBits ==
    ASSUME NEW bits \in Seq(Bits), HuffmanDecode(bits).error # "none"
    PROVE  Coded(bits) \in WireStrings /\ decode_string(Coded(bits)).error # "none"
<1> DEFINE s == Coded(bits)
           n == Len(bits) \div OctetBits
           o == encode_integer(n, Mask["string"])
           len == decode_integer(o, Mask["string"])
<1>1. n \in Nat
    <2>1. Len(bits) \in Nat /\ OctetBits \in Nat \ {0}
        BY WidthAssumption
    <2> QED BY Zenon, <2>1, Division
<1> HIDE DEF n
<1>2. Mask["string"] \in Nat
    BY WidthAssumption
<1>3. o \in Octets
    BY Zenon, <1>1, <1>2, IntegerRoundTrip
<1>4. s = [huffman |-> TRUE, octets |-> bits, len |-> o]
    BY Zenon DEF Coded, n
<1> HIDE DEF o, s
<1>5. s.huffman = TRUE /\ s.octets = bits /\ s.len = o
    BY <1>4
<1>6. s \in WireStrings
    BY <1>3, <1>4 DEF WireStrings
<1>7. decode_string(s) = IF len.error # "none" THEN Reading(<<>>, <<>>, len.error)
                         ELSE IF len.value > n THEN Reading(<<>>, <<>>, "NotEnoughOctets")
                         ELSE HuffmanDecode(bits)
    BY Zenon, <1>5, DecodeStringIs DEF n
<1>8. \A e : Reading(<<>>, <<>>, e).error = e
    BY DEF Reading
<1> HIDE DEF len
<1>9. "NotEnoughOctets" # "none"
    OBVIOUS
<1>10. decode_string(s).error # "none"
    <2>1. CASE len.error # "none"
        BY Zenon, <1>7, <1>8, <2>1
    <2>2. CASE len.error = "none" /\ len.value > n
        BY Zenon, <1>7, <1>8, <1>9, <2>2
    <2>3. CASE len.error = "none" /\ ~(len.value > n)
        BY Zenon, <1>7, <2>3
    <2> QED BY Zenon, <2>1, <2>2, <2>3
<1> QED BY Zenon, <1>6, <1>10 DEF s

\* ... such as those of EOS, ...
LEMMA EosRefused ==
    ASSUME NEW w \in Seq(Bits)
    PROVE  /\ EndOfString \o w \in Seq(Bits) /\ HuffmanDecode(EndOfString \o w).error # "none"
           /\ EndOfString \in Seq(Bits) /\ HuffmanDecode(EndOfString).error # "none"
<1> DEFINE n == Len(EndOfString)
           p == SubSeq(EndOfString, 1, n - 1)
           b == EndOfString[n]
<1>1. EndOfString \in Seq(Bits) /\ n \in Nat /\ n >= 1
    BY CodeAssumption, WidthAssumption DEF Bits
<1>2. p \in Seq(Bits) /\ Append(p, b) = EndOfString /\ b \in Bits /\ n - 1 \in Nat /\ n - 1 < n
    BY <1>1
<1>3. BitsRead(<<>>) = Reading(<<>>, <<>>, "none") /\ <<>> \in Seq(Bits) /\ <<>> \o p = p
    <2>1. BitsRead(<<>>) = Reading(<<>>, <<>>, "none")
        BY Zenon, BitsReadOf DEF NoBits, Reading
    <2>2. <<>> \in Seq(Bits) /\ <<>> \o p = p
        <3> HIDE DEF p
        <3> QED BY <1>2
    <2> QED BY Zenon, <2>1, <2>2
<1>4. BitsRead(<<>> \o p) = Reading(<<>>, p, "none")
    BY Zenon, <1>2, <1>3, ReadPadding
<1> HIDE DEF p, b
<1>5. BitsRead(Append(p, b)) = DecodeBit(BitsRead(p), b)
    BY Zenon, <1>2, BitsReadOf
<1>6. BitsRead(EndOfString) = Reading(<<>>, p, "EOSInString")
    BY Zenon, <1>2, <1>3, <1>4, <1>5, EosBit
<1>7. BitsRead(EndOfString).error = "EOSInString"
    BY <1>6 DEF Reading
<1>8. BitsRead(EndOfString).error # "none"
    BY <1>7
<1>9. BitsRead(EndOfString \o w) = BitsRead(EndOfString)
    BY Zenon, <1>1, <1>8, ErrorStays
<1>10. EndOfString \o w \in Seq(Bits)
    BY <1>1
<1>11. /\ HuffmanDecode(EndOfString) = BitsRead(EndOfString)
       /\ HuffmanDecode(EndOfString \o w) = BitsRead(EndOfString \o w)
    BY Zenon, <1>8, <1>9, HuffmanDecodeIs DEF CheckPadding
<1> QED BY Zenon, <1>1, <1>8, <1>9, <1>10, <1>11

\* ... a whole octet of padding, ...
LEMMA PaddingRefused ==
    LET w == SubSeq(EndOfString, 1, OctetBits)
    IN  w \in Seq(Bits) /\ HuffmanDecode(w).error # "none"
<1> DEFINE n == Len(EndOfString)
           w == SubSeq(EndOfString, 1, OctetBits)
<1>1. EndOfString \in Seq(Bits) /\ n \in Nat /\ n >= OctetBits /\ OctetBits \in Nat
    BY CodeAssumption, WidthAssumption DEF Bits
<1>2. CASE n = OctetBits
    <2>1. w = EndOfString
        BY <1>1, <1>2
    <2>2. <<>> \in Seq(Bits)
        OBVIOUS
    <2> HIDE DEF w
    <2> QED BY Zenon, <2>1, <2>2, EosRefused DEF w
<1>3. CASE OctetBits < n
    <2>1. BitsRead(<<>>) = Reading(<<>>, <<>>, "none")
        BY Zenon, BitsReadOf DEF NoBits, Reading
    <2>2. <<>> \in Seq(Bits)
        OBVIOUS
    <2>3. w \in Seq(Bits) /\ Len(w) = OctetBits /\ BitsRead(<<>> \o w) = Reading(<<>>, w, "none")
        BY Zenon, <1>1, <1>3, <2>1, <2>2, ReadPadding
    <2> DEFINE d == Reading(<<>>, w, "none")
    <2> HIDE DEF w
    <2>4. <<>> \o w = w
        BY <2>3
    <2>5. d.current = w /\ d.error = "none"
        BY DEF Reading
    <2>6. Len(w) > OctetBits - 1
        BY <1>1, <2>3
    <2>7. CheckPadding(d) = [d EXCEPT !.error = "PaddingTooLarge"]
        BY Zenon, <2>5, <2>6 DEF CheckPadding
    <2>8. [d EXCEPT !.error = "PaddingTooLarge"].error = "PaddingTooLarge"
        BY DEF Reading
    <2> HIDE DEF d
    <2>9. HuffmanDecode(w).error = "PaddingTooLarge"
        BY Zenon, <2>3, <2>4, <2>7, <2>8, HuffmanDecodeIs DEF d
    <2>10. HuffmanDecode(w).error # "none"
        BY <2>9
    <2> QED BY Zenon, <2>3, <2>10 DEF w
<1>4. n = OctetBits \/ OctetBits < n
    BY <1>1
<1> QED BY Zenon, <1>2, <1>3, <1>4

\* ... or padding that is not of EOS.
LEMMA WrongPaddingRefused ==
    ASSUME NEW c \in Symbols
    PROVE  LET w == HUFFMAN_CODE_TABLE[c] \o <<0>>
           IN  w \in Seq(Bits) /\ HuffmanDecode(w).error # "none"
<1> DEFINE h == HUFFMAN_CODE_TABLE[c]
           w == h \o <<0>>
           d == Reading(<<c>>, <<0>>, "none")
<1>1. h \in Seq(Bits)
    BY Zenon, CodeType
<1>2. BitsRead(<<>>) = Reading(<<>>, <<>>, "none")
    BY Zenon, BitsReadOf DEF NoBits, Reading
<1>3. <<>> \in Seq(Bits) /\ 0 \in Bits /\ Append(<<>>, c) = <<c>> /\ Append(<<>>, 0) = <<0>>
    BY DEF Bits
<1>4. BitsRead(<<>> \o h) = Reading(Append(<<>>, c), <<>>, "none")
    BY Zenon, <1>2, <1>3, ReadCode
<1> HIDE DEF h
<1>5. <<>> \o h = h /\ w = Append(h, 0) /\ w \in Seq(Bits)
    BY <1>1, <1>3
<1>6. BitsRead(h) = Reading(<<c>>, <<>>, "none")
    BY Zenon, <1>3, <1>4, <1>5
<1>7. Append(<<>>, 0) # EndOfString
    <2>1. EndOfString[1] = 1
        BY Zenon, CodeAssumption
    <2>2. <<0>>[1] = 0
        OBVIOUS
    <2> QED BY <1>3, <2>1, <2>2
<1>8. \A s \in Symbols : HUFFMAN_CODE_TABLE[s] # Append(<<>>, 0)
    <2>1. \A s \in Symbols : Len(HUFFMAN_CODE_TABLE[s]) > 1
        BY Zenon, CodeAssumption
    <2>2. ~(Len(<<0>>) > 1)
        OBVIOUS
    <2> QED BY Zenon, <1>3, <2>1, <2>2
<1>9. DecodeBit(Reading(<<c>>, <<>>, "none"), 0) = Reading(<<c>>, Append(<<>>, 0), "none")
    BY Zenon, <1>7, <1>8, KeptBit
<1>10. BitsRead(Append(h, 0)) = DecodeBit(BitsRead(h), 0)
    BY Zenon, <1>1, <1>3, BitsReadOf
<1> HIDE DEF w
<1>11. BitsRead(w) = d
    BY Zenon, <1>3, <1>5, <1>6, <1>9, <1>10
<1>12. d.current = <<0>> /\ d.error = "none"
    BY DEF Reading
<1>13. ~Begins(<<0>>, EndOfString)
    <2>1. EndOfString \in Seq(Bits) /\ <<0>> \in Seq(Bits)
        BY CodeAssumption DEF Bits
    <2>2. EndOfString[1] = 1 /\ <<0>>[1] = 0 /\ 1 \in 1 .. Len(<<0>>)
        BY CodeAssumption
    <2>3. <<0>>[1] # EndOfString[1]
        BY <2>2
    <2> QED BY Zenon, <2>1, <2>2, <2>3, BeginsAgree
<1>14. \/ CheckPadding(d) = [d EXCEPT !.error = "PaddingTooLarge"]
       \/ CheckPadding(d) = [d EXCEPT !.error = "InvalidPadding"]
    <2> HIDE DEF d
    <2> QED BY Zenon, <1>12, <1>13 DEF CheckPadding
<1>15. /\ [d EXCEPT !.error = "PaddingTooLarge"].error # "none"
       /\ [d EXCEPT !.error = "InvalidPadding"].error # "none"
    BY DEF Reading
<1> HIDE DEF d
<1>16. HuffmanDecode(w).error # "none"
    BY Zenon, <1>11, <1>14, <1>15, HuffmanDecodeIs
<1> QED BY Zenon, <1>5, <1>16 DEF w, h

\* An integer none of whose octets is the last one.
LEMMA OpenInteger ==
    ASSUME NEW o \in Octets, NEW mask \in Nat, o[1] = mask, \A i \in 2 .. Len(o) : o[i] >= Base
    PROVE  decode_integer(o, mask).error # "none"
<1> DEFINE final == {i \in 2 .. Len(o) : i <= OctetLimit /\ o[i] < Base}
           last == CHOOSE i \in final : \A j \in final : i <= j
           code == IF Len(o) >= OctetLimit THEN "TooManyOctets" ELSE "NotEnoughOctets"
<1>1. final = {}
    <2>1. \A i \in 2 .. Len(o) : ~(o[i] < Base)
        BY WidthAssumption DEF Octets
    <2> QED BY Zenon, <2>1
<1>2. ~(o[1] < mask)
    OBVIOUS
<1>3. decode_integer(o, mask) = [value |-> 0, consumed |-> 0, error |-> code]
    BY Zenon, <1>1, <1>2 DEF decode_integer
<1>4. code # "none"
    OBVIOUS
<1> HIDE DEF code
<1>5. decode_integer(o, mask).error = code
    BY <1>3
<1> QED BY Zenon, <1>4, <1>5

\* A string on the wire.
WireString(h, l, o) == [huffman |-> h, len |-> l, octets |-> o]

\* A string with another length written in front of it.
LEMMA SetLength ==
    ASSUME NEW h, NEW l, NEW o, NEW q
    PROVE  [WireString(h, l, o) EXCEPT !.len = q] = WireString(h, q, o)
BY DEF WireString

\* The length of a string is more than there is of it, or is cut off.
LEMMA BadLength ==
    LET x == Raw(<<>>)
        long == [x EXCEPT !.len = encode_integer(1, Mask["string"])]
        open == [x EXCEPT !.len = <<Mask["string"]>>]
    IN  /\ long \in WireStrings /\ decode_string(long).error # "none"
        /\ open \in WireStrings /\ decode_string(open).error # "none"
<1> DEFINE x == Raw(<<>>)
           m == Mask["string"]
           o == encode_integer(1, m)
           long == [x EXCEPT !.len = o]
           open == [x EXCEPT !.len = <<m>>]
           String(q) == [huffman |-> FALSE, len |-> q, octets |-> <<>>]
<1>1. m \in Nat /\ 1 \in Nat /\ <<m>> \in Octets
    BY WidthAssumption DEF Octets
<1> HIDE DEF m
<1>2. o \in Octets
    BY Zenon, <1>1, IntegerRoundTrip
<1>3. \A q \in Octets : String(q) \in WireStrings
    BY DEF WireStrings
<1>4. long = String(o) /\ open = String(<<m>>)
    <2> DEFINE l == encode_integer(Len(<<>>), m)
    <2>1. x = WireString(FALSE, l, <<>>)
        BY Zenon DEF Raw, WireString, m
    <2>2. \A q : String(q) = WireString(FALSE, q, <<>>)
        BY Zenon DEF WireString
    <2> HIDE DEF o, l, x, String
    <2>3. ASSUME NEW q PROVE [x EXCEPT !.len = q] = String(q)
        <3>1. PICK h, z : h = FALSE /\ z = <<>>
            BY Zenon
        <3>2. x = WireString(h, l, z) /\ String(q) = WireString(h, q, z)
            BY Zenon, <2>1, <2>2, <3>1
        <3>3. [WireString(h, l, z) EXCEPT !.len = q] = WireString(h, q, z)
            BY SetLength
        <3> QED BY Zenon, <3>2, <3>3
    <2> QED BY Zenon, <2>3
<1>5. ASSUME NEW q \in Octets,
             LET len == decode_integer(q, m) IN len.error # "none" \/ len.value > 0
      PROVE  decode_string(String(q)).error # "none"
    <2> DEFINE len == decode_integer(q, m)
    <2>1. String(q).huffman = FALSE /\ String(q).len = q /\ String(q).octets = <<>> /\ Len(<<>>) = 0
        OBVIOUS
    <2>2. len.error # "none" \/ len.value > 0
        BY Zenon, <1>5
    <2> DEFINE s == String(q)
    <2> HIDE DEF s
    <2>3. decode_string(s) = IF len.error # "none" THEN Reading(<<>>, <<>>, len.error)
                             ELSE IF len.value > 0 THEN Reading(<<>>, <<>>, "NotEnoughOctets")
                             ELSE Reading(<<>>, <<>>, "none")
        BY Zenon, <2>1, DecodeStringIs DEF s, m
    <2>4. \A e : Reading(<<>>, <<>>, e).error = e
        BY DEF Reading
    <2>5. "NotEnoughOctets" # "none"
        OBVIOUS
    <2> HIDE DEF len
    <2>6. CASE len.error # "none"
        BY Zenon, <2>3, <2>4, <2>6 DEF s
    <2>7. CASE len.error = "none"
        BY Zenon, <2>2, <2>3, <2>4, <2>5, <2>7 DEF s
    <2> QED BY Zenon, <2>6, <2>7
<1>6. decode_string(String(o)).error # "none"
    <2> DEFINE len == decode_integer(o, m)
    <2>1. CASE Len(o) <= OctetLimit
        <3>1. len = [value |-> 1, consumed |-> Len(o), error |-> "none"]
            BY Zenon, <1>1, <2>1, IntegerRoundTrip
        <3> HIDE DEF len, o
        <3>2. len.value > 0
            BY <3>1
        <3> HIDE DEF String
        <3> QED BY Zenon, <1>2, <1>5, <3>2 DEF len
    <2>2. CASE ~(Len(o) <= OctetLimit)
        <3>1. len.error # "none"
            BY Zenon, <1>1, <2>2, IntegerRoundTrip
        <3> HIDE DEF String, o
        <3> QED BY Zenon, <1>2, <1>5, <3>1
    <2> QED BY Zenon, <2>1, <2>2
<1>7. decode_string(String(<<m>>)).error # "none"
    <2>1. <<m>>[1] = m /\ \A i \in 2 .. Len(<<m>>) : <<m>>[i] >= Base
        BY <1>1
    <2>2. decode_integer(<<m>>, m).error # "none"
        BY Zenon, <1>1, <2>1, OpenInteger
    <2> HIDE DEF String
    <2> QED BY Zenon, <1>1, <1>5, <2>2
<1> HIDE DEF long, open, String, o
<1>8. long \in WireStrings /\ decode_string(long).error # "none"
      /\ open \in WireStrings /\ decode_string(open).error # "none"
    BY Zenon, <1>1, <1>2, <1>3, <1>4, <1>6, <1>7
<1> QED BY Zenon, <1>8 DEF long, open, o, m

\* Each block of Malformed ends in an error.
LEMMA MalformedRefused ==
    ASSUME NEW t \in Tables, t.max <= Allowed, NEW block \in Malformed(t)
    PROVE  block \in Seq(Reps) /\ Refused(t, block)
<1> DEFINE x == Raw(<<>>)
           lit(name, value) == Rep("LiteralWithoutIndexing", 0, name, value)
           ok(b) == b \in Seq(Reps) /\ Refused(t, b)
           cut(n) == [lit(x, x) EXCEPT !.int =
                        [i \in 1 .. n |-> IF i = 1 THEN Mask[lit(x, x).kind] ELSE Base]]
           long == [x EXCEPT !.len = encode_integer(1, Mask["string"])]
           open == [x EXCEPT !.len = <<Mask["string"]>>]
           N == Len(Entries(t)) + 1
<1>1. x \in WireStrings
    BY Zenon, StringFits
<1>2. \A a \in Reps : <<a>> \in Seq(Reps)
    BY Zenon, ReadOne
<1>3. /\ N \in Nat /\ N # 0 /\ N \notin 1 .. Len(Entries(t)) /\ N <= Len(STATIC_TABLE) + Allowed + 1
      /\ 0 \in Nat /\ 0 \notin 1 .. Len(Entries(t)) /\ 0 <= Len(STATIC_TABLE) + Allowed + 1
      /\ Allowed + 1 \in Nat /\ Allowed + 1 <= Len(STATIC_TABLE) + Allowed + 1
      /\ Allowed \in Nat /\ Allowed + 1 > Allowed
    <2>1. /\ Len(Entries(t)) \in Nat /\ Len(Entries(t)) = Len(STATIC_TABLE) + Len(t.table)
          /\ Len(t.table) \in Nat /\ Len(t.table) <= t.max /\ t.max \in Nat
        BY Zenon, EntriesType, TableLength, TableType
    <2>2. STATIC_TABLE \in Seq(AllFields) /\ Allowed \in Nat
        BY Zenon, WidthAssumption
    <2>3. Len(STATIC_TABLE) \in Nat
        BY <2>2
    <2> QED BY <2>1, <2>2, <2>3
<1>4. /\ ok(<<Rep("Indexed", 0, x, x)>>) /\ ok(<<Rep("Indexed", N, x, x)>>)
      /\ ok(<<Rep("LiteralNeverIndexed", N, x, x)>>)
    <2> HIDE DEF N
    <2> QED BY Zenon, <1>2, <1>3, BadIndex DEF N
<1>5. /\ "SizeUpdate" \in Kinds /\ "LiteralWithoutIndexing" \in Kinds
    BY DEF Kinds
<1>6. ok(<<lit(long, x)>>) /\ ok(<<lit(x, open)>>)
    <2>1. /\ long \in WireStrings /\ decode_string(long).error # "none"
          /\ open \in WireStrings /\ decode_string(open).error # "none"
        BY Zenon, BadLength
    <2> HIDE DEF long, open, x
    <2> QED BY Zenon, <1>1, <1>2, <2>1, BadLiteral
<1>7. ASSUME NEW bits \in Seq(Bits), HuffmanDecode(bits).error # "none"
      PROVE  ok(<<lit(Coded(bits), x)>>) /\ ok(<<lit(x, Coded(bits))>>)
    <2>1. Coded(bits) \in WireStrings /\ decode_string(Coded(bits)).error # "none"
        BY Zenon, <1>7, BadBits
    <2> HIDE DEF x
    <2> QED BY Zenon, <1>1, <1>2, <2>1, BadLiteral
<1>8. /\ ok(<<lit(Coded(EndOfString \o SubSeq(EndOfString, 1, OctetBits - 1)), x)>>)
      /\ ok(<<lit(Coded(SubSeq(EndOfString, 1, OctetBits)), x)>>)
    <2>1. SubSeq(EndOfString, 1, OctetBits - 1) \in Seq(Bits)
        BY CodeAssumption, WidthAssumption DEF Bits
    <2> HIDE DEF lit, ok, x
    <2> QED BY Zenon, <1>7, <2>1, EosRefused, PaddingRefused
<1>9. \A c \in Symbols : ok(<<lit(x, Coded(HUFFMAN_CODE_TABLE[c] \o <<0>>))>>)
    <2> HIDE DEF lit, ok, x
    <2> QED BY Zenon, <1>7, WrongPaddingRefused
<1>10. ok(<<lit(x, x), Rep("SizeUpdate", Allowed, x, x)>>)
    <2> DEFINE a == lit(x, x)
               b == Rep("SizeUpdate", Allowed, x, x)
    <2>1. a \in Reps /\ b \in Reps
        BY Zenon, <1>1, <1>3, <1>5, RepType
    <2>2. b.kind = "SizeUpdate"
        BY Zenon DEF Rep
    <2> HIDE DEF a, b
    <2>3. /\ <<a, b>> \in Seq(Reps) /\ <<a, b>> # <<>> /\ <<a, b>>[Len(<<a, b>>)] = b
        BY Zenon, <2>1, ReadTwo
    <2>4. PICK u \in Tables : \E gs, g : RepsRead(t, <<a, b>>) = State(u, gs, g)
        BY Zenon, <2>3, RepsReadType
    <2>5. PICK gs, g : RepsRead(t, <<a, b>>) = State(u, gs, g)
        BY Zenon, <2>4
    <2>6. decode_with_cb(t, Allowed, <<a, b>>) = State(u, gs, Ending(<<a, b>>, g))
        BY <2>5, DecodeBlockIs
    <2>7. Ending(<<a, b>>, g) = IF g = "none" THEN "SizeUpdateAtEnd" ELSE g
        BY Zenon, <2>2, <2>3 DEF Ending
    <2>8. Ending(<<a, b>>, g) # "none"
        BY <2>7
    <2>9. \A e : State(u, gs, e).error = e
        BY DEF State
    <2> QED BY Zenon, <2>3, <2>6, <2>8, <2>9 DEF Refused, a, b
<1>11. ok(<<Rep("SizeUpdate", Allowed + 1, x, x), lit(x, x)>>)
    <2> DEFINE a == Rep("SizeUpdate", Allowed + 1, x, x)
               b == lit(x, x)
               int == decode_integer(a.int, Mask[a.kind])
               bad == State(t, <<>>, "InvalidMaxDynamicSize")
    <2>1. a \in Reps /\ b \in Reps
        BY Zenon, <1>1, <1>3, <1>5, RepType
    <2>2. a.kind = "SizeUpdate"
        BY Zenon DEF Rep
    <2>3. int.value = Allowed + 1 /\ int.error = "none"
        BY <1>3, <1>5, IndexFits
    <2>4. DecodesTo(DecodeRep(State(t, <<>>, "none"), a), t, <<>>, a, int)
        BY Zenon, DecodeRepIs
    <2> HIDE DEF a, b, int
    <2>5. DecodeRep(State(t, <<>>, "none"), a) = bad
        BY Zenon, <1>3, <2>2, <2>3, <2>4 DEF DecodesTo
    <2>6. bad.error = "InvalidMaxDynamicSize"
        BY DEF State
    <2>7. bad.error # "none"
        BY <2>6
    <2>8. DecodeRep(bad, b) = bad
        BY Zenon, <2>7 DEF DecodeRep
    <2>9. <<a, b>> \in Seq(Reps) /\ RepsRead(t, <<a, b>>) = bad
        <3>1. <<a, b>> \in Seq(Reps)
            BY Zenon, <2>1, ReadTwo
        <3> HIDE DEF bad
        <3>2. RepsRead(t, <<a, b>>) = DecodeRep(DecodeRep(State(t, <<>>, "none"), a), b)
            BY <2>1, ReadTwo
        <3> QED BY Zenon, <2>5, <2>8, <3>1, <3>2
    <2>10. Refused(t, <<a, b>>)
        <3>1. "InvalidMaxDynamicSize" # "none"
            OBVIOUS
        <3> QED BY <2>9, <3>1, RefusedBlock
    <2> QED BY Zenon, <2>9, <2>10 DEF a, b
<1>12. ASSUME NEW n \in Nat, n >= 2 PROVE ok(<<cut(n)>>)
    <2> DEFINE a == lit(x, x)
               m == Mask[a.kind]
               o == [i \in 1 .. n |-> IF i = 1 THEN m ELSE Base]
               c == [a EXCEPT !.int = o]
    <2>1. a \in Reps
        BY Zenon, <1>1, <1>3, <1>5, RepType
    <2> HIDE DEF a
    <2>2. m \in Nat
        BY <2>1, WidthAssumption DEF Reps
    <2> HIDE DEF m
    <2>3. o \in Octets /\ o[1] = m /\ \A i \in 2 .. Len(o) : o[i] >= Base
        BY <1>12, <2>2, WidthAssumption DEF Octets
    <2> HIDE DEF o
    <2>4. decode_integer(o, m).error # "none"
        BY Zenon, <2>2, <2>3, OpenInteger
    <2>5. c \in Reps /\ c.int = o /\ c.kind = a.kind
        BY <2>1, <2>3 DEF Reps
    <2> HIDE DEF c
    <2>6. decode_integer(c.int, Mask[c.kind]).error # "none"
        BY Zenon, <2>4, <2>5 DEF m
    <2>7. ok(<<c>>)
        BY Zenon, <1>2, <2>5, <2>6, BadInteger
    <2> HIDE DEF ok
    <2> QED BY Zenon, <2>7 DEF a, m, o, c
<1>13. ok(<<cut(OctetLimit)>>) /\ ok(<<cut(2)>>)
    <2>1. OctetLimit \in Nat /\ OctetLimit >= 2 /\ 2 \in Nat /\ 2 >= 2
        BY WidthAssumption
    <2> HIDE DEF ok, cut
    <2> QED BY Zenon, <1>12, <2>1
<1> DEFINE A == {<<Rep("Indexed", 0, x, x)>>, <<Rep("Indexed", N, x, x)>>,
                 <<Rep("LiteralNeverIndexed", N, x, x)>>,
                 <<Rep("SizeUpdate", Allowed + 1, x, x), lit(x, x)>>,
                 <<lit(x, x), Rep("SizeUpdate", Allowed, x, x)>>,
                 <<cut(OctetLimit)>>, <<cut(2)>>, <<lit(long, x)>>, <<lit(x, open)>>}
           B == {<<lit(Coded(bits), x)>> :
                   bits \in {EndOfString \o SubSeq(EndOfString, 1, OctetBits - 1),
                             SubSeq(EndOfString, 1, OctetBits)}}
           C == {<<lit(x, Coded(HUFFMAN_CODE_TABLE[c] \o <<0>>))>> :
                   c \in {c \in DOMAIN HUFFMAN_CODE_TABLE :
                            (Len(HUFFMAN_CODE_TABLE[c]) + 1) % OctetBits = 0}}
<1>14. block \in A \/ block \in B \/ block \in C
    <2>1. Malformed(t) = A \cup B \cup C
        BY Zenon DEF Malformed
    <2> HIDE DEF A, B, C
    <2> QED BY Zenon, <2>1
<1> HIDE DEF ok, lit, cut, long, open, x, N
<1>15. ASSUME block \in A PROVE ok(block)
    BY Zenon, <1>4, <1>6, <1>10, <1>11, <1>13, <1>15
<1>16. ASSUME block \in B PROVE ok(block)
    BY Zenon, <1>8, <1>16
<1>17. ASSUME block \in C PROVE ok(block)
    BY Zenon, <1>9, <1>17 DEF Symbols
<1> HIDE DEF A, B, C
<1>18. ok(block)
    BY Zenon, <1>14, <1>15, <1>16, <1>17
<1> QED BY Zenon, <1>18 DEF ok

-----------------------------------------------------------------------------
(* The link.                                                               *)

\* What is in flight: what was meant, the block, and whether the peer spoilt it.
Blocks == [meant : Seq(Fields), block : Seq(Reps), malformed : BOOLEAN]
Block(fields, block, malformed) == [meant |-> fields, block |-> block, malformed |-> malformed]

\* A decoder with table t reads block b as it was meant, and then has table u.
Reads(t, b, u) ==
    IF b.malformed THEN Refused(t, b.block) /\ u = t
    ELSE decode_with_cb(t, Allowed, b.block) = State(u, b.meant, "none")

\* The tables of a decoder that starts with t and reads the blocks w.
Chain(T, t, w) ==
    /\ T \in [0 .. Len(w) -> Tables]
    /\ T[0] = t
    /\ \A i \in 1 .. Len(w) : Reads(T[i - 1], w[i], T[i])

\* No block: the table is the decoder's own.
LEMMA ChainEmpty ==
    ASSUME NEW t \in Tables
    PROVE  \E T : Chain(T, t, <<>>) /\ T[Len(<<>>)] = t
<1> DEFINE T == [i \in 0 .. 0 |-> t]
<1>1. Len(<<>>) = 0 /\ 1 .. 0 = {} /\ 0 \in 0 .. 0
    OBVIOUS
<1>2. T \in [0 .. 0 -> Tables] /\ T[0] = t
    BY Zenon, <1>1
<1> HIDE DEF T
<1> QED BY Zenon, <1>1, <1>2 DEF Chain

\* One more block in flight, which the last table reads.
LEMMA ChainAppend ==
    ASSUME NEW w \in Seq(Blocks), NEW t, NEW T, Chain(T, t, w),
           NEW b \in Blocks, NEW u \in Tables, Reads(T[Len(w)], b, u)
    PROVE  \E U : Chain(U, t, Append(w, b)) /\ U[Len(Append(w, b))] = u
<1> DEFINE n == Len(w)
           v == Append(w, b)
           U == [i \in 0 .. n + 1 |-> IF i = n + 1 THEN u ELSE T[i]]
<1>1. /\ n \in Nat /\ Len(v) = n + 1 /\ v[n + 1] = b
      /\ \A i \in 1 .. n : v[i] = w[i]
    OBVIOUS
<1> HIDE DEF n, v
<1>2. /\ \A i \in 0 .. n + 1 : i = n + 1 \/ i \in 0 .. n
      /\ \A i \in 0 .. n : i \in 0 .. n + 1 /\ i # n + 1
      /\ 0 \in 0 .. n /\ n + 1 \in 0 .. n + 1 /\ n + 1 - 1 = n /\ n \in 0 .. n
      /\ \A i \in 1 .. n + 1 : i = n + 1 \/ i \in 1 .. n
      /\ \A i \in 1 .. n : i \in 0 .. n /\ i - 1 \in 0 .. n
    BY <1>1
<1>3. T \in [0 .. n -> Tables] /\ T[0] = t /\ \A i \in 1 .. n : Reads(T[i - 1], w[i], T[i])
    BY Zenon DEF Chain, n
<1>4. U[n + 1] = u /\ \A i \in 0 .. n : U[i] = T[i]
    BY Zenon, <1>2
<1>5. U \in [0 .. n + 1 -> Tables]
    BY Zenon, <1>2, <1>3
<1> HIDE DEF U
<1>6. Reads(T[n], b, u)
    BY Zenon DEF n
<1>7. ASSUME NEW i \in 1 .. n + 1 PROVE Reads(U[i - 1], v[i], U[i])
    <2>1. CASE i = n + 1
        <3>1. i - 1 = n
            BY <1>1, <2>1
        <3>2. U[n] = T[n] /\ v[i] = b /\ U[i] = u
            BY Zenon, <1>1, <1>2, <1>4, <2>1
        <3> QED BY Zenon, <1>6, <3>1, <3>2
    <2>2. CASE i \in 1 .. n
        <3>1. Reads(T[i - 1], w[i], T[i])
            BY Zenon, <1>3, <2>2
        <3>2. U[i - 1] = T[i - 1] /\ v[i] = w[i] /\ U[i] = T[i]
            BY Zenon, <1>1, <1>2, <1>4, <2>2
        <3> QED BY Zenon, <3>1, <3>2
    <2> QED BY Zenon, <1>2, <2>1, <2>2
<1>8. Chain(U, t, v) /\ U[Len(v)] = u
    BY Zenon, <1>1, <1>2, <1>3, <1>4, <1>5, <1>7 DEF Chain
<1> QED BY Zenon, <1>8 DEF v

\* One block less: the decoder that read it has the second table of the chain.
LEMMA ChainTail ==
    ASSUME NEW w \in Seq(Blocks), w # <<>>, NEW t, NEW T, Chain(T, t, w)
    PROVE  /\ Head(w) \in Blocks /\ Tail(w) \in Seq(Blocks) /\ T[1] \in Tables /\ Reads(t, Head(w), T[1])
           /\ \E U : Chain(U, T[1], Tail(w)) /\ U[Len(Tail(w))] = T[Len(w)]
<1> DEFINE n == Len(w) - 1
           v == Tail(w)
           U == [i \in 0 .. n |-> T[i + 1]]
<1>1. /\ n \in Nat /\ Len(v) = n /\ Len(w) = n + 1 /\ v \in Seq(Blocks) /\ Head(w) = w[1] /\ w[1] \in Blocks
      /\ \A i \in 1 .. n : v[i] = w[i + 1]
    OBVIOUS
<1> HIDE DEF n, v
<1>2. /\ 1 \in 1 .. n + 1 /\ 1 \in 0 .. n + 1 /\ 1 - 1 = 0 /\ 0 + 1 = 1 /\ 0 \in 0 .. n /\ n \in 0 .. n
      /\ \A i \in 0 .. n : i + 1 \in 0 .. n + 1
      /\ \A i \in 1 .. n : i + 1 \in 1 .. n + 1 /\ i \in 0 .. n /\ i - 1 \in 0 .. n
                           /\ (i + 1) - 1 = i /\ (i - 1) + 1 = i
    BY <1>1
<1>3. /\ T \in [0 .. n + 1 -> Tables] /\ T[0] = t
      /\ \A i \in 1 .. n + 1 : Reads(T[i - 1], w[i], T[i])
    BY Zenon, <1>1 DEF Chain
<1>4. T[1] \in Tables /\ Reads(t, w[1], T[1])
    BY Zenon, <1>2, <1>3
<1>5. U \in [0 .. n -> Tables] /\ \A i \in 0 .. n : U[i] = T[i + 1]
    BY Zenon, <1>2, <1>3
<1> HIDE DEF U
<1>6. ASSUME NEW i \in 1 .. n PROVE Reads(U[i - 1], v[i], U[i])
    <2>1. Reads(T[(i + 1) - 1], w[i + 1], T[i + 1])
        BY Zenon, <1>2, <1>3
    <2>2. U[i - 1] = T[i] /\ U[i] = T[i + 1] /\ v[i] = w[i + 1] /\ (i + 1) - 1 = i
        BY Zenon, <1>1, <1>2, <1>5
    <2> QED BY Zenon, <2>1, <2>2
<1>7. U[0] = T[1] /\ U[n] = T[n + 1]
    BY Zenon, <1>2, <1>5
<1>8. Chain(U, T[1], v) /\ U[Len(v)] = T[Len(w)]
    BY Zenon, <1>1, <1>5, <1>6, <1>7 DEF Chain
<1> QED BY Zenon, <1>1, <1>4, <1>8 DEF v

\* The last block in flight is read with the table the others left.
LEMMA BlocksReadSnoc ==
    ASSUME NEW t
    PROVE  \A s \in Seq(Blocks), x \in Blocks : BlocksRead(t, Append(s, x)) = After(BlocksRead(t, s), x)
<1>1. ReadInTurn(t, Blocks)
    BY Zenon, BlocksReadOf
<1> QED BY Zenon, <1>1 DEF ReadInTurn

\* A decoder that caught up has the last table.
LEMMA ChainEnds ==
    ASSUME NEW w \in Seq(Blocks), NEW t, NEW T, Chain(T, t, w)
    PROVE  BlocksRead(t, w) = T[Len(w)]
<1> DEFINE n == Len(w)
           p(k) == SubSeq(w, 1, k)
           S == {k \in 0 .. n : BlocksRead(t, p(k)) = T[k]}
<1>1. n \in Nat /\ p(0) = <<>> /\ p(n) = w /\ 0 \in 0 .. n /\ n \in 0 .. n
    OBVIOUS
<1>2. \A k \in 1 .. n : p(k) = Append(p(k - 1), w[k]) /\ p(k - 1) \in Seq(Blocks) /\ w[k] \in Blocks
    BY Zenon, PrefixSnoc
<1> HIDE DEF p, n
<1>3. T[0] = t /\ \A i \in 1 .. n : Reads(T[i - 1], w[i], T[i])
    BY Zenon DEF Chain, n
<1>4. BlocksRead(t, <<>>) = t
    BY Zenon, BlocksReadOf
<1>5. \A s \in Seq(Blocks), x \in Blocks : BlocksRead(t, Append(s, x)) = After(BlocksRead(t, s), x)
    BY Zenon, BlocksReadSnoc
<1>6. 0 \in S
    BY Zenon, <1>1, <1>3, <1>4
<1>7. ASSUME NEW k \in 1 .. n, k - 1 \in S PROVE k \in S
    <2>1. BlocksRead(t, p(k - 1)) = T[k - 1]
        BY Zenon, <1>7
    <2>2. BlocksRead(t, p(k)) = After(T[k - 1], w[k])
        BY Zenon, <1>2, <1>5, <2>1
    <2>3. Reads(T[k - 1], w[k], T[k])
        BY Zenon, <1>3
    <2>4. After(T[k - 1], w[k]) = T[k]
        <3>1. CASE w[k].malformed
            BY Zenon, <2>3, <3>1 DEF Reads, After
        <3>2. CASE ~w[k].malformed
            <4>1. \A a, b : State(a, b, "none").table = a
                BY DEF State
            <4> QED BY Zenon, <2>3, <3>2, <4>1 DEF Reads, After
        <3> QED BY Zenon, <3>1, <3>2
    <2>5. k \in 0 .. n
        BY <1>1
    <2> QED BY Zenon, <2>2, <2>4, <2>5
<1> HIDE DEF S
<1>8. \A k \in 0 .. n : k \in S
    BY Zenon, <1>1, <1>6, <1>7, UpTo
<1>9. BlocksRead(t, p(n)) = T[n]
    BY Zenon, <1>1, <1>8 DEF S
<1> QED BY Zenon, <1>1, <1>9 DEF n

\* The decoder's table and the encoder's, once everything in flight is read.
Joined(w, e, t) == Begins(e.table, t.table) /\ IF w = "peer" THEN e = t ELSE t.max = Allowed

\* The inductive invariant: the tables are tables, and as long as nothing was
\* refused there are tables T, from the decoder's own to one that is joined to the
\* encoder's, each of which reads the next block in flight as it was meant.
LinkInv ==
    /\ who \in {"loona", "peer"}
    /\ enc \in Tables /\ enc.max <= Allowed
    /\ dec \in Tables
    /\ wire \in Seq(Blocks)
    /\ who = "loona" => Distinct(enc.table)
    /\ DecodesWhatWasEncoded
    /\ decoded.error = "none" => \E T : Chain(T, dec, wire) /\ Joined(who, enc, T[Len(wire)])

\* Init.
LEMMA LinkStarts ==
    ASSUME LinkInit PROVE LinkInv
<1>1. with_size(Allowed) \in Tables /\ with_size(Allowed).max = Allowed /\ with_size(Allowed).table = <<>>
    <2>1. Sum(<<>>) = 0
        BY Zenon, SumOf
    <2>2. Allowed \in Nat
        BY Zenon, WidthAssumption
    <2> QED BY <2>1, <2>2 DEF with_size, Tables, Records
<1> DEFINE t == with_size(Allowed)
<1>2. enc = t /\ dec = t /\ wire = <<>> /\ who \in {"loona", "peer"} /\ decoded = NothingYet
    BY Zenon DEF LinkInit
<1> HIDE DEF t
<1>3. t \in Tables /\ t.max = Allowed /\ t.table = <<>>
    BY Zenon, <1>1 DEF t
<1>4. decoded.error = "none" /\ decoded.same = TRUE /\ decoded.malformed = FALSE
    BY <1>2 DEF NothingYet
<1>5. PICK T : Chain(T, t, <<>>) /\ T[Len(<<>>)] = t
    BY Zenon, <1>3, ChainEmpty
<1>6. Begins(t.table, t.table) /\ Distinct(t.table)
    <2>1. 1 .. Len(<<>>) = {} /\ <<>> = SubSeq(<<>>, 1, Len(<<>>)) /\ Len(<<>>) <= Len(<<>>)
        OBVIOUS
    <2> QED BY Zenon, <1>3, <2>1 DEF Begins, Distinct
<1>7. Allowed <= Allowed /\ <<>> \in Seq(Blocks)
    BY WidthAssumption
<1>8. Joined(who, t, t)
    BY Zenon, <1>3, <1>6 DEF Joined
<1>9. DecodesWhatWasEncoded
    BY <1>4 DEF DecodesWhatWasEncoded
<1> QED BY Zenon, <1>2, <1>3, <1>5, <1>6, <1>7, <1>8, <1>9 DEF LinkInv

\* A block is sent: it is enough that a decoder that caught up reads it.
LEMMA SentKeeps ==
    ASSUME LinkInv, NEW fields \in Seq(Fields), NEW block \in Seq(Reps), NEW malformed \in BOOLEAN,
           Sent(fields, block, malformed),
           enc' \in Tables, enc'.max <= Allowed, who = "loona" => Distinct(enc'.table),
           \A t \in Tables : Joined(who, enc, t) =>
              \E u \in Tables : Reads(t, Block(fields, block, malformed), u) /\ Joined(who, enc', u)
    PROVE  LinkInv'
<1> DEFINE b == Block(fields, block, malformed)
           n == Len(wire)
<1>1. /\ wire' = Append(wire, b) /\ who' = who /\ dec' = dec /\ decoded' = decoded /\ decoded.error = "none"
    BY Zenon DEF Sent, Block
<1>2. b \in Blocks
    BY DEF Block, Blocks
<1> HIDE DEF b
<1>3. PICK T : Chain(T, dec, wire) /\ Joined(who, enc, T[n])
    BY Zenon, <1>1 DEF LinkInv
<1>4. wire \in Seq(Blocks)
    BY Zenon DEF LinkInv
<1>5. T[n] \in Tables
    <2>1. T \in [0 .. n -> Tables]
        BY Zenon, <1>3 DEF Chain
    <2>2. n \in 0 .. n
        BY <1>4
    <2> QED BY Zenon, <2>1, <2>2
<1> HIDE DEF n
<1>6. PICK u \in Tables : Reads(T[n], b, u) /\ Joined(who, enc', u)
    BY Zenon, <1>3, <1>5 DEF b
<1>7. PICK U : Chain(U, dec, Append(wire, b)) /\ U[Len(Append(wire, b))] = u
    <2>1. Reads(T[Len(wire)], b, u)
        BY Zenon, <1>6 DEF n
    <2> QED BY <1>2, <1>3, <1>4, <2>1, ChainAppend
<1>8. Append(wire, b) \in Seq(Blocks)
    BY <1>2, <1>4
<1>9. Chain(U, dec', wire') /\ Joined(who', enc', U[Len(wire')])
    BY Zenon, <1>1, <1>6, <1>7
<1>10. DecodesWhatWasEncoded'
    BY Zenon, <1>1 DEF LinkInv, DecodesWhatWasEncoded
<1>11. /\ who' \in {"loona", "peer"} /\ dec' \in Tables /\ wire' \in Seq(Blocks)
       /\ who' = "loona" => Distinct(enc'.table)
    BY Zenon, <1>1, <1>8 DEF LinkInv
<1> QED BY Zenon, <1>9, <1>10, <1>11 DEF LinkInv

\* A sequence is a beginning of itself.
LEMMA BeginsItself ==
    ASSUME NEW S, NEW s \in Seq(S)
    PROVE  Begins(s, s)
<1>1. Len(s) <= Len(s) /\ s = SubSeq(s, 1, Len(s))
    OBVIOUS
<1> QED BY Zenon, <1>1 DEF Begins

\* A block whose representations are read without an error is read as it was meant.
LEMMA EndsWell ==
    ASSUME NEW t, NEW block, NEW u, NEW fs, RepsRead(t, block) = State(u, fs, "none"),
           block # <<>> => block[Len(block)].kind # "SizeUpdate"
    PROVE  Reads(t, Block(fs, block, FALSE), u)
<1>1. decode_with_cb(t, Allowed, block) = State(u, fs, Ending(block, "none"))
    BY DecodeBlockIs
<1>2. Ending(block, "none") = "none"
    BY Zenon DEF Ending
<1>3. /\ Block(fs, block, FALSE).malformed = FALSE
      /\ Block(fs, block, FALSE).block = block /\ Block(fs, block, FALSE).meant = fs
    BY Zenon DEF Block
<1> QED BY Zenon, <1>1, <1>2, <1>3 DEF Reads

\* Encode.
LEMMA EncodeKeeps ==
    ASSUME LinkInv, NEW fields \in FieldLists, Encode(fields)
    PROVE  LinkInv'
<1> DEFINE e == encode_into(enc, fields)
<1>1. /\ who = "loona" /\ enc' = e.table /\ Sent(fields, e.block, FALSE)
    BY Zenon DEF Encode
<1>2. fields \in Seq(Fields)
    BY DEF FieldLists
<1>3. /\ enc \in Tables /\ enc.max <= Allowed /\ Distinct(enc.table)
    BY Zenon, <1>1 DEF LinkInv
<1>4. enc.table \in Seq(AllFields) /\ enc.max \in Nat
    BY Zenon, <1>3, TableType
<1>5. Begins(enc.table, enc.table) /\ enc.max <= enc.max
    <2>1. Begins(enc.table, enc.table)
        BY Zenon, <1>4, BeginsItself
    <2>2. enc.max <= enc.max
        BY <1>4
    <2> QED BY Zenon, <2>1, <2>2
<1>6. PICK u \in Tables, v \in Tables, block \in Seq(Reps) : Follows(enc, enc, fields, u, v, block)
    BY Zenon, <1>2, <1>3, <1>5, EncodeList
<1>7. e = Encoded(u, block)
    BY Zenon, <1>6 DEF Follows
<1> HIDE DEF e
<1>8. e.table = u /\ e.block = block
    BY <1>7 DEF Encoded
<1>9. enc' \in Tables /\ enc'.max <= Allowed /\ Distinct(enc'.table)
    BY Zenon, <1>1, <1>3, <1>6, <1>8 DEF Follows
<1>10. ASSUME NEW t \in Tables, Joined(who, enc, t)
       PROVE  \E z \in Tables : Reads(t, Block(fields, block, FALSE), z) /\ Joined(who, enc', z)
    <2>1. "loona" # "peer"
        OBVIOUS
    <2>2. Begins(enc.table, t.table) /\ t.max = Allowed
        BY Zenon, <1>1, <1>10, <2>1 DEF Joined
    <2>3. enc.max <= t.max
        BY Zenon, <1>3, <2>2
    <2>4. PICK a \in Tables, z \in Tables, b \in Seq(Reps) : Follows(enc, t, fields, a, z, b)
        BY Zenon, <1>2, <1>3, <2>2, <2>3, EncodeList
    <2>5. a = u /\ b = block
        <3>1. e = Encoded(a, b)
            BY Zenon, <2>4 DEF Follows, e
        <3>2. e.table = a /\ e.block = b
            BY <3>1 DEF Encoded
        <3> QED BY Zenon, <1>8, <3>2
    <2>6. block # <<>> => block[Len(block)].kind # "SizeUpdate"
        <3>1. block # <<>> => Len(block) \in 1 .. Len(block)
            OBVIOUS
        <3> QED BY Zenon, <1>6, <3>1 DEF Follows
    <2>7. RepsRead(t, block) = State(z, fields, "none")
        BY Zenon, <2>4, <2>5 DEF Follows
    <2>8. Reads(t, Block(fields, block, FALSE), z)
        BY Zenon, <2>6, <2>7, EndsWell
    <2>9. Joined(who, enc', z)
        BY Zenon, <1>1, <1>8, <2>1, <2>2, <2>4, <2>5 DEF Follows, Joined
    <2> QED BY Zenon, <2>8, <2>9
<1>11. Sent(fields, block, FALSE)
    BY Zenon, <1>1, <1>8
<1> QED BY Zenon, <1>2, <1>9, <1>10, <1>11, SentKeeps

\* Resize: the encoder drops entries the decoder may keep.
LEMMA ResizeKeeps ==
    ASSUME LinkInv, NEW max \in TableSizes, Resize(max)
    PROVE  LinkInv'
<1>1. /\ who = "loona" /\ enc' = set_max_table_size(enc, max)
      /\ who' = who /\ wire' = wire /\ dec' = dec /\ decoded' = decoded
    BY Zenon DEF Resize
<1>2. max \in Nat /\ max <= Allowed
    BY WidthAssumption
<1>3. enc \in Tables /\ Distinct(enc.table) /\ wire \in Seq(Blocks)
    BY Zenon, <1>1 DEF LinkInv
<1>4. enc.table \in Seq(AllFields)
    BY Zenon, <1>3, TableType
<1>5. enc' = Fitting(enc.table, max)
    BY Zenon, <1>1, <1>2, <1>3, ResizeIsFitting
<1>6. enc' \in Tables /\ enc'.max = max /\ Begins(enc'.table, enc.table)
    BY Zenon, <1>2, <1>4, <1>5, FittingType
<1>7. enc'.table \in Seq(AllFields)
    BY Zenon, <1>6, TableType
<1>8. Distinct(enc'.table)
    BY Zenon, <1>3, <1>4, <1>6, <1>7, BeginningDistinct
<1>9. decoded'.error = "none" => \E T : Chain(T, dec', wire') /\ Joined(who', enc', T[Len(wire')])
    <2> SUFFICES ASSUME decoded.error = "none"
                 PROVE  \E T : Chain(T, dec, wire) /\ Joined(who, enc', T[Len(wire)])
        BY Zenon, <1>1
    <2>1. PICK T : Chain(T, dec, wire) /\ Joined(who, enc, T[Len(wire)])
        BY Zenon DEF LinkInv
    <2>2. T[Len(wire)] \in Tables
        <3>1. T \in [0 .. Len(wire) -> Tables]
            BY Zenon, <2>1 DEF Chain
        <3>2. Len(wire) \in 0 .. Len(wire)
            BY <1>3
        <3> QED BY Zenon, <3>1, <3>2
    <2>3. T[Len(wire)].table \in Seq(AllFields)
        BY Zenon, <2>2, TableType
    <2>4. "loona" # "peer"
        OBVIOUS
    <2>5. Begins(enc.table, T[Len(wire)].table) /\ T[Len(wire)].max = Allowed
        BY Zenon, <1>1, <2>1, <2>4 DEF Joined
    <2>6. Begins(enc'.table, T[Len(wire)].table)
        BY Zenon, <1>4, <1>6, <1>7, <2>3, <2>5, BeginsTransitive
    <2>7. Joined(who, enc', T[Len(wire)])
        BY Zenon, <1>1, <2>4, <2>5, <2>6 DEF Joined
    <2> QED BY Zenon, <2>1, <2>7
<1>10. DecodesWhatWasEncoded'
    BY Zenon, <1>1 DEF LinkInv, DecodesWhatWasEncoded
<1> QED BY Zenon, <1>1, <1>2, <1>6, <1>8, <1>9, <1>10 DEF LinkInv

\* What the steps of another encoder have in common.
LEMMA PeerTable ==
    ASSUME LinkInv, who = "peer"
    PROVE  /\ enc \in Tables /\ enc.table \in Seq(AllFields) /\ enc.max \in Nat /\ enc.max <= Allowed
           /\ who # "loona"
           /\ \A t : Joined(who, enc, t) => t = enc
           /\ \A t \in Tables : Joined(who, t, t)
<1>1. who # "loona"
    OBVIOUS
<1>2. enc \in Tables /\ enc.max <= Allowed
    BY Zenon DEF LinkInv
<1>3. enc.table \in Seq(AllFields) /\ enc.max \in Nat
    BY Zenon, <1>2, TableType
<1>4. \A t \in Tables : Begins(t.table, t.table)
    BY Zenon, TableType, BeginsItself
<1> QED BY Zenon, <1>1, <1>2, <1>3, <1>4 DEF Joined

\* PeerEncode.
LEMMA PeerEncodeKeeps ==
    ASSUME LinkInv, NEW f \in Fields, NEW rep \in Representations(enc, f), PeerEncode(f, rep)
    PROVE  LinkInv'
<1>1. /\ who = "peer" /\ Sent(<<f>>, <<rep>>, FALSE)
      /\ enc' = IF rep.kind = Indexing THEN Fitting(<<f>> \o enc.table, enc.max) ELSE enc
    BY Zenon DEF PeerEncode, Indexing
<1>2. /\ enc \in Tables /\ enc.table \in Seq(AllFields) /\ enc.max \in Nat /\ enc.max <= Allowed
      /\ who # "loona" /\ (\A t : Joined(who, enc, t) => t = enc) /\ \A t \in Tables : Joined(who, t, t)
    BY Zenon, <1>1, PeerTable
<1>3. f \in AllFields /\ <<f>> \in Seq(Fields) /\ Append(<<>>, f) = <<f>> /\ <<rep>> # <<>>
    BY WidthAssumption
<1>4. Begins(enc.table, enc.table)
    BY Zenon, <1>2, BeginsItself
<1> DEFINE u == Taken(enc, rep.kind, f)
<1>5. enc' = u
    BY Zenon, <1>1, <1>2, <1>3, TakenIs
<1>6. u \in Tables /\ u.max = enc.max
    BY Zenon, <1>2, <1>3, TakenIs
<1>7. /\ rep \in Reps /\ rep.kind \in Kinds \ {"SizeUpdate"}
      /\ DecodeRep(State(enc, <<>>, "none"), rep) = State(u, Append(<<>>, f), "none")
    <2>1. ReadsBack(enc, f, rep, <<>>)
        BY Zenon, <1>2, <1>4, DecodeRepresentation
    <2> QED BY Zenon, <2>1 DEF ReadsBack
<1> HIDE DEF u
<1>8. /\ <<rep>> \in Seq(Reps) /\ <<rep>>[Len(<<rep>>)] = rep
      /\ RepsRead(enc, <<rep>>) = State(u, <<f>>, "none")
    <2>1. /\ <<rep>> \in Seq(Reps) /\ <<rep>>[Len(<<rep>>)] = rep
        BY Zenon, <1>7, ReadOne
    <2>2. RepsRead(enc, <<rep>>) = DecodeRep(State(enc, <<>>, "none"), rep)
        BY Zenon, <1>7, ReadOne
    <2> QED BY Zenon, <1>3, <1>7, <2>1, <2>2
<1>9. <<rep>>[Len(<<rep>>)].kind # "SizeUpdate"
    BY Zenon, <1>7, <1>8
<1>10. Reads(enc, Block(<<f>>, <<rep>>, FALSE), u)
    BY Zenon, <1>8, <1>9, EndsWell
<1>11. ASSUME NEW t \in Tables, Joined(who, enc, t)
       PROVE  \E z \in Tables : Reads(t, Block(<<f>>, <<rep>>, FALSE), z) /\ Joined(who, enc', z)
    <2>1. t = enc
        BY Zenon, <1>2, <1>11
    <2> QED BY Zenon, <1>2, <1>5, <1>6, <1>10, <2>1
<1>12. enc' \in Tables /\ enc'.max <= Allowed
    BY Zenon, <1>2, <1>5, <1>6
<1> QED BY Zenon, <1>1, <1>2, <1>3, <1>8, <1>11, <1>12, SentKeeps

\* PeerResize.
LEMMA PeerResizeKeeps ==
    ASSUME LinkInv, NEW max \in TableSizes, NEW f \in Fields, PeerResize(max, f)
    PROVE  LinkInv'
<1> DEFINE u == Fitting(enc.table, max)
           up == Rep("SizeUpdate", max, Raw(<<>>), Raw(<<>>))
           int == decode_integer(up.int, Mask[up.kind])
<1>1. PICK rep \in Representations(u, f) :
          /\ who = "peer" /\ rep.kind \in {"Indexed", "LiteralNeverIndexed"}
          /\ enc' = u /\ Sent(<<f>>, <<up, rep>>, FALSE)
    BY Zenon DEF PeerResize
<1>2. /\ enc \in Tables /\ enc.table \in Seq(AllFields) /\ enc.max \in Nat /\ enc.max <= Allowed
      /\ who # "loona" /\ (\A t : Joined(who, enc, t) => t = enc) /\ \A t \in Tables : Joined(who, t, t)
    BY Zenon, <1>1, PeerTable
<1>3. f \in AllFields /\ <<f>> \in Seq(Fields) /\ Append(<<>>, f) = <<f>> /\ "SizeUpdate" \in Kinds
    BY WidthAssumption DEF Kinds
<1>4. max \in Nat /\ max <= Allowed /\ ~(max > Allowed) /\ max <= Len(STATIC_TABLE) + Allowed + 1
    BY WidthAssumption
<1>5. u \in Tables /\ u.max = max
    BY Zenon, <1>2, <1>4, FittingType
<1>6. set_max_table_size(enc, max) = u
    BY Zenon, <1>2, <1>4, ResizeIsFitting
<1>7. up \in Reps
    BY Zenon, <1>3, <1>4, RepType, StringFits
<1>8. up.kind = "SizeUpdate"
    BY Zenon DEF Rep
<1>9. int.value = max /\ int.error = "none"
    BY <1>3, <1>4, IndexFits
<1>10. DecodesTo(DecodeRep(State(enc, <<>>, "none"), up), enc, <<>>, up, int)
    BY Zenon, DecodeRepIs
<1> HIDE DEF u, up, int
<1>11. DecodeRep(State(enc, <<>>, "none"), up) = State(u, <<>>, "none")
    BY Zenon, <1>4, <1>6, <1>8, <1>9, <1>10 DEF DecodesTo
<1>12. Begins(u.table, u.table) /\ u.max <= Allowed
    BY Zenon, <1>4, <1>5, TableType, BeginsItself
<1>13. rep.kind # Indexing
    BY <1>1 DEF Indexing
<1>14. Taken(u, rep.kind, f) = u
    BY Zenon, <1>3, <1>5, <1>13, TakenIs
<1>15. /\ rep \in Reps /\ rep.kind \in Kinds \ {"SizeUpdate"}
       /\ DecodeRep(State(u, <<>>, "none"), rep) = State(Taken(u, rep.kind, f), Append(<<>>, f), "none")
    <2>1. ReadsBack(u, f, rep, <<>>)
        BY Zenon, <1>5, <1>12, DecodeRepresentation
    <2> QED BY Zenon, <2>1 DEF ReadsBack
<1> DEFINE block == <<up, rep>>
<1>16. block \in Seq(Reps) /\ block # <<>> /\ block[Len(block)] = rep
    BY Zenon, <1>7, <1>15, ReadTwo
<1>17. RepsRead(enc, block) = DecodeRep(DecodeRep(State(enc, <<>>, "none"), up), rep)
    BY <1>7, <1>15, ReadTwo
<1> HIDE DEF block
<1>18. RepsRead(enc, block) = State(u, <<f>>, "none")
    BY Zenon, <1>3, <1>11, <1>14, <1>15, <1>17
<1>19. block[Len(block)].kind # "SizeUpdate"
    BY Zenon, <1>15, <1>16
<1>20. Reads(enc, Block(<<f>>, block, FALSE), u)
    BY Zenon, <1>18, <1>19, EndsWell
<1>21. ASSUME NEW t \in Tables, Joined(who, enc, t)
       PROVE  \E z \in Tables : Reads(t, Block(<<f>>, block, FALSE), z) /\ Joined(who, enc', z)
    <2>1. t = enc
        BY Zenon, <1>2, <1>21
    <2> QED BY Zenon, <1>1, <1>2, <1>5, <1>20, <2>1
<1>22. enc' \in Tables /\ enc'.max <= Allowed /\ Sent(<<f>>, block, FALSE)
    BY Zenon, <1>1, <1>5, <1>12 DEF block
<1> QED BY Zenon, <1>2, <1>3, <1>16, <1>21, <1>22, SentKeeps

\* PeerErrs.
LEMMA PeerErrsKeeps ==
    ASSUME LinkInv, NEW block \in Malformed(enc), PeerErrs(block)
    PROVE  LinkInv'
<1>1. who = "peer" /\ enc' = enc /\ Sent(<<>>, block, TRUE)
    BY Zenon DEF PeerErrs
<1>2. /\ enc \in Tables /\ enc.table \in Seq(AllFields) /\ enc.max \in Nat /\ enc.max <= Allowed
      /\ who # "loona" /\ (\A t : Joined(who, enc, t) => t = enc) /\ \A t \in Tables : Joined(who, t, t)
    BY Zenon, <1>1, PeerTable
<1>3. block \in Seq(Reps) /\ Refused(enc, block)
    BY Zenon, <1>2, MalformedRefused
<1>4. <<>> \in Seq(Fields)
    OBVIOUS
<1>5. Block(<<>>, block, TRUE).malformed = TRUE /\ Block(<<>>, block, TRUE).block = block
    BY Zenon DEF Block
<1>6. Reads(enc, Block(<<>>, block, TRUE), enc)
    BY Zenon, <1>3, <1>5 DEF Reads
<1>7. ASSUME NEW t \in Tables, Joined(who, enc, t)
      PROVE  \E z \in Tables : Reads(t, Block(<<>>, block, TRUE), z) /\ Joined(who, enc', z)
    <2>1. t = enc
        BY Zenon, <1>2, <1>7
    <2> QED BY Zenon, <1>1, <1>2, <1>6, <2>1
<1>8. enc' \in Tables /\ enc'.max <= Allowed
    BY Zenon, <1>1, <1>2
<1> QED BY Zenon, <1>1, <1>2, <1>3, <1>4, <1>7, <1>8, SentKeeps

\* Decode.
LEMMA DecodeKeeps ==
    ASSUME LinkInv, Decode
    PROVE  LinkInv'
<1> DEFINE b == Head(wire)
           d == decode_with_cb(dec, Allowed, b.block)
<1>1. /\ wire # <<>> /\ decoded.error = "none" /\ dec' = d.table /\ wire' = Tail(wire)
      /\ who' = who /\ enc' = enc
      /\ decoded' = [error |-> d.error, same |-> d.fields = b.meant, malformed |-> b.malformed]
    BY Zenon DEF Decode
<1>2. wire \in Seq(Blocks) /\ dec \in Tables
    BY Zenon DEF LinkInv
<1>3. PICK T : Chain(T, dec, wire) /\ Joined(who, enc, T[Len(wire)])
    BY Zenon, <1>1 DEF LinkInv
<1>4. /\ b \in Blocks /\ Tail(wire) \in Seq(Blocks) /\ T[1] \in Tables /\ Reads(dec, b, T[1])
      /\ \E U : Chain(U, T[1], Tail(wire)) /\ U[Len(Tail(wire))] = T[Len(wire)]
    BY Zenon, <1>1, <1>2, <1>3, ChainTail
<1> HIDE DEF b
<1>5. b.block \in Seq(Reps) /\ b.malformed \in BOOLEAN
    BY <1>4 DEF Blocks
<1>6. d.table \in Tables
    BY Zenon, <1>2, <1>5, DecodeBlockType
<1>7. CASE b.malformed
    <2>1. d.error # "none"
        BY Zenon, <1>4, <1>7 DEF Reads, Refused
    <2> HIDE DEF d
    <2>2. decoded'.error = d.error /\ decoded'.malformed = b.malformed
        BY <1>1
    <2>3. DecodesWhatWasEncoded'
        BY Zenon, <1>7, <2>1, <2>2 DEF DecodesWhatWasEncoded
    <2>4. decoded'.error # "none"
        BY Zenon, <2>1, <2>2
    <2> QED BY Zenon, <1>1, <1>4, <1>6, <2>3, <2>4 DEF LinkInv
<1>8. CASE ~b.malformed
    <2>1. d = State(T[1], b.meant, "none")
        BY Zenon, <1>4, <1>8 DEF Reads
    <2> HIDE DEF d
    <2>2. d.table = T[1] /\ d.error = "none" /\ d.fields = b.meant
        BY <2>1 DEF State
    <2> DEFINE same == d.fields = b.meant
               e == d.error
               m == b.malformed
    <2>3. same /\ e = "none" /\ ~m
        BY Zenon, <1>8, <2>2
    <2> HIDE DEF same, e, m
    <2>4. decoded' = [error |-> e, same |-> same, malformed |-> m]
        BY Zenon, <1>1 DEF e, same, m
    <2>5. decoded'.error = "none" /\ decoded'.same /\ ~decoded'.malformed
        BY Zenon, <2>3, <2>4
    <2>6. DecodesWhatWasEncoded'
        BY Zenon, <2>5 DEF DecodesWhatWasEncoded
    <2>7. PICK U : Chain(U, T[1], Tail(wire)) /\ U[Len(Tail(wire))] = T[Len(wire)]
        BY Zenon, <1>4
    <2>8. Chain(U, dec', wire') /\ Joined(who', enc', U[Len(wire')])
        BY Zenon, <1>1, <1>3, <2>2, <2>7
    <2> QED BY Zenon, <1>1, <1>4, <2>2, <2>6, <2>8 DEF LinkInv
<1> QED BY Zenon, <1>7, <1>8

\* The inductive invariant holds in every behaviour of the link.
THEOREM LinkInvariance == LinkSpec => []LinkInv
<1>1. LinkInit => LinkInv
    BY Zenon, LinkStarts
<1>2. LinkInv /\ [LinkNext]_linkVars => LinkInv'
    <2> SUFFICES ASSUME LinkInv, [LinkNext]_linkVars PROVE LinkInv'
        BY Zenon
    <2>1. CASE \E fields \in FieldLists : Encode(fields)
        BY Zenon, <2>1, EncodeKeeps
    <2>2. CASE \E max \in TableSizes : Resize(max)
        BY Zenon, <2>2, ResizeKeeps
    <2>3. CASE \E f \in Fields : \E rep \in Representations(enc, f) : PeerEncode(f, rep)
        BY Zenon, <2>3, PeerEncodeKeeps
    <2>4. CASE \E max \in TableSizes, f \in Fields : PeerResize(max, f)
        BY Zenon, <2>4, PeerResizeKeeps
    <2>5. CASE \E block \in Malformed(enc) : PeerErrs(block)
        BY Zenon, <2>5, PeerErrsKeeps
    <2>6. CASE Decode
        BY Zenon, <2>6, DecodeKeeps
    <2>7. CASE UNCHANGED linkVars
        <3>1. who' = who /\ enc' = enc /\ wire' = wire /\ dec' = dec /\ decoded' = decoded
            BY Zenon, <2>7 DEF linkVars
        <3> QED BY Zenon, <3>1 DEF LinkInv, DecodesWhatWasEncoded
    <2> QED BY Zenon, <2>1, <2>2, <2>3, <2>4, <2>5, <2>6, <2>7 DEF LinkNext
<1> QED BY <1>1, <1>2, PTL DEF LinkSpec

\* The decoder gives the fields the encoder was given, in the order of the blocks,
\* and ends every malformed block with an error, for every table of codes that is
\* free of prefixes, every static table and every limit of the dynamic ones.
THEOREM RoundTrip == LinkSpec => []DecodesWhatWasEncoded
<1>1. LinkInv => DecodesWhatWasEncoded
    BY Zenon DEF LinkInv
<1> QED BY <1>1, LinkInvariance, PTL

\* When the decoder has read what is in flight, the encoder's table is the beginning
\* of its table, and the peer's is exactly loona's.
THEOREM InStep == LinkSpec => []TablesInStep
<1>1. ASSUME LinkInv, decoded.error = "none"
      PROVE  Begins(enc.table, CaughtUp.table) /\ (who = "peer" => enc = CaughtUp)
    <2>1. PICK T : Chain(T, dec, wire) /\ Joined(who, enc, T[Len(wire)])
        BY Zenon, <1>1 DEF LinkInv
    <2>2. wire \in Seq(Blocks)
        BY Zenon, <1>1 DEF LinkInv
    <2>3. BlocksRead(dec, wire) = T[Len(wire)]
        BY Zenon, <2>1, <2>2, ChainEnds
    <2>4. CaughtUp = BlocksRead(dec, wire)
        BY Zenon DEF CaughtUp, BlocksRead, Reduce, After
    <2> QED BY Zenon, <2>1, <2>3, <2>4 DEF Joined
<1>2. LinkInv => TablesInStep
    BY Zenon, <1>1 DEF TablesInStep
<1> QED BY <1>2, LinkInvariance, PTL

\* The size each table keeps is the sum of the sizes of its entries, and it is
\* within the limit, however entries were added and evicted.
THEOREM SizesAreSums == LinkSpec => []SizeIsTheSum
<1>1. LinkInv => SizeIsTheSum
    BY Zenon, TableType DEF LinkInv, SizeIsTheSum
<1> QED BY <1>1, LinkInvariance, PTL

\* loona's encoder never has a name twice, in its dynamic table or in both tables,
\* so what find_header finds first is all there is to find.
THEOREM UniqueNames == LinkSpec => []NamesAreUnique
<1>1. ASSUME LinkInv, who = "loona", NEW i \in DOMAIN enc.table, NEW j \in DOMAIN Entries(enc),
             enc.table[i][1] = Entries(enc)[j][1]
      PROVE  j = i + Len(STATIC_TABLE)
    <2> DEFINE s == Len(STATIC_TABLE)
               n == Len(enc.table)
    <2>1. enc \in Tables /\ Distinct(enc.table)
        BY Zenon, <1>1 DEF LinkInv
    <2>2. enc.table \in Seq(AllFields) /\ STATIC_TABLE \in Seq(AllFields)
        BY Zenon, <2>1, TableType, WidthAssumption
    <2>3. s \in Nat /\ n \in Nat /\ i \in 1 .. n
        BY <2>2
    <2>4. /\ DOMAIN Entries(enc) = 1 .. Len(Entries(enc)) /\ Len(Entries(enc)) = s + n
          /\ \A k \in 1 .. s : Entries(enc)[k] = STATIC_TABLE[k]
          /\ \A k \in 1 .. n : Entries(enc)[k + s] = enc.table[k]
        BY Zenon, <2>1, EntriesType
    <2> HIDE DEF s, n
    <2>5. j \in 1 .. s + n
        BY Zenon, <2>4
    <2>6. CASE j \in 1 .. s
        <3>1. enc.table[i][1] = STATIC_TABLE[j][1]
            BY Zenon, <1>1, <2>4, <2>6
        <3> QED BY Zenon, <2>1, <2>3, <2>6, <3>1 DEF Distinct, s, n
    <2>7. CASE j - s \in 1 .. n
        <3>1. j = (j - s) + s
            BY <2>3, <2>5
        <3>2. PICK k \in 1 .. n : k = j - s
            BY Zenon, <2>7
        <3>3. j = k + s
            BY Zenon, <3>1, <3>2
        <3>4. enc.table[i][1] = enc.table[k][1]
            BY Zenon, <1>1, <2>4, <3>3
        <3>5. i = k
            BY Zenon, <2>1, <2>3, <3>4 DEF Distinct, n
        <3> QED BY Zenon, <3>3, <3>5 DEF s
    <2>8. j \in 1 .. s \/ j - s \in 1 .. n
        BY <2>3, <2>5
    <2> QED BY Zenon, <2>6, <2>7, <2>8
<1>2. LinkInv => NamesAreUnique
    BY Zenon, <1>1 DEF NamesAreUnique
<1> QED BY <1>2, LinkInvariance, PTL

=============================================================================
