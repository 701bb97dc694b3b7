---------------------------- MODULE LuringProofs ----------------------------
(***************************************************************************)
(* For any number of operations and indexes: completions and cancellations *)
(* reach the operations they were meant for, and no wakeup is lost.        *)
(***************************************************************************)
EXTENDS Luring, TLAPS

\* Every owned operation has an entry of the slab to itself.
OwnersHaveSlots ==
    \A o \in Ops : Owned(o) => /\ idx[o] \in Indexes
                               /\ owner[idx[o]] = o
                               /\ life[idx[o]] # "Vacant"

\* What is in flight belongs to an owned operation that has not completed.
EntriesAreOwned ==
    \A e \in InFlight : /\ Owned(e.op)
                        /\ idx[e.op] = e.index
                        /\ life[e.index] \in {"Submitted", "Waiting"}

\* Nothing is in flight twice.
EntriesAreUnique ==
    /\ \A e, f \in InFlight : e.op = f.op => e = f
    /\ sq \cap kernel = {}
    /\ cq \cap (sq \cup kernel) = {}

\* A cancellation on its way is the one that its target's task awaits.
CancelsAreAwaited ==
    \A e \in sq \cup kernel :
        e.target # NoIndex => /\ e.victim \in Ops
                              /\ future[e.victim] = "cancelling"
                              /\ cleanup[e.victim] = e.op
                              /\ idx[e.victim] = e.target

\* A dropped operation's task awaits a cancellation of its own.
CleanupsAreOwned ==
    \A o \in Ops : future[o] = "cancelling" =>
        /\ cleanup[o] \in Ops
        /\ future[cleanup[o]] = "cancel"
        /\ \A p \in Ops : (future[p] = "cancelling" /\ cleanup[p] = cleanup[o]) => p = o

\* A task that has never polled its operation, or whose operation has
\* completed, will poll it.
Awaited(o) == future[o] \in {"held", "draining", "cancel"}
TasksAreWoken ==
    \A o \in Ops : (Awaited(o) /\ life[idx[o]] \in {"Submitted", "Completed"}) => awake[o]

Live ==
    /\ OwnersHaveSlots
    /\ EntriesAreOwned
    /\ EntriesAreUnique
    /\ CancelsAreAwaited
    /\ CleanupsAreOwned
    /\ TasksAreWoken

IInv == TypeOK /\ (phase # "over" => Live)
-----------------------------------------------------------------------------
\* A new operation gets a vacant index, which nothing in flight names.
LEMMA PushPreserves ==
    ASSUME NEW o \in Ops, IInv, Push(o)
    PROVE  IInv'
<1> USE LuringAssumption DEF IInv, Live
<1>1. TypeOK'
  <2> PICK i \in Indexes : Enqueue(o, i, NoIndex, NoOp)
      BY DEF Push
  <2>1. [index |-> i, target |-> NoIndex, late |-> FALSE, op |-> o, victim |-> NoOp] \in SqEntries
      BY DEF SqEntries
  <2>2. sq' \subseteq SqEntries /\ kernel' \subseteq SqEntries
      BY <2>1 DEF Enqueue, TypeOK
  <2> QED BY <2>2 DEF Push, Enqueue, TypeOK, Owned
<1>2. phase # "over" /\ phase' = phase
    BY DEF Push
<1>3. ASSUME phase # "over" PROVE Live'
  <2>1. OwnersHaveSlots'
      BY <1>1, <1>3 DEF TypeOK, SqEntries, Push, Enqueue, OwnersHaveSlots, Owned
  <2>2. EntriesAreOwned'
      BY <1>1, <1>3 DEF TypeOK, SqEntries, Push, Enqueue, EntriesAreOwned, InFlight, OwnersHaveSlots, Owned
  <2>3. EntriesAreUnique'
      BY <1>1, <1>3 DEF TypeOK, SqEntries, Push, Enqueue, EntriesAreUnique, EntriesAreOwned, InFlight, Owned
  <2>4. CancelsAreAwaited'
      BY <1>1, <1>3 DEF TypeOK, SqEntries, Push, Enqueue, CancelsAreAwaited, EntriesAreOwned, InFlight, CleanupsAreOwned, OwnersHaveSlots, Owned
  <2>5. CleanupsAreOwned'
      BY <1>1, <1>3 DEF TypeOK, SqEntries, Push, Enqueue, CleanupsAreOwned
  <2>6. TasksAreWoken'
      BY <1>1, <1>3 DEF TypeOK, SqEntries, Push, Enqueue, TasksAreWoken, Awaited, OwnersHaveSlots, Owned, EntriesAreOwned, InFlight
  <2> QED BY <2>1, <2>2, <2>3, <2>4, <2>5, <2>6
<1> QED BY <1>1, <1>2, <1>3

\* A poll registers a waker, or gives back the index of a completed operation.
LEMMA PollOpPreserves ==
    ASSUME NEW o \in Ops, IInv, PollOp(o)
    PROVE  IInv'
<1> USE LuringAssumption DEF IInv, Live
<1>1. TypeOK'
    BY DEF TypeOK, Owned, SqEntries, PollOp, Release
<1>2. phase # "over" /\ phase' = phase
    BY DEF PollOp
<1>3. ASSUME phase # "over" PROVE Live'
  <2>1. OwnersHaveSlots'
      BY <1>1, <1>3 DEF TypeOK, SqEntries, PollOp, Release, OwnersHaveSlots, Owned
  <2>2. EntriesAreOwned'
      BY <1>1, <1>3 DEF TypeOK, SqEntries, PollOp, Release, EntriesAreOwned, InFlight, OwnersHaveSlots, Owned
  <2>3. EntriesAreUnique'
      BY <1>1, <1>3 DEF TypeOK, SqEntries, PollOp, Release, EntriesAreUnique, EntriesAreOwned, InFlight, Owned
  <2>4. CancelsAreAwaited'
      BY <1>1, <1>3 DEF TypeOK, SqEntries, PollOp, Release, CancelsAreAwaited, EntriesAreOwned, InFlight, CleanupsAreOwned, OwnersHaveSlots, Owned
  <2>5. CleanupsAreOwned'
      BY <1>1, <1>3 DEF TypeOK, SqEntries, PollOp, Release, CleanupsAreOwned
  <2>6. TasksAreWoken'
      BY <1>1, <1>3 DEF TypeOK, SqEntries, PollOp, Release, TasksAreWoken, Awaited, OwnersHaveSlots, Owned, EntriesAreOwned, InFlight
  <2> QED BY <2>1, <2>2, <2>3, <2>4, <2>5, <2>6
<1> QED BY <1>1, <1>2, <1>3

\* A dropped operation keeps its index until its cancellation is over.
LEMMA DropOpPreserves ==
    ASSUME NEW o \in Ops, IInv, DropOp(o)
    PROVE  IInv'
<1> USE LuringAssumption DEF IInv, Live
<1>1. TypeOK'
  <2>1. idx[o] \in Indexes
      BY DEF DropOp, OwnersHaveSlots, Owned
  <2>2. CASE life[idx[o]] = "Completed"
      BY <2>1, <2>2 DEF DropOp, Release, TypeOK, Owned
  <2>3. CASE life[idx[o]] # "Completed"
    <3> PICK c \in Ops, i \in Indexes :
               /\ Enqueue(c, i, idx[o], o)
               /\ future' = [future EXCEPT ![o] = "cancelling", ![c] = "cancel"]
               /\ cleanup' = [cleanup EXCEPT ![o] = c]
               /\ awake' = [awake EXCEPT ![o] = FALSE, ![c] = TRUE]
        BY <2>3 DEF DropOp
    <3>1. [index |-> i, target |-> idx[o], late |-> FALSE, op |-> c, victim |-> o] \in SqEntries
        BY <2>1 DEF SqEntries
    <3>2. sq' \subseteq SqEntries /\ kernel' \subseteq SqEntries
        BY <3>1 DEF Enqueue, TypeOK
    <3> QED BY <3>2 DEF DropOp, Enqueue, TypeOK, Owned
  <2> QED BY <2>2, <2>3
<1>2. phase # "over" /\ phase' = phase
    BY DEF DropOp
<1>3. ASSUME phase # "over" PROVE Live'
  <2>1. OwnersHaveSlots'
      BY <1>1, <1>3 DEF TypeOK, SqEntries, DropOp, Enqueue, Release, OwnersHaveSlots, Owned
  <2>2. EntriesAreOwned'
      BY <1>1, <1>3 DEF TypeOK, SqEntries, DropOp, Enqueue, Release, EntriesAreOwned, InFlight, OwnersHaveSlots, Owned
  <2>3. EntriesAreUnique'
      BY <1>1, <1>3 DEF TypeOK, SqEntries, DropOp, Enqueue, Release, EntriesAreUnique, EntriesAreOwned, InFlight, Owned
  <2>4. CancelsAreAwaited'
      BY <1>1, <1>3 DEF TypeOK, SqEntries, DropOp, Enqueue, Release, CancelsAreAwaited, EntriesAreOwned, InFlight, CleanupsAreOwned, OwnersHaveSlots, Owned
  <2>5. CleanupsAreOwned'
      BY <1>1, <1>3 DEF TypeOK, SqEntries, DropOp, Enqueue, Release, CleanupsAreOwned
  <2>6. TasksAreWoken'
      BY <1>1, <1>3 DEF TypeOK, SqEntries, DropOp, Enqueue, Release, TasksAreWoken, Awaited, OwnersHaveSlots, Owned, EntriesAreOwned, InFlight
  <2> QED BY <2>1, <2>2, <2>3, <2>4, <2>5, <2>6
<1> QED BY <1>1, <1>2, <1>3

\* A completed cancellation gives back its own index only.
LEMMA AwaitCancelPreserves ==
    ASSUME NEW o \in Ops, IInv, AwaitCancel(o)
    PROVE  IInv'
<1> USE LuringAssumption DEF IInv, Live
<1>1. TypeOK'
  <2> DEFINE c == cleanup[o]
  <2>1. c \in Ops /\ c # o /\ idx[o] \in Indexes /\ idx[c] \in Indexes
      BY DEF AwaitCancel, CleanupsAreOwned, TypeOK, Owned
  <2>2. CASE life[idx[c]] = "Completed"
    <3>1. /\ future' = [future EXCEPT ![o] = "draining", ![c] = "gone"]
          /\ awake' = [awake EXCEPT ![c] = FALSE, ![o] = TRUE]
          /\ Release(c)
        BY <2>2 DEF AwaitCancel
    <3> QED BY <2>1, <3>1 DEF TypeOK, Owned, AwaitCancel, Release
  <2>3. CASE life[idx[c]] # "Completed"
      BY <2>1, <2>3 DEF TypeOK, Owned, AwaitCancel
  <2> QED BY <2>2, <2>3
<1>2. phase # "over" /\ phase' = phase
    BY DEF AwaitCancel
<1>3. ASSUME phase # "over" PROVE Live'
  <2>1. OwnersHaveSlots'
      BY <1>1, <1>3 DEF TypeOK, SqEntries, AwaitCancel, Release, OwnersHaveSlots, Owned, CleanupsAreOwned
  <2>2. EntriesAreOwned'
      BY <1>1, <1>3 DEF TypeOK, SqEntries, AwaitCancel, Release, EntriesAreOwned, InFlight, OwnersHaveSlots, Owned
  <2>3. EntriesAreUnique'
      BY <1>1, <1>3 DEF TypeOK, SqEntries, AwaitCancel, Release, EntriesAreUnique, EntriesAreOwned, InFlight, Owned
  <2>4. CancelsAreAwaited'
      BY <1>1, <1>3 DEF TypeOK, SqEntries, AwaitCancel, Release, CancelsAreAwaited, EntriesAreOwned, InFlight, CleanupsAreOwned, OwnersHaveSlots, Owned
  <2>5. CleanupsAreOwned'
      BY <1>1, <1>3 DEF TypeOK, SqEntries, AwaitCancel, Release, CleanupsAreOwned
  <2>6. TasksAreWoken'
      BY <1>1, <1>3 DEF TypeOK, SqEntries, AwaitCancel, Release, TasksAreWoken, Awaited, OwnersHaveSlots, Owned, EntriesAreOwned, InFlight
  <2> QED BY <2>1, <2>2, <2>3, <2>4, <2>5, <2>6
<1> QED BY <1>1, <1>2, <1>3

\* The operation that was dropped gives back its index once it completed.
LEMMA AwaitInnerPreserves ==
    ASSUME NEW o \in Ops, IInv, AwaitInner(o)
    PROVE  IInv'
<1> USE LuringAssumption DEF IInv, Live
<1>1. TypeOK'
    BY DEF TypeOK, Owned, SqEntries, AwaitInner, Release
<1>2. phase # "over" /\ phase' = phase
    BY DEF AwaitInner
<1>3. ASSUME phase # "over" PROVE Live'
  <2>1. OwnersHaveSlots'
      BY <1>1, <1>3 DEF TypeOK, SqEntries, AwaitInner, Release, OwnersHaveSlots, Owned
  <2>2. EntriesAreOwned'
      BY <1>1, <1>3 DEF TypeOK, SqEntries, AwaitInner, Release, EntriesAreOwned, InFlight, OwnersHaveSlots, Owned
  <2>3. EntriesAreUnique'
      BY <1>1, <1>3 DEF TypeOK, SqEntries, AwaitInner, Release, EntriesAreUnique, EntriesAreOwned, InFlight, Owned
  <2>4. CancelsAreAwaited'
      BY <1>1, <1>3 DEF TypeOK, SqEntries, AwaitInner, Release, CancelsAreAwaited, EntriesAreOwned, InFlight, CleanupsAreOwned, OwnersHaveSlots, Owned
  <2>5. CleanupsAreOwned'
      BY <1>1, <1>3 DEF TypeOK, SqEntries, AwaitInner, Release, CleanupsAreOwned
  <2>6. TasksAreWoken'
      BY <1>1, <1>3 DEF TypeOK, SqEntries, AwaitInner, Release, TasksAreWoken, Awaited, OwnersHaveSlots, Owned, EntriesAreOwned, InFlight
  <2> QED BY <2>1, <2>2, <2>3, <2>4, <2>5, <2>6
<1> QED BY <1>1, <1>2, <1>3

\* The listener completes exactly the operations whose entries it took.
LEMMA HandleCqePreserves ==
    ASSUME IInv, HandleCqe
    PROVE  IInv'
<1> USE LuringAssumption DEF IInv, Live
<1>1. TypeOK'
    BY DEF TypeOK, Owned, SqEntries, HandleCqe
<1>2. phase # "over" /\ phase' = phase
    BY DEF HandleCqe
<1>3. ASSUME phase # "over" PROVE Live'
  <2>1. OwnersHaveSlots'
      BY <1>1, <1>3 DEF TypeOK, SqEntries, HandleCqe, OwnersHaveSlots, Owned
  <2>2. EntriesAreOwned'
    <3>1. SUFFICES ASSUME NEW f \in sq \cup kernel
                   PROVE  /\ Owned(f.op)
                          /\ idx[f.op] = f.index
                          /\ life'[f.index] \in {"Submitted", "Waiting"}
        BY DEF HandleCqe, EntriesAreOwned, InFlight, Owned
    <3>2. f.index \notin {e.index : e \in cq}
        BY <1>3 DEF EntriesAreUnique, EntriesAreOwned, OwnersHaveSlots, InFlight, TypeOK, SqEntries
    <3> QED BY <1>3, <3>2 DEF HandleCqe, EntriesAreOwned, InFlight, TypeOK, SqEntries
  <2>3. EntriesAreUnique'
      BY <1>1, <1>3 DEF TypeOK, SqEntries, HandleCqe, EntriesAreUnique, EntriesAreOwned, InFlight, Owned
  <2>4. CancelsAreAwaited'
      BY <1>1, <1>3 DEF TypeOK, SqEntries, HandleCqe, CancelsAreAwaited, EntriesAreOwned, InFlight, CleanupsAreOwned, OwnersHaveSlots, Owned
  <2>5. CleanupsAreOwned'
      BY <1>1, <1>3 DEF TypeOK, SqEntries, HandleCqe, CleanupsAreOwned
  <2>6. TasksAreWoken'
    <3>1. SUFFICES ASSUME NEW o \in Ops, Awaited(o), life'[idx[o]] \in {"Submitted", "Completed"}
                   PROVE  awake'[o]
        BY DEF HandleCqe, TasksAreWoken, Awaited
    <3>2. idx[o] \in Indexes /\ Owned(o)
        BY <1>3, <3>1 DEF OwnersHaveSlots, Awaited, Owned
    <3>3. CASE idx[o] \in {e.index : e \in cq}
      <4>1. life[idx[o]] \in {"Submitted", "Waiting"}
          BY <1>3, <3>3 DEF EntriesAreOwned, InFlight
      <4>2. life[idx[o]] = "Submitted" => awake[o]
          BY <1>3, <3>1 DEF TasksAreWoken
      <4> QED BY <4>1, <4>2, <3>2, <3>3, Zenon DEF HandleCqe
    <3>4. CASE idx[o] \notin {e.index : e \in cq}
      <4>1. life[idx[o]] \in {"Submitted", "Completed"}
          BY <3>1, <3>2, <3>4 DEF HandleCqe
      <4>2. awake[o]
          BY <1>3, <3>1, <4>1 DEF TasksAreWoken
      <4> QED BY <4>2, Zenon DEF HandleCqe
    <3> QED BY <3>3, <3>4
  <2> QED BY <2>1, <2>2, <2>3, <2>4, <2>5, <2>6
<1> QED BY <1>1, <1>2, <1>3

\* Submitting moves entries to the kernel.
LEMMA SubmitPreserves ==
    ASSUME IInv, Submit
    PROVE  IInv'
<1> USE LuringAssumption DEF IInv, Live
<1>1. TypeOK'
    BY DEF TypeOK, Owned, SqEntries, Submit
<1>2. phase' = phase
    BY DEF Submit
<1>3. ASSUME phase # "over" PROVE Live'
  <2>1. OwnersHaveSlots'
      BY <1>1, <1>3 DEF TypeOK, SqEntries, Submit, OwnersHaveSlots, Owned
  <2>2. EntriesAreOwned'
      BY <1>1, <1>3 DEF TypeOK, SqEntries, Submit, EntriesAreOwned, InFlight, OwnersHaveSlots, Owned
  <2>3. EntriesAreUnique'
      BY <1>1, <1>3 DEF TypeOK, SqEntries, Submit, EntriesAreUnique, EntriesAreOwned, InFlight, Owned
  <2>4. CancelsAreAwaited'
      BY <1>1, <1>3 DEF TypeOK, SqEntries, Submit, CancelsAreAwaited, EntriesAreOwned, InFlight, CleanupsAreOwned, OwnersHaveSlots, Owned
  <2>5. CleanupsAreOwned'
      BY <1>1, <1>3 DEF TypeOK, SqEntries, Submit, CleanupsAreOwned
  <2>6. TasksAreWoken'
      BY <1>1, <1>3 DEF TypeOK, SqEntries, Submit, TasksAreWoken, Awaited, OwnersHaveSlots, Owned, EntriesAreOwned, InFlight
  <2> QED BY <2>1, <2>2, <2>3, <2>4, <2>5, <2>6
<1> QED BY <1>1, <1>2, <1>3

\* Completing moves an entry to the completion queue.
LEMMA CompletePreserves ==
    ASSUME NEW e \in kernel, IInv, Complete(e)
    PROVE  IInv'
<1> USE LuringAssumption DEF IInv, Live
<1>1. TypeOK'
    BY DEF TypeOK, Owned, SqEntries, Complete
<1>2. phase' = phase
    BY DEF Complete
<1>3. ASSUME phase # "over" PROVE Live'
  <2>1. OwnersHaveSlots'
      BY <1>1, <1>3 DEF TypeOK, SqEntries, Complete, OwnersHaveSlots, Owned
  <2>2. EntriesAreOwned'
      BY <1>1, <1>3 DEF TypeOK, SqEntries, Complete, EntriesAreOwned, InFlight, OwnersHaveSlots, Owned
  <2>3. EntriesAreUnique'
      BY <1>1, <1>3 DEF TypeOK, SqEntries, Complete, EntriesAreUnique, EntriesAreOwned, InFlight, Owned
  <2>4. CancelsAreAwaited'
      BY <1>1, <1>3 DEF TypeOK, SqEntries, Complete, CancelsAreAwaited, EntriesAreOwned, InFlight, CleanupsAreOwned, OwnersHaveSlots, Owned
  <2>5. CleanupsAreOwned'
      BY <1>1, <1>3 DEF TypeOK, SqEntries, Complete, CleanupsAreOwned
  <2>6. TasksAreWoken'
      BY <1>1, <1>3 DEF TypeOK, SqEntries, Complete, TasksAreWoken, Awaited, OwnersHaveSlots, Owned, EntriesAreOwned, InFlight
  <2> QED BY <2>1, <2>2, <2>3, <2>4, <2>5, <2>6
<1> QED BY <1>1, <1>2, <1>3

\* A cancellation completes with its target, or marks it late.
LEMMA CancelPreserves ==
    ASSUME NEW e \in kernel, IInv, Cancel(e)
    PROVE  IInv'
<1> USE LuringAssumption DEF IInv, Live
<1>1. TypeOK'
  <2>1. \A f \in SqEntries : [f EXCEPT !.late = TRUE] \in SqEntries
      BY DEF SqEntries
  <2> DEFINE found == {f \in kernel : f.index = e.target}
  <2>2. {[f EXCEPT !.late = TRUE] : f \in found} \subseteq SqEntries
      BY <2>1 DEF TypeOK
  <2>3. kernel' \subseteq SqEntries /\ cq' \subseteq SqEntries
      BY <2>2 DEF Cancel, TypeOK
  <2> QED BY <2>3 DEF Cancel, TypeOK, Owned
<1>2. phase' = phase
    BY DEF Cancel
<1>3. ASSUME phase # "over" PROVE Live'
  <2>1. OwnersHaveSlots'
      BY <1>1, <1>3 DEF TypeOK, SqEntries, Cancel, OwnersHaveSlots, Owned
  <2>2. EntriesAreOwned'
      BY <1>1, <1>3 DEF TypeOK, SqEntries, Cancel, EntriesAreOwned, InFlight, OwnersHaveSlots, Owned
  <2>3. EntriesAreUnique'
    <3> DEFINE found == {f \in kernel : f.index = e.target}
               late == {[f EXCEPT !.late = TRUE] : f \in found}
    <3>1. e.index # e.target
        BY <1>3 DEF Cancel, CancelsAreAwaited, CleanupsAreOwned, EntriesAreOwned, OwnersHaveSlots,
                    Owned, InFlight
    <3>2. CASE kernel' = kernel \ ({e} \cup found) /\ cq' = cq \cup {e} \cup found
        BY <1>3, <3>2 DEF Cancel, EntriesAreUnique, InFlight
    <3>3. CASE kernel' = (kernel \ ({e} \cup found)) \cup late /\ cq' = cq \cup {e}
      <4>1. ASSUME NEW l \in late
            PROVE  \E f \in found : l = [f EXCEPT !.late = TRUE] /\ l.op = f.op
          BY DEF TypeOK, SqEntries
      <4>2. \A l \in late : \A g \in InFlight : g.op = l.op => g \in found
          BY <1>3, <4>1 DEF EntriesAreUnique, InFlight
      <4>3. \A l, k \in late : l.op = k.op => l = k
          BY <1>3, <4>1 DEF EntriesAreUnique, InFlight
      <4>4. late \cap (sq \cup cq \cup {e}) = {}
          BY <1>3, <3>1, <4>2 DEF EntriesAreUnique, InFlight
      <4>5. ASSUME NEW g \in InFlight', NEW h \in InFlight', g.op = h.op
            PROVE  g = h
        <5>1. InFlight' = (InFlight \ found) \cup late
            BY <1>3, <3>1, <3>3 DEF Cancel, EntriesAreUnique, InFlight
        <5> QED BY <1>3, <4>2, <4>3, <4>5, <5>1 DEF EntriesAreUnique
      <4>6. sq' \cap kernel' = {} /\ cq' \cap (sq' \cup kernel') = {}
          BY <1>3, <3>3, <4>4 DEF Cancel, EntriesAreUnique
      <4> QED BY <4>5, <4>6 DEF EntriesAreUnique
    <3> QED BY <3>2, <3>3 DEF Cancel
  <2>4. CancelsAreAwaited'
      BY <1>1, <1>3 DEF TypeOK, SqEntries, Cancel, CancelsAreAwaited, EntriesAreOwned, InFlight, CleanupsAreOwned, OwnersHaveSlots, Owned
  <2>5. CleanupsAreOwned'
      BY <1>1, <1>3 DEF TypeOK, SqEntries, Cancel, CleanupsAreOwned
  <2>6. TasksAreWoken'
      BY <1>1, <1>3 DEF TypeOK, SqEntries, Cancel, TasksAreWoken, Awaited, OwnersHaveSlots, Owned, EntriesAreOwned, InFlight
  <2> QED BY <2>1, <2>2, <2>3, <2>4, <2>5, <2>6
<1> QED BY <1>1, <1>2, <1>3

\* The initial states satisfy the invariant.
LEMMA InitIInv == Init => IInv
  BY LuringAssumption DEF Init, IInv, TypeOK, SqEntries, Phases, Live, OwnersHaveSlots, EntriesAreOwned,
        EntriesAreUnique, CancelsAreAwaited, CleanupsAreOwned, TasksAreWoken, Awaited, Owned, InFlight

\* The steps of start end in a state in which nothing is claimed any more.
LEMMA StartPreserves == IInv /\ Start => IInv'
<1> SUFFICES ASSUME IInv, Start PROVE IInv'
    OBVIOUS
<1>1. TypeOK'
  <2>1. CASE MainReturns \/ StopListening
      BY <2>1 DEF MainReturns, StopListening, IInv, TypeOK, Phases, Owned
  <2>2. CASE DropLocalSet
      BY <2>2 DEF DropLocalSet, IInv, TypeOK, Phases, Owned
  <2> QED BY <2>1, <2>2 DEF Start
<1>2. ASSUME phase' # "over" PROVE Live'
  <2>1. /\ phase # "over"
        /\ UNCHANGED <<life, future, idx, cleanup, awake, sq, kernel, cq, owner>>
      BY <1>2 DEF Start, MainReturns, StopListening, DropLocalSet
  <2> QED BY <2>1 DEF IInv, Live, OwnersHaveSlots, EntriesAreOwned, EntriesAreUnique,
           CancelsAreAwaited, CleanupsAreOwned, TasksAreWoken, Awaited, Owned, InFlight
<1> QED BY <1>1, <1>2 DEF IInv

\* A step that changes nothing.
LEMMA StutterPreserves == IInv /\ UNCHANGED vars => IInv'
  BY DEF vars, IInv, TypeOK, Live, OwnersHaveSlots, EntriesAreOwned, EntriesAreUnique,
         CancelsAreAwaited, CleanupsAreOwned, TasksAreWoken, Awaited, Owned, InFlight

\* Every step of Next is one of the above.
LEMMA NextPreserves == IInv /\ [Next]_vars => IInv'
<1> SUFFICES ASSUME IInv, [Next]_vars PROVE IInv'
    OBVIOUS
<1>1. CASE \E o \in Ops : Push(o) \/ DropOp(o) \/ Task(o)
    BY <1>1, PushPreserves, DropOpPreserves, PollOpPreserves, AwaitCancelPreserves,
       AwaitInnerPreserves DEF Task
<1>2. CASE Listener
    BY <1>2, HandleCqePreserves DEF Listener
<1>3. CASE Submit
    BY <1>3, SubmitPreserves
<1>4. CASE Kernel
    BY <1>4, CompletePreserves, CancelPreserves DEF Kernel
<1>5. CASE Start
    BY <1>5, StartPreserves
<1>6. CASE UNCHANGED vars
    BY <1>6, StutterPreserves
<1> QED BY <1>1, <1>2, <1>3, <1>4, <1>5, <1>6 DEF Next

\* The invariant holds in every reachable state, for any number of operations
\* and any size of the slab and of the submission queue.
THEOREM Invariance == Spec => []IInv
<1>1. Init => IInv
    BY InitIInv
<1>2. IInv /\ [Next]_vars => IInv'
    BY NextPreserves
<1> QED BY <1>1, <1>2, PTL DEF Spec

\* Every reachable state is type correct.
THEOREM TypeCorrect == Spec => []TypeOK
<1>1. IInv => TypeOK
    BY DEF IInv
<1> QED BY <1>1, Invariance, PTL

\* handle_cqe always finds the operation a completion is for.
THEOREM CompletionsArrive == Spec => []CompletionFindsItsOp
<1>1. IInv => CompletionFindsItsOp
    BY DEF IInv, Live, TypeOK, SqEntries, CompletionFindsItsOp, EntriesAreOwned, OwnersHaveSlots,
           InFlight
<1> QED BY <1>1, Invariance, PTL

\* The AsyncCancel that Op::drop pushes never cancels another operation.
THEOREM CancellationsHit == Spec => []CancelHitsItsTarget
<1>1. IInv => CancelHitsItsTarget
    BY DEF IInv, Live, TypeOK, SqEntries, CancelHitsItsTarget, CancelsAreAwaited, OwnersHaveSlots,
           Owned
<1> QED BY <1>1, Invariance, PTL

\* A completed operation's task has been woken.
THEOREM WakesArrive == Spec => []NoLostWake
<1>1. IInv => NoLostWake
    BY DEF IInv, Live, NoLostWake, TasksAreWoken, Awaited
<1> QED BY <1>1, Invariance, PTL
=============================================================================
