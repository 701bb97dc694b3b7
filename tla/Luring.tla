------------------------------- MODULE Luring -------------------------------
(***************************************************************************)
(* io_uring operations as futures (luring/src/linux.rs), and the runtime   *)
(* that drives them (buffet::start).                                       *)
(*                                                                         *)
(* An operation is an entry of a slab and an Op that refers to it by its   *)
(* index; the index is also the user_data of the kernel's entries, so it   *)
(* is all that a completion and a cancellation name.  Dropping an Op that  *)
(* has not completed pushes an AsyncCancel and leaves its OpInner to a     *)
(* spawned task, which awaits the cancellation, then the operation.        *)
(*                                                                         *)
(* The kernel is external: it takes what was submitted, completes          *)
(* operations in any order, and may or may not be in time to cancel one.   *)
(* Queue order does not matter to any of this code, so queues are sets.    *)
(***************************************************************************)
EXTENDS Integers, FiniteSets

CONSTANTS
    Ops,       \* the operations of this instance, cancellations included
    Indexes,   \* the indexes of the slab
    Entries,   \* entries of the submission queue (IO_URING_ENTRIES)
    NoOp,      \* no operation
    NoIndex,   \* no index
    Stops      \* whether the runtime of this instance shuts down

ASSUME LuringAssumption ==
    /\ NoOp \notin Ops
    /\ NoIndex \notin Indexes
    /\ Entries \in Nat \ {0}
    /\ Stops \in BOOLEAN

VARIABLES
    life,      \* the slab: Lifecycle of each index, or "Vacant"
    future,    \* who owns an operation's OpInner
    idx,       \* OpInner::index
    cleanup,   \* the cancellation that a dropped operation's task awaits
    awake,     \* the task that owns the operation has been woken
    sq,        \* entries pushed
    kernel,    \* entries submitted
    cq,        \* completions
    phase,     \* where buffet::start is
    panicked,  \* OpInner::drop panicked
    owner      \* history: the operation an index was given to

vars == <<life, future, idx, cleanup, awake, sq, kernel, cq, phase, panicked, owner>>

\* An entry names an operation by its index, and so does a cancellation its
\* target; "op" and "victim" remember which operations were meant.  "late"
\* is set once it is too late to cancel the operation.
SqEntries == [index : Indexes, target : Indexes \cup {NoIndex}, late : BOOLEAN,
              op : Ops, victim : Ops \cup {NoOp}]

Phases == {"running", "submitting", "finishing", "over"}

\* The future of o owns its entry of the slab.
Owned(o) == future[o] \in {"held", "cancelling", "draining", "cancel"}

\* Every variable has its type; an Op, or the OpInner of a dropped one, has
\* an index.
TypeOK ==
    /\ life \in [Indexes -> {"Vacant", "Submitted", "Waiting", "Completed"}]
    /\ future \in [Ops -> {"none", "held", "cancelling", "draining", "cancel", "gone"}]
    /\ idx \in [Ops -> Indexes \cup {NoIndex}]
    /\ \A o \in Ops : Owned(o) => idx[o] \in Indexes
    /\ cleanup \in [Ops -> Ops \cup {NoOp}]
    /\ awake \in [Ops -> BOOLEAN]
    /\ sq \subseteq SqEntries
    /\ kernel \subseteq SqEntries
    /\ cq \subseteq SqEntries
    /\ phase \in Phases
    /\ panicked \in BOOLEAN
    /\ owner \in [Indexes -> Ops \cup {NoOp}]

Init ==
    /\ life = [i \in Indexes |-> "Vacant"]
    /\ future = [o \in Ops |-> "none"]
    /\ idx = [o \in Ops |-> NoIndex]
    /\ cleanup = [o \in Ops |-> NoOp]
    /\ awake = [o \in Ops |-> FALSE]
    /\ sq = {}
    /\ kernel = {}
    /\ cq = {}
    /\ phase = "running"
    /\ panicked = FALSE
    /\ owner = [i \in Indexes |-> NoOp]

-----------------------------------------------------------------------------
\* push: an entry in the slab and one in the submission queue, which is
\* submitted first when it is full.
Enqueue(o, i, target, victim) ==
    /\ life[i] = "Vacant"
    /\ life' = [life EXCEPT ![i] = "Submitted"]
    /\ owner' = [owner EXCEPT ![i] = o]
    /\ idx' = [idx EXCEPT ![o] = i]
    /\ LET e == [index |-> i, target |-> target, late |-> FALSE,
                 op |-> o, victim |-> victim]
       IN IF Cardinality(sq) < Entries
          THEN sq' = sq \cup {e} /\ UNCHANGED kernel
          ELSE sq' = {e} /\ kernel' = kernel \cup sq

\* A task starts an operation; polling the new future is its next step.
Push(o) ==
    /\ phase \in {"running", "submitting", "finishing"}
    /\ future[o] = "none"
    /\ \E i \in Indexes : Enqueue(o, i, NoIndex, NoOp)
    /\ future' = [future EXCEPT ![o] = "held"]
    /\ awake' = [awake EXCEPT ![o] = TRUE]
    /\ UNCHANGED <<cleanup, cq, phase, panicked>>

\* OpInner::drop, after the operation has completed.
Release(o) ==
    /\ life' = [life EXCEPT ![idx[o]] = "Vacant"]
    /\ owner' = [owner EXCEPT ![idx[o]] = NoOp]

\* Op::poll: the task registers its waker, or takes the completion and drops
\* the future.
PollOp(o) ==
    /\ phase # "over"
    /\ future[o] = "held"
    /\ awake[o]
    /\ awake' = [awake EXCEPT ![o] = FALSE]
    /\ \/ /\ life[idx[o]] \in {"Submitted", "Waiting"}
          /\ life' = [life EXCEPT ![idx[o]] = "Waiting"]
          /\ UNCHANGED <<future, owner>>
       \/ /\ life[idx[o]] = "Completed"
          /\ Release(o)
          /\ future' = [future EXCEPT ![o] = "gone"]
    /\ UNCHANGED <<idx, cleanup, sq, kernel, cq, phase, panicked>>

ReleasesAtOnce(o) ==
    /\ phase # "over"
    /\ future[o] = "held"
    /\ Release(o)
    /\ future' = [future EXCEPT ![o] = "gone"]
    /\ UNCHANGED <<idx, cleanup, awake, sq, kernel, cq, phase, panicked>>

\* Op::drop by a task that gives up: a completed operation leaves the slab,
\* any other is left to a task that cancels it.
DropOp(o) ==
    /\ phase # "over"
    /\ future[o] = "held"
    /\ \/ /\ life[idx[o]] = "Completed"
          /\ Release(o)
          /\ future' = [future EXCEPT ![o] = "gone"]
          /\ UNCHANGED <<idx, cleanup, awake, sq, kernel>>
       \/ /\ life[idx[o]] # "Completed"
          /\ \E c \in Ops, i \in Indexes :
                /\ future[c] = "none"
                /\ c # o
                /\ Enqueue(c, i, idx[o], o)
                /\ future' = [future EXCEPT ![o] = "cancelling", ![c] = "cancel"]
                /\ cleanup' = [cleanup EXCEPT ![o] = c]
                /\ awake' = [awake EXCEPT ![o] = FALSE, ![c] = TRUE]
    /\ UNCHANGED <<cq, phase, panicked>>

\* The spawned task awaits the cancellation.
LeavesCancellation(o) ==
    /\ phase # "over"
    /\ future[o] = "cancelling"
    /\ future' = [future EXCEPT ![o] = "draining"]
    /\ awake' = [awake EXCEPT ![o] = TRUE]
    /\ UNCHANGED <<life, idx, cleanup, sq, kernel, cq, phase, panicked, owner>>

AwaitCancel(o) ==
    /\ phase # "over"
    /\ future[o] = "cancelling"
    /\ LET c == cleanup[o] IN
       /\ awake[c]
       /\ \/ /\ life[idx[c]] \in {"Submitted", "Waiting"}
             /\ life' = [life EXCEPT ![idx[c]] = "Waiting"]
             /\ awake' = [awake EXCEPT ![c] = FALSE]
             /\ UNCHANGED <<future, owner>>
          \/ /\ life[idx[c]] = "Completed"
             /\ Release(c)
             /\ future' = [future EXCEPT ![o] = "draining", ![c] = "gone"]
             /\ awake' = [awake EXCEPT ![c] = FALSE, ![o] = TRUE]
    /\ UNCHANGED <<idx, cleanup, sq, kernel, cq, phase, panicked>>

\* Then it awaits the operation itself.
AwaitInner(o) ==
    /\ phase # "over"
    /\ future[o] = "draining"
    /\ awake[o]
    /\ awake' = [awake EXCEPT ![o] = FALSE]
    /\ \/ /\ life[idx[o]] \in {"Submitted", "Waiting"}
          /\ life' = [life EXCEPT ![idx[o]] = "Waiting"]
          /\ UNCHANGED <<future, owner>>
       \/ /\ life[idx[o]] = "Completed"
          /\ Release(o)
          /\ future' = [future EXCEPT ![o] = "gone"]
    /\ UNCHANGED <<idx, cleanup, sq, kernel, cq, phase, panicked>>

WakesNobody ==
    /\ phase \in {"running", "submitting"}
    /\ cq # {}
    /\ life' = [i \in Indexes |-> IF i \in {e.index : e \in cq} THEN "Completed" ELSE life[i]]
    /\ cq' = {}
    /\ UNCHANGED <<future, idx, cleanup, awake, sq, kernel, phase, panicked, owner>>

\* listen: handle_cqe empties the completion queue.  The listener runs until
\* start drops cancel_tx.
HandleCqe ==
    /\ phase \in {"running", "submitting"}
    /\ cq # {}
    /\ LET done == {e.index : e \in cq} IN
       /\ life' = [i \in Indexes |-> IF i \in done THEN "Completed" ELSE life[i]]
       /\ awake' = [o \in Ops |-> awake[o] \/ (/\ Owned(o)
                                               /\ idx[o] \in done
                                               /\ life[idx[o]] = "Waiting")]
    /\ cq' = {}
    /\ UNCHANGED <<future, idx, cleanup, sq, kernel, phase, panicked, owner>>

\* on_thread_park submits what was pushed.
Submit ==
    /\ sq # {}
    /\ kernel' = kernel \cup sq
    /\ sq' = {}
    /\ UNCHANGED <<life, future, idx, cleanup, awake, cq, phase, panicked, owner>>

\* The kernel completes an operation that is not a cancellation.
Complete(e) ==
    /\ e \in kernel
    /\ e.target = NoIndex
    /\ kernel' = kernel \ {e}
    /\ cq' = cq \cup {e}
    /\ UNCHANGED <<life, future, idx, cleanup, awake, sq, phase, panicked, owner>>

\* The kernel carries out a cancellation: it completes the operations it has
\* under the target's index, or finds that it is too late for them, or finds
\* none.
Cancel(e) ==
    /\ e \in kernel
    /\ e.target # NoIndex
    /\ LET found == {f \in kernel : f.index = e.target}
           late == {[f EXCEPT !.late = TRUE] : f \in found}
       IN \/ /\ kernel' = kernel \ ({e} \cup found)
             /\ cq' = cq \cup {e} \cup found
          \/ /\ found # {}
             /\ kernel' = (kernel \ ({e} \cup found)) \cup late
             /\ cq' = cq \cup {e}
    /\ UNCHANGED <<life, future, idx, cleanup, awake, sq, phase, panicked, owner>>

-----------------------------------------------------------------------------
\* start: the main future returns, then the local set is polled once so that
\* cancellations get submitted.
MainReturns ==
    /\ Stops
    /\ phase = "running"
    /\ phase' = "submitting"
    /\ UNCHANGED <<life, future, idx, cleanup, awake, sq, kernel, cq, panicked, owner>>

\* The first timeout: cancel_tx is dropped and the listener with it.
StopListening ==
    /\ phase = "submitting"
    /\ phase' = "finishing"
    /\ UNCHANGED <<life, future, idx, cleanup, awake, sq, kernel, cq, panicked, owner>>

\* The second timeout: the local set is dropped, and with it the tasks that
\* still own an OpInner.  A held Op drops as in DropOp, into a task that is
\* dropped at once.
DropLocalSet ==
    /\ phase = "finishing"
    /\ phase' = "over"
    /\ panicked' = \E o \in Ops : Owned(o) /\ life[idx[o]] # "Completed"
    /\ life' = [i \in Indexes |-> "Vacant"]
    /\ owner' = [i \in Indexes |-> NoOp]
    /\ future' = [o \in Ops |-> IF Owned(o) THEN "gone" ELSE future[o]]
    /\ UNCHANGED <<idx, cleanup, awake, sq, kernel, cq>>

Listener == HandleCqe
Task(o) == PollOp(o) \/ AwaitCancel(o) \/ AwaitInner(o)
Kernel == \E e \in kernel : Complete(e) \/ Cancel(e)
Start == MainReturns \/ StopListening \/ DropLocalSet

Next ==
    \/ \E o \in Ops : Push(o) \/ DropOp(o) \/ Task(o)
    \/ Listener
    \/ Submit
    \/ Kernel
    \/ Start

Spec == Init /\ [][Next]_vars

\* tokio polls woken tasks and the listener, and parks when there are none;
\* the kernel answers cancellations, and completes what it is too late to
\* cancel.
FairSpec ==
    /\ Spec
    /\ WF_vars(Listener)
    /\ WF_vars(Submit)
    /\ \A o \in Ops : WF_vars(Task(o))
    /\ WF_vars(\E e \in kernel : Cancel(e) \/ (e.late /\ Complete(e)))

-----------------------------------------------------------------------------
\* Everything the kernel will still complete, or has completed.
InFlight == sq \cup kernel \cup cq

\* A completion finds its own operation in the slab, not yet completed: an
\* index is never vacant, nor given to another operation, while an entry with
\* that user_data is on its way, so handle_cqe neither panics nor completes
\* the wrong future.
CompletionFindsItsOp ==
    phase # "over" =>
        \A e \in InFlight :
            /\ owner[e.index] = e.op
            /\ idx[e.op] = e.index
            /\ life[e.index] \in {"Submitted", "Waiting"}

\* An AsyncCancel names its target by index only; as the task that Op::drop
\* spawns awaits the cancellation before it gives the index back, the kernel
\* can never cancel another operation that was given the index meanwhile.
CancelHitsItsTarget ==
    phase # "over" =>
        \A e \in sq \cup kernel :
            e.target # NoIndex => owner[e.target] = e.victim

\* The task of a completed operation has been woken, whether the completion
\* came before or after its first poll.
NoLostWake ==
    phase # "over" =>
        \A o \in Ops :
            (future[o] \in {"held", "draining", "cancel"} /\ life[idx[o]] = "Completed")
                => awake[o]

\* The entry of a dropped operation leaves the slab, after its cancellation
\* did, unless start's main future returns first.
DroppedOpsLeave ==
    \A o \in Ops :
        (future[o] = "cancelling") ~> (future[o] = "gone" \/ phase # "running")
=============================================================================
