------------------------------- MODULE Encode -------------------------------
(***************************************************************************)
(* Which results may be persisted: encode and its inner function check of  *)
(* python/traversal/cache.py, on every small heap of lists and dicts that  *)
(* share children, contain each other or hold what JSON has no word for.   *)
(* The recursion of check is a stack of frames: the container it is in and *)
(* the items its loop has still to look at.  A dict counts for its values. *)
(***************************************************************************)
EXTENDS Naturals, Sequences, FiniteSets, SequencesExt

CONSTANTS
    Size,     \* the number of objects of a heap
    MaxItems  \* bound on the items of a container

ASSUME EncodeAssumption == Size \in Nat \ {0} /\ MaxItems \in Nat

Objects == 1 .. Size

Root == 1

\* An object is a native leaf, a value or a dict with a key that is refused,
\* or a container of its items.
Leaf == [kind |-> "leaf", items |-> <<>>]

Foreign == [kind |-> "foreign", items |-> <<>>]

Containers == {[kind |-> "container", items |-> s] : s \in BoundedSeq(Objects, MaxItems)}

VARIABLES
    heap,    \* the objects, which encoding leaves alone
    stack,   \* the frames of check
    seen,    \* the identities check carries along
    verdict  \* what encode has come to

encodeVars == <<heap, stack, seen, verdict>>

NoContainer == 0

EncodeInit ==
    /\ heap \in [Objects -> {Leaf, Foreign} \cup Containers]
    /\ stack = <<[container |-> NoContainer, rest |-> <<Root>>]>>
    /\ seen = {}
    /\ verdict = "none"

Top == stack[Len(stack)]

\* The loop of the innermost frame goes on to the item after this one.
Advanced == [stack EXCEPT ![Len(stack)].rest = Tail(@)]

Looking(object) == verdict = "none" /\ Top.rest # <<>> /\ object = Head(Top.rest)

-----------------------------------------------------------------------------
PassLeaf(object) ==
    /\ Looking(object) /\ heap[object].kind = "leaf"
    /\ stack' = Advanced
    /\ UNCHANGED <<heap, seen, verdict>>

Refuse(object) ==
    /\ Looking(object)
    /\ heap[object].kind = "foreign" \/ (heap[object].kind = "container" /\ object \in seen)
    /\ verdict' = "refused"
    /\ UNCHANGED <<heap, stack, seen>>

Enter(object) ==
    /\ Looking(object) /\ heap[object].kind = "container" /\ object \notin seen
    /\ seen' = seen \cup {object}
    /\ stack' = Append(Advanced, [container |-> object, rest |-> heap[object].items])
    /\ UNCHANGED <<heap, verdict>>

\* Mutant: the container is not removed from seen when it is left.
LeaveSeen ==
    /\ verdict = "none" /\ Top.rest = <<>> /\ Len(stack) > 1
    /\ stack' = Front(stack)
    /\ UNCHANGED <<heap, seen, verdict>>

Leave ==
    /\ verdict = "none" /\ Top.rest = <<>> /\ Len(stack) > 1
    /\ seen' = seen \ {Top.container}
    /\ stack' = Front(stack)
    /\ UNCHANGED <<heap, verdict>>

\* After check: json.dumps, and the limit on the bytes of the payload.
Dump ==
    /\ verdict = "none" /\ Top.rest = <<>> /\ Len(stack) = 1
    /\ verdict' \in {"accepted", "too large"}
    /\ UNCHANGED <<heap, stack, seen>>

EncodeNext ==
    \/ \E object \in Objects : PassLeaf(object) \/ Refuse(object) \/ Enter(object)
    \/ Leave \/ Dump

EncodeSpec == EncodeInit /\ [][EncodeNext]_encodeVars
-----------------------------------------------------------------------------
Items(object) == {heap[object].items[i] : i \in DOMAIN heap[object].items}

\* What a set of objects holds, directly or through containers.
Held(objects) ==
    LET closed == {C \in SUBSET Objects : objects \subseteq C /\ \A o \in C : Items(o) \subseteq C}
    IN  {o \in Objects : \A C \in closed : o \in C}

\* A value that can be written down: nothing foreign in it, and nothing in itself.
Writable(object) ==
    \A o \in Held({object}) : heap[o].kind # "foreign" /\ o \notin Held(Items(o))

\* A value is refused if and only if it cannot be written down; a child that
\* two containers share is no circle, however often it is met.
VerdictRight ==
    /\ verdict = "refused" => ~ Writable(Root)
    /\ verdict \in {"accepted", "too large"} => Writable(Root)
=============================================================================
