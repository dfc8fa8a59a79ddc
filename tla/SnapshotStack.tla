--------------------------- MODULE SnapshotStack ---------------------------
(***************************************************************************)
(* What a versioned table promises its readers: a snapshot of the versions *)
(* of all assets for each stored block, kept as a stack.  Appending blocks *)
(* pushes snapshots, squashing microblocks folds the snapshots above a     *)
(* block into that block, rolling back pops, and readers see the top.      *)
(***************************************************************************)
EXTENDS Integers, FiniteSetsExt

CONSTANT Assets

VARIABLES
  stack,   \* function from the uids of the stored blocks to snapshots
  shown    \* the snapshot readers see

NoVersions == [a \in Assets |-> 0]

Top(s) == IF DOMAIN s = {} THEN NoVersions ELSE s[Max(DOMAIN s)]

\* Every snapshot above k folded into k.
FoldInto(s, k) ==
  [b \in {c \in DOMAIN s : c <= k} |-> IF b = k THEN Top(s) ELSE s[b]]

Init == stack = << >> /\ shown = NoVersions

\* New snapshots on top of s: what is below does not change.
Push(s) ==
  /\ DOMAIN s \subseteq DOMAIN stack'
  /\ \A b \in DOMAIN s : stack'[b] = s[b]
  /\ \A b \in DOMAIN stack' \ DOMAIN s : \A c \in DOMAIN s : c < b

Append == Push(stack) /\ shown' = Top(stack')

SquashAndAppend ==
  /\ \E k \in DOMAIN stack : Push(FoldInto(stack, k))
  /\ shown' = Top(stack')

Rollback ==
  /\ \E b \in DOMAIN stack : stack' = [c \in {d \in DOMAIN stack : d <= b} |-> stack[c]]
  /\ shown' = Top(stack')

Next == Append \/ SquashAndAppend \/ Rollback

Spec == Init /\ [][Next]_<<stack, shown>>
============================================================================
