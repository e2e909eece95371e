-------------------------- MODULE VersionedOrder --------------------------
(* What a document promises the layers above it (specs/document.md, "The     *)
(* structural generation"): a published order of nodes, and a version that   *)
(* stands for it.  Layers pull: they compare versions and are never called.  *)
EXTENDS Naturals

VARIABLES order,      \* the published order: what position lookups answer
          version,    \* what layers compare their stamps with
          open,       \* a mutation window is open: nothing is answered
          dead        \* a mutation failed: nothing is published again

vars == <<order, version, open, dead>>

Init == version = 0 /\ ~open /\ ~dead

Open == /\ ~open /\ ~dead
        /\ open' = TRUE
        /\ UNCHANGED <<order, version, dead>>

Close == open /\ open' = FALSE

\* Membership did not change: order and version are the ones layers know.
Settle == Close /\ UNCHANGED <<order, version, dead>>

\* Membership changed: whatever the new order, its version is new.
Publish == Close /\ version' = version + 1 /\ UNCHANGED dead

Fail == Close /\ dead' = TRUE /\ UNCHANGED <<order, version>>

Next == Open \/ Settle \/ Publish \/ Fail

Spec == Init /\ [][Next]_vars
============================================================================
