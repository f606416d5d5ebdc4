---------------------------- MODULE VerifiedWrite ----------------------------
(***************************************************************************)
(* What both write services promise, without requests, coroutines, locks   *)
(* or snapshots.  A resource (a switch, the site's palette) is a function  *)
(* of its targets (the fields, the slots).  There is at most one write in  *)
(* doubt; it is settled, or its resource is blocked for good; and what a   *)
(* settled outcome claims of a target stays true until somebody means to   *)
(* change that very target.  DeviceControl and ColorControl implement it.  *)
(***************************************************************************)
EXTENDS Naturals

CONSTANTS Resources, Targets, Contents,
          Unknown    \* nothing is claimed of a target

VARIABLES
    value,     \* what the controller holds
    outside,   \* how often it was changed from outside the integration
    blocked,   \* resources that are not written any more
    doubt,     \* the resource that was written without an outcome so far
    claim      \* what outcomes said of each target

vars == <<value, outside, blocked, doubt, claim>>

Holdings == [Resources -> [Targets -> Contents]]
Claims == [Resources -> [Targets -> Contents \cup {Unknown}]]

Claimed(r) == {t \in Targets : claim[r][t] # Unknown}

\* nothing but resource r has changed, and there only its targets T
ChangesOnly(r, T) ==
    /\ value' \in Holdings
    /\ \A s \in Resources \ {r} : value'[s] = value[s]
    /\ \A t \in Targets \ T : value'[r][t] = value[r][t]

Withdrawn(r, t) == claim' = [claim EXCEPT ![r][t] = Unknown]

Init ==
    /\ value \in Holdings
    /\ outside = 0
    /\ blocked = {} /\ doubt = {}
    /\ claim = [r \in Resources |-> [t \in Targets |-> Unknown]]

\* a write means to change target t of r; it may put back other targets of r, but
\* none of which something is claimed
Write(r, t) ==
    /\ doubt = {}
    /\ r \notin blocked
    /\ doubt' = {r}
    /\ ChangesOnly(r, (Targets \ Claimed(r)) \cup {t})
    /\ Withdrawn(r, t)
    /\ UNCHANGED <<outside, blocked>>

\* what is said of r from now on is what r holds
ClaimsOf(r) ==
    /\ claim' \in Claims
    /\ \A s \in Resources \ {r} : claim'[s] = claim[s]
    /\ \A t \in Targets : claim'[r][t] \in {Unknown, claim[r][t], value[r][t]}

\* the write in doubt was applied or not applied
Settle(r) ==
    /\ r \in doubt
    /\ doubt' = {}
    /\ ClaimsOf(r)
    /\ UNCHANGED <<value, outside, blocked>>

\* the requested value is there already
Notice(r) ==
    /\ ClaimsOf(r)
    /\ UNCHANGED <<value, outside, blocked, doubt>>

\* the write stays in doubt
Block(r) ==
    /\ r \in doubt
    /\ doubt' = {}
    /\ blocked' = blocked \cup {r}
    /\ UNCHANGED <<value, outside, claim>>

\* somebody else changes one target
Edit(r, t) ==
    /\ outside' = outside + 1
    /\ ChangesOnly(r, {t})
    /\ Withdrawn(r, t)
    /\ UNCHANGED <<blocked, doubt>>

\* somebody else changes what is no target
EditElsewhere ==
    /\ outside' = outside + 1
    /\ UNCHANGED <<value, blocked, doubt, claim>>

Next ==
    \/ EditElsewhere
    \/ \E r \in Resources :
          \/ \E t \in Targets : Write(r, t) \/ Edit(r, t)
          \/ Settle(r) \/ Block(r) \/ Notice(r)

Spec == Init /\ [][Next]_vars
-----------------------------------------------------------------------------
\* No claim is ever false, whoever wrote in the meantime, and a blocked resource is
\* not in doubt: it will not be written to find out.
ClaimsAreTrue ==
    /\ \A r \in Resources : \A t \in Claimed(r) : claim[r][t] = value[r][t]
    /\ doubt \cap blocked = {}
=============================================================================
