------------------------- MODULE VerifiedWriteProofs -------------------------
(* What follows from VerifiedWrite, for everything that implements it.      *)
EXTENDS VerifiedWrite, TLAPS

Inv == claim \in Claims /\ ClaimsAreTrue

LEMMA NextInv == Inv /\ [Next]_vars => Inv'
<1> SUFFICES ASSUME Inv, [Next]_vars PROVE Inv'
  OBVIOUS
<1> USE DEF Inv, ClaimsAreTrue, Claimed
<1>1. CASE UNCHANGED vars \/ EditElsewhere
  BY <1>1 DEF vars, EditElsewhere
<1>2. ASSUME NEW r \in Resources, NEW t \in Targets, Write(r, t) PROVE Inv'
  <2>1. claim' \in Claims
    BY <1>2 DEF Write, Withdrawn, Claims
  <2>2. ASSUME NEW s \in Resources, NEW u \in Targets, claim'[s][u] # Unknown
        PROVE  claim'[s][u] = value'[s][u]
    <3>1. claim'[s][u] = claim[s][u] /\ (s # r \/ u # t)
      BY <1>2, <2>2 DEF Write, Withdrawn, Claims
    <3>2. value'[s][u] = value[s][u]
      BY <1>2, <2>2, <3>1 DEF Write, ChangesOnly
    <3> QED
      BY <2>2, <3>1, <3>2
  <2>3. doubt' \cap blocked' = {}
    BY <1>2 DEF Write
  <2> QED
    BY <2>1, <2>2, <2>3
<1>3. ASSUME NEW r \in Resources, NEW t \in Targets, Edit(r, t) PROVE Inv'
  <2>1. claim' \in Claims
    BY <1>3 DEF Edit, Withdrawn, Claims
  <2>2. ASSUME NEW s \in Resources, NEW u \in Targets, claim'[s][u] # Unknown
        PROVE  claim'[s][u] = value'[s][u]
    <3>1. claim'[s][u] = claim[s][u] /\ (s # r \/ u # t)
      BY <1>3, <2>2 DEF Edit, Withdrawn, Claims
    <3>2. value'[s][u] = value[s][u]
      BY <1>3, <3>1 DEF Edit, ChangesOnly
    <3> QED
      BY <2>2, <3>1, <3>2
  <2> QED
    BY <1>3, <2>1, <2>2 DEF Edit
<1>4. ASSUME NEW r \in Resources, Settle(r) \/ Notice(r) PROVE Inv'
  BY <1>4 DEF Settle, Notice, ClaimsOf
<1>5. ASSUME NEW r \in Resources, Block(r) PROVE Inv'
  BY <1>5 DEF Block
<1> QED
  BY <1>1, <1>2, <1>3, <1>4, <1>5 DEF Next

\* Whatever implements VerifiedWrite never lets a claim become false: an outcome
\* reported once stays true until its very target is changed.
THEOREM ClaimsStayTrue == Spec => []ClaimsAreTrue
<1>1. Init => Inv
  BY DEF Init, Inv, ClaimsAreTrue, Claimed, Claims
<1>2. Inv => ClaimsAreTrue
  BY DEF Inv
<1> QED
  BY <1>1, <1>2, NextInv, PTL DEF Spec
=============================================================================
