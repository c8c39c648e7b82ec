----------------------------- MODULE CustodyProofs -----------------------------
(***************************************************************************)
(* What the promise of Custody means for one piece of equipment.           *)
(***************************************************************************)
EXTENDS Custody, TLAPS

\* Equipment is with at most one checkout, and is away exactly while it is with
\* one: no hand-over, return or dispute, in whatever order, loses a piece.
OneHolder ==
    /\ \A c, d \in Checkouts :
           c # d /\ stage[c] = "out" /\ stage[d] = "out" => claim[c] \cap claim[d] = {}
    /\ \A e \in Equipment :
           e \in away <=> \E c \in Checkouts : stage[c] = "out" /\ e \in claim[c]

LEMMA TypeStep == TypeOK /\ [Next]_vars => TypeOK'
<1> SUFFICES ASSUME TypeOK, [Next]_vars
             PROVE  TypeOK'
  OBVIOUS
<1>1. CASE UNCHANGED vars
  BY <1>1 DEF TypeOK, vars
<1>2. ASSUME NEW c \in Checkouts, Ask(c)
      PROVE  TypeOK'
  BY <1>2 DEF TypeOK, Ask, Moves, Stages
<1>3. ASSUME NEW c \in Checkouts,
             Agree(c) \/ TakeBack(c) \/ Refuse(c) \/ Settle(c)
      PROVE  TypeOK'
  BY <1>3 DEF TypeOK, Agree, TakeBack, Refuse, Settle, Moves, Stages
<1>4. ASSUME NEW c \in Checkouts, HandOver(c) \/ HandBack(c) \/ Dispute(c)
      PROVE  TypeOK'
  BY <1>4 DEF TypeOK, HandOver, HandBack, Dispute, Moves, Stages
<1> QED
  BY <1>1, <1>2, <1>3, <1>4 DEF Next

LEMMA OneHolderStep == TypeOK /\ OneHolder /\ [Next]_vars => OneHolder'
<1> SUFFICES ASSUME TypeOK, OneHolder, [Next]_vars
             PROVE  OneHolder'
  OBVIOUS
<1>1. CASE UNCHANGED vars
  BY <1>1 DEF OneHolder, vars
<1>2. ASSUME NEW c \in Checkouts, Ask(c)
      PROVE  OneHolder'
  BY <1>2 DEF TypeOK, OneHolder, Ask, Moves
<1>3. ASSUME NEW c \in Checkouts,
             Agree(c) \/ TakeBack(c) \/ Refuse(c) \/ Settle(c)
      PROVE  OneHolder'
  BY <1>3 DEF TypeOK, OneHolder, Agree, TakeBack, Refuse, Settle, Moves
<1>4. ASSUME NEW c \in Checkouts, HandOver(c) \/ Dispute(c)
      PROVE  OneHolder'
  <2>1. /\ stage' = [stage EXCEPT ![c] = "out"]
        /\ stage[c] # "out"
        /\ claim[c] \cap away = {}
        /\ away' = away \cup claim[c]
        /\ claim' = claim
    BY <1>4 DEF HandOver, Dispute, Moves
  <2>2. \A d \in Checkouts : stage[d] = "out" => claim[c] \cap claim[d] = {}
    BY <2>1 DEF TypeOK, OneHolder
  <2> QED
    BY <2>1, <2>2 DEF TypeOK, OneHolder
<1>5. ASSUME NEW c \in Checkouts, HandBack(c)
      PROVE  OneHolder'
  <2>1. /\ stage[c] = "out"
        /\ stage'[c] # "out"
        /\ \A d \in Checkouts \ {c} : stage'[d] = stage[d]
        /\ away' = away \ claim[c]
        /\ claim' = claim
    BY <1>5 DEF TypeOK, HandBack, Moves
  <2> QED
    BY <2>1 DEF TypeOK, OneHolder
<1> QED
  BY <1>1, <1>2, <1>3, <1>4, <1>5 DEF Next

\* Equipment is with one checkout at a time, and away exactly while it is.
THEOREM OneAtATime == Spec => [](TypeOK /\ OneHolder)
<1>1. Init => TypeOK /\ OneHolder
  BY DEF Init, TypeOK, OneHolder, Stages
<1> QED
  BY <1>1, TypeStep, OneHolderStep, PTL DEF Spec

=============================================================================
