-------------------------- MODULE DailyRisk_proofs --------------------------
(***************************************************************************)
(* The daily loss for every set of equities: the tiers cover every equity, *)
(* the verdicts are monotone within one, and a deep loss is answered in    *)
(* all of them.                                                            *)
(***************************************************************************)
EXTENDS DailyRisk, TLAPS

First == DefaultRiskProfiles[1]
Second == DefaultRiskProfiles[2]
Third == DefaultRiskProfiles[3]

LEMMA ProfileFields ==
  /\ First.minEquity = 0 /\ First.maxEquity = 100000
  /\ First.caution = 50 /\ First.noNewPositions = 70 /\ First.globalPause = 100
  /\ Second.minEquity = 100000 /\ Second.maxEquity = 1000000
  /\ Second.caution = 30 /\ Second.noNewPositions = 50 /\ Second.globalPause = 70
  /\ Third.minEquity = 1000000 /\ Third.maxEquity = 0
  /\ Third.caution = 20 /\ Third.noNewPositions = 40 /\ Third.globalPause = 50
  /\ DOMAIN DefaultRiskProfiles = {1, 2, 3}
  BY DEF First, Second, Third, DefaultRiskProfiles, Profile

\* Exactly one tier covers an equity, so the order of the list does not matter.
LEMMA TierOfEquity ==
  ASSUME NEW e \in Nat
  PROVE  SelectRiskProfile(e) = IF e < 100000 THEN First ELSE IF e < 1000000 THEN Second ELSE Third
<1> DEFINE tiers == {i \in DOMAIN DefaultRiskProfiles : Covers(DefaultRiskProfiles[i], e)}
           best == CHOOSE i \in tiers : \A j \in tiers : i <= j
<1>1. SelectRiskProfile(e) = IF tiers = {} THEN Third ELSE DefaultRiskProfiles[best]
  BY DEF SelectRiskProfile, Third
<1>2. /\ Covers(First, e) <=> e < 100000
      /\ Covers(Second, e) <=> 100000 <= e /\ e < 1000000
      /\ Covers(Third, e) <=> 1000000 <= e
  BY ProfileFields DEF Covers
<1>3. tiers = {IF e < 100000 THEN 1 ELSE IF e < 1000000 THEN 2 ELSE 3}
  BY <1>2, ProfileFields DEF First, Second, Third
<1>4. best = IF e < 100000 THEN 1 ELSE IF e < 1000000 THEN 2 ELSE 3
  <2> DEFINE n == IF e < 100000 THEN 1 ELSE IF e < 1000000 THEN 2 ELSE 3
  <2>1. n \in tiers /\ \A j \in tiers : n <= j
    BY <1>3
  <2>2. best \in tiers
    BY <2>1
  <2> QED
    BY <1>3, <2>2
<1> QED
  BY <1>1, <1>3, <1>4 DEF First, Second, Third

Classes == {"normal", "degraded", "no_new_positions", "global_pause"}

LEMMA ClassOfLoss ==
  \A start, e, p : ClassifyDailyLoss(start, e, p) \in Classes
  BY DEF ClassifyDailyLoss, Classes

\* In one profile, less equity is never classified milder.
LEMMA ClassIsMonotone ==
  ASSUME NEW start \in Nat, NEW a \in Nat, NEW b \in Nat, a <= b,
         NEW p, p.caution \in Nat, p.noNewPositions \in Nat, p.globalPause \in Nat
  PROVE  Severity(ClassifyDailyLoss(start, a, p)) >= Severity(ClassifyDailyLoss(start, b, p))
<1>1. \A t \in Nat : LossReaches(start, b, t) => LossReaches(start, a, t)
  <2> SUFFICES ASSUME NEW t \in Nat, LossReaches(start, b, t) PROVE LossReaches(start, a, t)
    OBVIOUS
  <2>1. (start - a) * 1000 >= (start - b) * 1000
    OBVIOUS
  <2>2. t * start \in Nat
    OBVIOUS
  <2> QED
    BY <2>1, <2>2 DEF LossReaches
<1>2. /\ LossReaches(start, b, p.globalPause) => LossReaches(start, a, p.globalPause)
      /\ LossReaches(start, b, p.noNewPositions) => LossReaches(start, a, p.noNewPositions)
      /\ LossReaches(start, b, p.caution) => LossReaches(start, a, p.caution)
  BY <1>1
<1> QED
  BY <1>2 DEF ClassifyDailyLoss, Severity

\* Two equities of one tier have one profile.
LEMMA SameTierSameProfile ==
  ASSUME NEW a \in Nat, NEW b \in Nat, Tier(a) = Tier(b)
  PROVE  SelectRiskProfile(a) = SelectRiskProfile(b)
  BY TierOfEquity, ProfileFields DEF Tier

LEMMA ProfileIsNumeric ==
  ASSUME NEW e \in Nat
  PROVE  /\ SelectRiskProfile(e).caution \in Nat
         /\ SelectRiskProfile(e).noNewPositions \in 0..70
         /\ SelectRiskProfile(e).globalPause \in 0..100
  BY TierOfEquity, ProfileFields

LEMMA AccountEquityType ==
  \A e \in Nat : AccountEquity(e) \in Nat \ {0} /\ AccountEquity(e) >= InitialCash
  BY CashAssumption, EquitiesAssumption DEF AccountEquity

-----------------------------------------------------------------------------

LEMMA InitIInv == Init => IInv
  BY EquitiesAssumption, CashAssumption, DayAssumption
     DEF Init, IInv, TypeOK, JudgedFairly, Days

LEMMA DayBaselineType ==
  ASSUME IInv
  PROVE  DayBaseline \in Baselines /\ DayBaseline.day = day
<1>1. CASE HasBaseline
  BY <1>1 DEF DayBaseline, HasBaseline, IInv, TypeOK
<1>2. CASE ~HasBaseline
  BY <1>2, AccountEquityType DEF DayBaseline, IInv, TypeOK, Baselines
<1> QED
  BY <1>1, <1>2

LEMMA StepKeepsIInv == IInv /\ [Next]_vars => IInv'
<1> SUFFICES ASSUME IInv, [Next]_vars PROVE IInv'
  OBVIOUS
<1>1. CASE Iterate
  <2> DEFINE v == Judge(DayBaseline.value, AccountEquity(equity))
  <2>1. DayBaseline \in Baselines /\ DayBaseline.day = day
    BY DayBaselineType
  <2>2. v \in LossVerdicts
    BY ClassOfLoss DEF Judge, Classes, LossVerdicts, RiskVerdicts
  <2>3. judged' \in Judgements
    BY <1>1, <2>1, <2>2 DEF Iterate, Judgements, Baselines, IInv, TypeOK
  <2>4. TypeOK'
    BY <1>1, <2>1, <2>3 DEF Iterate, IInv, TypeOK
  <2>5. JudgedFairly'
    <3>1. /\ judged'.day = day /\ judged'.equity = equity /\ judged'.start = DayBaseline.value
          /\ judged'.verdict = v /\ baseline' = DayBaseline /\ day' = day
      BY <1>1 DEF Iterate
    <3>2. DayBaseline # None
      BY <2>1, NoneAssumption DEF Baselines, Days
    <3> QED
      BY <2>1, <3>1, <3>2 DEF JudgedFairly, IInv, TypeOK, Days
  <2> QED
    BY <2>4, <2>5 DEF IInv
<1>2. CASE Market
  BY <1>2, EquitiesAssumption DEF Market, IInv, TypeOK, JudgedFairly
<1>3. CASE Midnight
  <2>1. day' \in Days /\ day <= day'
    BY <1>3, DayAssumption DEF Midnight, IInv, TypeOK, Days
  <2> QED
    BY <1>3, <2>1 DEF Midnight, IInv, TypeOK, JudgedFairly, Days, Judgements
<1>4. CASE UNCHANGED vars
  BY <1>4 DEF vars, IInv, TypeOK, JudgedFairly
<1> QED
  BY <1>1, <1>2, <1>3, <1>4 DEF Next

THEOREM Invariance == Spec => []IInv
  BY InitIInv, StepKeepsIInv, PTL DEF Spec

\* Days, baselines and judgements keep their types; a baseline is positive, as
\* the division by it needs.
THEOREM TypeCorrect == Spec => []TypeOK
<1>1. IInv => TypeOK
  BY DEF IInv
<1> QED
  BY <1>1, Invariance, PTL

\* 7 and 10 per cent of the opening equity are answered in every tier.
THEOREM DeepLossesStop == Spec => []DeepLossStops
<1>1. IInv => DeepLossStops
  <2> SUFFICES ASSUME IInv, judged # None, judged.equity >= InitialCash
               PROVE  /\ LossReaches(judged.start, judged.equity, 70) => Severity(judged.verdict) >= 2
                      /\ LossReaches(judged.start, judged.equity, 100) => judged.verdict = "global_pause"
    BY DEF DeepLossStops
  <2> DEFINE s == judged.start
             e == judged.equity
             p == SelectRiskProfile(e)
  <2>1. s \in Nat /\ e \in Nat
    BY DEF IInv, TypeOK, Judgements
  <2>2. AccountEquity(e) = e
    BY <2>1, CashAssumption, EquitiesAssumption DEF AccountEquity
  <2>3. judged.verdict = ClassifyDailyLoss(s, e, p)
    BY <2>2 DEF IInv, JudgedFairly, Judge
  <2>4. /\ LossReaches(s, e, 70) => LossReaches(s, e, p.noNewPositions)
        /\ LossReaches(s, e, 100) => LossReaches(s, e, p.globalPause)
    <3>1. \A t \in 0..70 : t * s <= 70 * s
      BY <2>1
    <3>2. \A t \in 0..100 : t * s <= 100 * s
      BY <2>1
    <3>3. p.noNewPositions \in 0..70 /\ p.globalPause \in 0..100
      BY <2>1, ProfileIsNumeric
    <3>4. p.noNewPositions * s \in Nat /\ p.globalPause * s \in Nat
      BY <2>1, <3>3
    <3> QED
      BY <2>1, <3>1, <3>2, <3>3, <3>4 DEF LossReaches
  <2> QED
    BY <2>3, <2>4 DEF ClassifyDailyLoss, Severity
<1> QED
  BY <1>1, Invariance, PTL

\* The status never shows a milder state than the loop has judged.
THEOREM StatusIsConservative == Spec => []StatusNotMilder
<1>1. IInv => StatusNotMilder
  <2> SUFFICES ASSUME IInv, judged # None, judged.day = day, judged.equity = equity
               PROVE  Severity(StatusVerdict) >= Severity(judged.verdict)
    BY DEF StatusNotMilder
  <2>1. judged.start \in Nat /\ equity \in Nat
    BY DEF IInv, TypeOK, Judgements
  <2>2. StatusVerdict = Judge(judged.start, equity)
    BY DEF StatusVerdict, HasBaseline, IInv, JudgedFairly
  <2>3. judged.verdict = Judge(judged.start, AccountEquity(equity))
    BY DEF IInv, JudgedFairly
  <2>4. CASE equity > InitialCash
    <3>1. judged.verdict = StatusVerdict
      BY <2>2, <2>3, <2>4 DEF AccountEquity
    <3>2. Severity(StatusVerdict) \in Nat
      BY <2>2, ClassOfLoss DEF Judge, Classes, Severity
    <3> QED
      BY <3>1, <3>2
  <2>5. CASE ~(equity > InitialCash)
    <3>1. InitialCash \in Nat /\ equity <= InitialCash /\ AccountEquity(equity) = InitialCash
      BY <2>1, <2>5, CashAssumption, EquitiesAssumption DEF AccountEquity
    <3>2. SelectRiskProfile(equity) = First /\ SelectRiskProfile(InitialCash) = First
      BY <2>1, <3>1, TierOfEquity, CashAssumption
    <3>3. First.caution \in Nat /\ First.noNewPositions \in Nat /\ First.globalPause \in Nat
      BY ProfileFields
    <3>4. Severity(ClassifyDailyLoss(judged.start, equity, First))
            >= Severity(ClassifyDailyLoss(judged.start, InitialCash, First))
      BY <2>1, <3>1, <3>3, ClassIsMonotone
    <3> QED
      BY <2>2, <2>3, <3>1, <3>2, <3>4 DEF Judge
  <2> QED
    BY <2>4, <2>5
<1> QED
  BY <1>1, Invariance, PTL

\* On one day and in one tier, less equity is never judged milder.
THEOREM TiersNeverLoosen == Spec => SameTierNeverLoosens
<1>1. IInv /\ [Next]_vars =>
        [ShrunkSince(judged, judged') /\ SameTier(judged, judged') => NotMilder(judged, judged')]_vars
  <2> SUFFICES ASSUME IInv, Next, ShrunkSince(judged, judged'), SameTier(judged, judged')
               PROVE  NotMilder(judged, judged')
    OBVIOUS
  <2> DEFINE s == judged.start
  <2>1. /\ s \in Nat /\ judged.equity \in Nat
        /\ judged.verdict = Judge(s, AccountEquity(judged.equity))
        /\ baseline # None /\ baseline.day = judged.day /\ baseline.value = s
    BY DEF ShrunkSince, IInv, TypeOK, Judgements, JudgedFairly
  <2>2. CASE Iterate
    <3>1. judged'.day = day /\ judged'.equity = equity /\ equity \in Nat
      BY <2>2 DEF Iterate, IInv, TypeOK
    <3>2. DayBaseline = baseline
      BY <2>1, <3>1 DEF ShrunkSince, DayBaseline, HasBaseline
    <3>3. judged'.verdict = Judge(s, AccountEquity(equity))
      BY <2>1, <2>2, <3>2 DEF Iterate
    <3>4. /\ AccountEquity(equity) \in Nat /\ AccountEquity(judged.equity) \in Nat
          /\ AccountEquity(equity) <= AccountEquity(judged.equity)
      BY <2>1, <3>1, CashAssumption, EquitiesAssumption DEF ShrunkSince, AccountEquity
    <3>5. SelectRiskProfile(AccountEquity(equity)) = SelectRiskProfile(AccountEquity(judged.equity))
      BY <3>1, <3>4, SameTierSameProfile DEF SameTier
    <3>6. LET p == SelectRiskProfile(AccountEquity(equity))
          IN  p.caution \in Nat /\ p.noNewPositions \in Nat /\ p.globalPause \in Nat
      BY <3>4, ProfileIsNumeric
    <3> QED
      BY <2>1, <3>3, <3>4, <3>5, <3>6, ClassIsMonotone DEF NotMilder, Judge
  <2>3. CASE Market \/ Midnight
    <3>1. judged' = judged
      BY <2>3 DEF Market, Midnight
    <3>2. Severity(judged.verdict) \in Nat
      BY <2>1, ClassOfLoss DEF Judge, Classes, Severity
    <3> QED
      BY <3>1, <3>2 DEF NotMilder
  <2> QED
    BY <2>2, <2>3 DEF Next
<1> QED
  BY <1>1, Invariance, PTL DEF Spec, SameTierNeverLoosens
=============================================================================
