----------------------- MODULE TargetAuthorizationProofs -----------------------
(***************************************************************************)
(* The target check against what a list of authorized targets means, for   *)
(* every list and every set of schemes, hosts and ports.                   *)
(***************************************************************************)
EXTENDS TargetAuthorization, FiniteSetTheorems, WellFoundedInduction, TLAPS

\* A set of positions has a first one: of the intervals 0..i that end in it below some
\* member, one is minimal, since strict inclusion of finite sets is well-founded.
LEMMA FirstExists ==
  ASSUME NEW S \in SUBSET Nat, S # {}
  PROVE  First(S) \in S /\ \A j \in S : First(S) <= j
<1>1. PICK s \in S : TRUE
  OBVIOUS
<1> DEFINE Below == {j \in S : j <= s}
           Intervals == {0..j : j \in Below}
           Inside == StrictSubsetOrdering(0..s)
<1>2. IsWellFoundedOn(Inside, SUBSET (0..s))
  <2>1. IsFiniteSet(0..s)
    BY FS_Interval
  <2>2. FiniteSubsetsOf(0..s) = SUBSET (0..s)
    BY <2>1, FS_FiniteSubsetsOfFinite
  <2>3. IsWellFoundedOn(Inside, FiniteSubsetsOf(0..s))
    BY FS_StrictSubsetOrderingWellFounded
  <2>4. QED
    BY <2>2, <2>3
<1>3. Intervals \subseteq SUBSET (0..s) /\ Intervals # {}
  BY <1>1
<1>4. PICK least \in Intervals : \A other \in Intervals : <<other, least>> \notin Inside
  <2> HIDE DEF Intervals, Inside
  <2>1. QED
    BY <1>2, <1>3, WFMin
<1>5. PICK i \in Below : least = 0..i
  BY <1>4
<1>6. ASSUME NEW j \in S, j < i
      PROVE  FALSE
  <2>1. j \in Below
    BY <1>6, <1>1
  <2>2. 0..j \in Intervals
    BY <2>1
  <2>3. i \in 0..i /\ i \notin 0..j /\ 0..j \subseteq 0..i /\ 0..i \subseteq 0..s
    BY <1>6, <1>1
  <2>4. 0..j # 0..i
    BY <2>3
  <2>5. <<0..j, 0..i>> \in Inside
    BY <2>3, <2>4 DEF StrictSubsetOrdering
  <2>6. QED
    BY <2>2, <2>5, <1>4, <1>5
<1>7. \A j \in S : i <= j
  BY <1>6
<1>8. QED
  BY <1>7 DEF First

\* What one turn of the loop decides.
LEMMA Judgement ==
  ASSUME NEW e, NEW target, NEW development
  PROVE  /\ Judge(e, target, development) \in {"yes", "raise", "next"}
         /\ Judge(e, target, development) = "yes"
              <=> SameSite(e, target) /\ Admits(e, target, development)
         /\ Judge(e, target, development) = "raise" => Malformed(e)
BY DEF Judge, Malformed

\* The loop ends at an entry of the list, if an entry is decisive.
LEMMA LoopEnds ==
  ASSUME NEW list \in Seq(Entry), NEW target, NEW development,
         Decisive(list, target, development) # {}
  PROVE  /\ First(Decisive(list, target, development)) \in DOMAIN list
         /\ list[First(Decisive(list, target, development))] \in Entry
         /\ Judge(list[First(Decisive(list, target, development))], target, development) # "next"
<1> DEFINE D == Decisive(list, target, development)
<1>1. D \in SUBSET Nat
  BY DEF Decisive
<1>2. First(D) \in D
  BY <1>1, FirstExists
<1>3. QED
  BY <1>2 DEF Decisive

\* An entry that admits a target covers it: the ports are equal as they stand, or the entry
\* is a loopback host in development.
LEMMA AdmittedIsCovered ==
  ASSUME NEW e, NEW target, NEW development, SameSite(e, target), Admits(e, target, development)
  PROVE  Covers(e, target, development)
BY DEF SameSite, Admits, Covers, PortOf

\* An entry that covers a target admits it, unless it spells out the default port: the
\* target never does.
LEMMA CoveredIsAdmitted ==
  ASSUME NEW e \in Entry, NEW target \in TargetUrl, NEW development,
         Covers(e, target, development), ~SpellsDefault(e), ~Malformed(e)
  PROVE  SameSite(e, target) /\ Admits(e, target, development)
<1>1. e.scheme = target.scheme /\ e.port # DefaultPort[e.scheme] /\ target.port # DefaultPort[e.scheme]
  BY DEF Covers, SameSite, SpellsDefault, TargetUrl
<1>2. CASE development /\ e.host \in Loopback
  BY <1>2 DEF Covers, Admits
<1>3. CASE PortOf(e) = PortOf(target)
  BY <1>1, <1>3 DEF Covers, Admits, PortOf
<1>4. QED
  BY <1>2, <1>3 DEF Covers

\* campaign_service.py:160, _is_authorized_target authorizes nothing the list does not: a
\* target it accepts is covered by an entry.
THEOREM AcceptedIsCovered ==
  ASSUME NEW list \in Seq(Entry), NEW target, NEW development,
         IsAuthorizedTarget(list, target, development) = "yes"
  PROVE  \E i \in DOMAIN list : Covers(list[i], target, development)
<1> DEFINE i == First(Decisive(list, target, development))
<1>1. Decisive(list, target, development) # {}
  BY DEF IsAuthorizedTarget
<1>2. Judge(list[i], target, development) = "yes"
  BY <1>1 DEF IsAuthorizedTarget
<1>3. SameSite(list[i], target) /\ Admits(list[i], target, development)
  BY <1>2, Judgement
<1>4. Covers(list[i], target, development)
  BY <1>3, AdmittedIsCovered
<1>5. QED
  BY <1>1, <1>4, LoopEnds

\* It refuses nothing the list authorizes, if every entry is well formed and none spells
\* out the default port of its scheme.
THEOREM CoveredIsAccepted ==
  ASSUME NEW list \in Seq(Entry), NEW target \in TargetUrl, NEW development,
         \A i \in DOMAIN list : ~Malformed(list[i]) /\ ~SpellsDefault(list[i]),
         NEW c \in DOMAIN list, Covers(list[c], target, development)
  PROVE  IsAuthorizedTarget(list, target, development) = "yes"
<1> DEFINE i == First(Decisive(list, target, development))
<1>1. list[c] \in Entry
  OBVIOUS
<1>2. SameSite(list[c], target) /\ Admits(list[c], target, development)
  BY <1>1, CoveredIsAdmitted
<1>3. Judge(list[c], target, development) = "yes"
  BY <1>2, Judgement
<1>4. Decisive(list, target, development) # {}
  BY <1>3 DEF Decisive
<1>5. i \in DOMAIN list /\ Judge(list[i], target, development) # "next"
  BY <1>4, LoopEnds
<1>6. Judge(list[i], target, development) # "raise"
  BY <1>5, Judgement
<1>7. Judge(list[i], target, development) = "yes"
  BY <1>5, <1>6, Judgement
<1>8. QED
  BY <1>4, <1>7 DEF IsAuthorizedTarget
=============================================================================
