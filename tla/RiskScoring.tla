----------------------------- MODULE RiskScoring -----------------------------
(* The score of a repository from what was detected                           *)
(* (detection/risk-scoring.service.ts, common/threat-classification.ts).       *)
EXTENDS ThreatRules

CREDENTIAL_EXPOSURE_CATEGORIES == {"exposed_secret", "credential_reuse"}
MALICIOUS_INTENT_CATEGORIES ==
  {"brand_impersonation", "phishing", "fake_apk", "malware", "content_reuse",
   "custom_keyword_match", "suspicious_destination", "confirmed_live"}

Categories(detections) == {detections[k].category : k \in DOMAIN detections}

ClassifyThreat(categories) ==
  LET classes == {c \in {"credential_exposure", "malicious_intent"} :
                    IF c = "credential_exposure"
                    THEN categories \cap CREDENTIAL_EXPOSURE_CATEGORIES # {}
                    ELSE categories \cap MALICIOUS_INTENT_CATEGORIES # {}}
  IN IF classes = {} THEN {"other"} ELSE classes

SeverityFromScore(score) ==
  CASE score >= 85 -> "critical" [] score >= 65 -> "high"
    [] score >= 40 -> "medium" [] OTHER -> "low"

\* 200 times the points a detection is worth by itself: its contribution,
\* between half and all of it by the confidence.
RawPoints(d) == d.points * (100 + d.conf)

\* The place of a detection among those of its rule, the strongest first.
RepeatRank(detections, k) ==
  Cardinality({i \in DOMAIN detections :
    /\ detections[i].rule = detections[k].rule
    /\ \/ RawPoints(detections[i]) > RawPoints(detections[k])
       \/ RawPoints(detections[i]) = RawPoints(detections[k]) /\ i < k})

\* Mutant: a repeat counts as much as the first.
Undecayed(raw, rank) == (raw + 100) \div 200

Power(b, n) == FoldLeft(LAMBDA x, i : x * b, 1, [i \in 1..n |-> i])

\* The points, times 0.6 for each stronger one of the same rule, rounded; from
\* the tenth on that is less than half a point, whatever the rule.
Decayed(raw, rank) ==
  LET x == raw * Power(3, rank)
      y == 200 * Power(5, rank)
  IN IF rank > 8 THEN 0 ELSE (2 * x + y) \div (2 * y)

Points(detections) ==
  FoldLeft(LAMBDA sum, k : sum + Decayed(RawPoints(detections[k]), RepeatRank(detections, k)),
           0, [k \in DOMAIN detections |-> k])

DiversityBonus(detections) ==
  CASE Cardinality(Categories(detections)) >= 3 -> 10
    [] Cardinality(Categories(detections)) = 2 -> 5
    [] OTHER -> 0

HasMaliciousIntentSignal(detections) ==
  Categories(detections) \cap MALICIOUS_INTENT_CATEGORIES # {}

\* Reputation and age, only where an intent makes them mean something. Stars
\* are organic when there is a fork to at least fifty of them.
Reputation(ctx) ==
  CASE ctx.stars >= 1000 -> IF ctx.forks * 50 >= ctx.stars THEN -12 ELSE 6
    [] ctx.stars <= 1 -> 6
    [] OTHER -> 0

Novelty(ctx) == IF ctx.age <= 14 THEN 8 ELSE 0

OperatorBonus(otherBrandsHit) ==
  IF otherBrandsHit > 0 THEN Min({20, 8 + 6 * otherBrandsHit}) ELSE 0

IdentityBonus(linkedIdentityOwners) ==
  IF linkedIdentityOwners > 0 THEN Min({30, 15 + 8 * linkedIdentityOwners}) ELSE 0

Calculate(detections, ctx, otherBrandsHit, linkedIdentityOwners) ==
  LET sum == Points(detections) + DiversityBonus(detections)
             + (IF HasMaliciousIntentSignal(detections) THEN Reputation(ctx) + Novelty(ctx) ELSE 0)
             + OperatorBonus(otherBrandsHit) + IdentityBonus(linkedIdentityOwners)
  IN Max({0, Min({100, sum})})
=============================================================================
