----------------------------- MODULE ThreatRules -----------------------------
(* The rules that look for impersonation, phishing, fake apps and malware     *)
(* (detection/rules/threat.rules.ts and destination.util.ts) and the engine   *)
(* that runs all of them (detection/detection.engine.ts). Words of "as" = "sent" *)
(* name a host that the line sends data to.                                       *)
EXTENDS SecretRules

CONSTANTS MAX_CUSTOM_KEYWORD_MATCHES,  \* 20
          MAX_DESTINATION_DETECTIONS   \* 5 (of at most 8 that are looked for)

ASSUME CapsAssumption == {MAX_CUSTOM_KEYWORD_MATCHES, MAX_DESTINATION_DETECTIONS} \subseteq Nat

WEAK_SUSPICIOUS_KEYWORDS == {"support", "mod", "clone"}
SUSPICIOUS_KEYWORDS ==
  WEAK_SUSPICIOUS_KEYWORDS \cup
  {"login", "verification", "wallet", "payment", "kyc", "trading", "apk", "cracked",
   "phishing", "bypass", "free money", "gift card", "otp", "2fa bypass"}
WEAK_PHISHING_TERMS == {"login page", "verify account"}
PHISHING_TERMS ==
  WEAK_PHISHING_TERMS \cup
  {"phishing", "phish", "otp bypass", "2fa bypass", "credential harvest", "fake login",
   "account recovery kit"}
MALWARE_TERMS == {"malware", "rat", "stealer", "keylogger", "botnet", "ransomware", "crypter",
                  "payload dropper"}
WEAK_MALWARE_TERMS == {"obfuscated"}
APK_HINTS == {".apk", "android", "apktool", "smali", "mod apk", "cracked apk"}

\* The terms that are words of another.
Within(t) ==
  CASE t \in {"login page", "fake login"} -> {"login"}
    [] t = "otp bypass" -> {"otp", "bypass"}
    [] t = "2fa bypass" -> {"bypass"}
    [] t = "mod apk" -> {"mod", "apk"}
    [] t = "cracked apk" -> {"cracked", "apk"}
    [] OTHER -> {}

Whole(text) ==
  text \cup {[of |-> t, as |-> "word"] : t \in UNION {Within(w.of) : w \in {w \in text : w.as = "word"}}}

\* Whether the text includes a term: as a word, or anywhere in it.
HasTerm(text, t) == MatchesWholeTerm(Whole(text), t)
Mentions(text, t) == Includes(Whole(text), t) \/ (t = "phish" /\ Includes(text, "phishing"))

FileLines(ctx) == LinesOf(ctx, "file")

TextBlob(ctx) ==
  ctx.name \cup ctx.description \cup UNION ctx.topics \cup UNION ctx.paths
  \cup UNION LinesOf(ctx, "readme") \cup UNION FileLines(ctx)
  \cup UNION {h.words : h \in ctx.brandHits}

\* A name of the brand occurs somewhere, in a longer word if need be.
BrandPresent(brand, ctx) ==
  \E a \in brand.names : Mentions(TextBlob(ctx), a)

Detected(rule, category, severity, conf, points) ==
  [rule |-> rule, category |-> category, severity |-> severity, conf |-> conf,
   points |-> points, file |-> 0, line |-> 0]

When(condition, detection) == IF condition THEN <<detection>> ELSE <<>>

\* The units that a brand and a term must share to be found together.
CollectProximityUnits(ctx) ==
  {ctx.name, ctx.description, UNION ctx.topics} \cup ctx.paths
  \cup LinesOf(ctx, "readme") \cup FileLines(ctx) \cup {h.words : h \in ctx.brandHits}

\* Mutant: the brand and the term may be anywhere in the repository.
WholeRepository(ctx) == {TextBlob(ctx)}

SuspiciousHits(brand, ctx) ==
  {k \in SUSPICIOUS_KEYWORDS :
     \E unit \in CollectProximityUnits(ctx) :
       HasTerm(unit, k) /\ \E a \in brand.names : MatchesWholeTerm(unit, a)}

BrandImpersonationRule(brand, ctx) ==
  IF brand = Nobody THEN <<>>
  ELSE LET hits == SuspiciousHits(brand, ctx)
           n == Cardinality(hits)
           ownerLooksOfficial == ctx.owner = brand.slug \/ ctx.stars >= 500
       IN When(/\ n > 0
               /\ n >= 2 \/ ~(hits \subseteq WEAK_SUSPICIOUS_KEYWORDS)
               /\ n >= 2 \/ ~ownerLooksOfficial,
               Detected("brand-impersonation", "brand_impersonation",
                        IF n >= 3 THEN "high" ELSE "medium",
                        Min({90, 55 + 10 * n}), 20 + Min({15, 4 * n})))

PhishingHits(ctx) == {t \in PHISHING_TERMS : Mentions(TextBlob(ctx), t)}

PhishingRule(brand, ctx) ==
  LET hits == PhishingHits(ctx)
      strength == Cardinality(hits) + IF BrandPresent(brand, ctx) THEN 1 ELSE 0
  IN When(/\ hits # {}
          /\ ~(hits \subseteq WEAK_PHISHING_TERMS) \/ strength >= 2,
          Detected("phishing-kit", "phishing", IF strength >= 2 THEN "critical" ELSE "high",
                   Min({92, 60 + 10 * strength}), 25 + Min({20, 6 * strength})))

HasApkFile(ctx) == "apk" \in ctx.kinds
ApkSignals(ctx) == {h \in APK_HINTS : Mentions(TextBlob(ctx), h)}

FakeApkRule(brand, ctx) ==
  When(BrandPresent(brand, ctx) /\ (ApkSignals(ctx) # {} \/ HasApkFile(ctx)),
       IF HasApkFile(ctx)
       THEN Detected("fake-apk", "fake_apk", "critical", 90, 32)
       ELSE Detected("fake-apk", "fake_apk", "high", 75, 24))

MalwareRule(ctx) ==
  LET hits == {t \in MALWARE_TERMS : Mentions(TextBlob(ctx), t)}
      weak == {t \in WEAK_MALWARE_TERMS : Mentions(TextBlob(ctx), t)}
      scripty == /\ "script" \in ctx.kinds
                 /\ \E t \in {"crack", "bypass", "payload"} : Mentions(TextBlob(ctx), t)
      n == Cardinality(hits \cup weak)
  IN When(hits # {} \/ scripty,
          Detected("malware-indicators", "malware",
                   IF n >= 2 \/ scripty THEN "critical" ELSE "high", 70, 28 + Min({12, 4 * n})))

LowReputationRule(brand, ctx) ==
  LET lowStars == ctx.stars <= 2
      newRepo == ctx.age <= 30
  IN When(BrandPresent(brand, ctx) /\ (lowStars \/ newRepo),
          Detected("low-reputation-new-repo", "suspicious_repo", "low", 55,
                   IF newRepo /\ lowStars THEN 12 ELSE 8))

\* The profile of the owner is "unknown" unless it was fetched.
SuspiciousOwnerAccountRule(brand, ctx) ==
  IF ctx.profile = "unknown" THEN <<>>
  ELSE When(BrandPresent(brand, ctx) /\ (ctx.profile \in {"new", "empty", "new and empty"}),
            IF ctx.profile = "new and empty"
            THEN Detected("suspicious-owner-account", "suspicious_repo", "medium", 70, 14)
            ELSE Detected("suspicious-owner-account", "suspicious_repo", "low", 50, 8))

\* Terms are looked for anywhere in a word here, and none of them is weak.
DisposablePhishingRepoRule(brand, ctx) ==
  LET signals == {s \in {"phishing", "apk", "impersonation"} :
                    CASE s = "phishing" -> PhishingHits(ctx) # {}
                      [] s = "apk" -> ApkSignals(ctx) # {} \/ HasApkFile(ctx)
                      [] s = "impersonation" ->
                           \E k \in SUSPICIOUS_KEYWORDS : Mentions(TextBlob(ctx), k)}
  IN When(/\ BrandPresent(brand, ctx)
          /\ ctx.stars = 0 /\ ctx.forks = 0 /\ ~ctx.fork /\ ctx.age <= 14
          /\ signals # {},
          Detected("disposable-phishing-repo", "phishing", "high",
                   Min({95, 75 + 7 * Cardinality(signals)}), 15))

\* The first line, of a file before one of the README, that runs what it decodes.
ObfuscationRule(ctx) ==
  When(\E text \in LinesOf(ctx, "readme") \cup FileLines(ctx) :
         [of |-> "encoded command", as |-> "word"] \in text,
       Detected("obfuscated-commands", "malware", "high", 80, 22))

\* A keyword that is one of the brand's names says nothing new.
CustomKeywordMatchRule(brand, ctx) ==
  IF brand = Nobody THEN <<>>
  ELSE LET keywords == Those(brand.keywords,
                             {i \in DOMAIN brand.keywords : brand.keywords[i] \notin brand.names})
           matches == FindKeywordMatches(keywords, ctx, MAX_CUSTOM_KEYWORD_MATCHES)
           Hit(e) == IF e.location \in STRONG_LOCATIONS \ {"owner"}
                     THEN Detected("custom-keyword-match", "custom_keyword_match", "medium", 75, 18)
                     ELSE Detected("custom-keyword-match", "custom_keyword_match", "low", 60, 12)
       IN [k \in DOMAIN matches |-> Hit(matches[k])]

\* The hosts that the README's and the files' lines send to, each once, but for
\* well-known infrastructure ("cdn") and the brand's own.
ExtractDataDestinations(brand, ctx) ==
  LET readings == {k \in DOMAIN ctx.haystacks : ctx.haystacks[k].source \in {"readme", "file"}}
      SentTo(k) == IF k \notin readings THEN {}
                   ELSE {w.of : w \in {w \in UNION ToSet(ctx.haystacks[k].lines) : w.as = "sent"}}
      own == {"cdn"} \cup (IF brand = Nobody THEN {} ELSE brand.hosts)
      New(k) == SentTo(k) \ (own \cup UNION {SentTo(j) : j \in 1..(k - 1)})
  IN UpTo(FlattenSeq([k \in DOMAIN ctx.haystacks |-> SetToSeq(New(k))]), 8)

SuspiciousDestinationRule(brand, ctx) ==
  IF brand = Nobody THEN <<>>
  ELSE LET hosts == UpTo(ExtractDataDestinations(brand, ctx), MAX_DESTINATION_DETECTIONS)
       IN [k \in DOMAIN hosts |->
             Detected("suspicious-destination", "suspicious_destination", "high", 70, 25)]

DeploymentSignalRule(brand, ctx) ==
  When(brand # Nobody /\ "deploy" \in ctx.kinds,
       Detected("deployment-signal", "suspicious_destination", "low", 50, 8))

-----------------------------------------------------------------------------
IMPERSONATION_ONLY_RULE_IDS ==
  {"brand-impersonation", "low-reputation-new-repo", "disposable-phishing-repo", "fake-apk",
   "custom-keyword-match", "suspicious-destination", "deployment-signal",
   "suspicious-owner-account"}

\* What was detected, but for the rules that are left out.
Without(detections, exclude) ==
  Those(detections, {k \in DOMAIN detections : detections[k].rule \notin exclude})

\* All that the rules report, none of it dropped for having the same rule.
Analyze(brand, ctx, exclude) ==
  Without(SecretDetectionRule(ctx) \o BrandImpersonationRule(brand, ctx)
          \o PhishingRule(brand, ctx) \o FakeApkRule(brand, ctx) \o MalwareRule(ctx)
          \o LowReputationRule(brand, ctx) \o ObfuscationRule(ctx)
          \o DisposablePhishingRepoRule(brand, ctx) \o CustomKeywordMatchRule(brand, ctx)
          \o SuspiciousDestinationRule(brand, ctx) \o DeploymentSignalRule(brand, ctx)
          \o SuspiciousOwnerAccountRule(brand, ctx), exclude)
=============================================================================
