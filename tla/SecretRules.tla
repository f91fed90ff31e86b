----------------------------- MODULE SecretRules -----------------------------
(* The credentials found in what an analysis saw of a repository             *)
(* (detection/rules/secrets.rule.ts). A word [of |-> p, as |-> k] of a line    *)
(* is a text that pattern p matches: "secret"; "known", with a value of the    *)
(* brand's own; "loose", with a placeholder or a code reference for value;     *)
(* "opens" and "closes", the ends of a block that spans lines.                 *)
EXTENDS RepositoryContext

CONSTANTS MAX_MATCHES_PER_PATTERN,  \* 10
          MAX_ENTROPY_MATCHES,      \* 10
          MAX_REUSE_MATCHES         \* 20

ASSUME BudgetAssumption ==
  {MAX_MATCHES_PER_PATTERN, MAX_ENTROPY_MATCHES, MAX_REUSE_MATCHES} \subseteq Nat

\* A pattern: severity, confidence in percent, risk contribution.
P(severity, confidence, points) == [severity |-> severity, conf |-> confidence, points |-> points]

SECRET_PATTERNS ==
  [aws_access_key |-> P("critical", 95, 35), github_pat |-> P("critical", 95, 35),
   mongodb_uri |-> P("high", 90, 28), redis_uri |-> P("high", 88, 25),
   postgres_uri |-> P("high", 88, 26), mysql_uri |-> P("high", 85, 24),
   firebase_key |-> P("high", 85, 24), service_account |-> P("critical", 97, 38),
   gemini_key |-> P("critical", 95, 35), stripe_live |-> P("critical", 96, 36),
   slack_token |-> P("high", 90, 28), anthropic_key |-> P("high", 90, 28),
   openai_key |-> P("high", 85, 28), discord_bot |-> P("high", 75, 24),
   discord_webhook |-> P("high", 90, 26), telegram_token |-> P("high", 90, 28),
   twilio |-> P("high", 80, 24), sendgrid |-> P("high", 90, 26),
   jwt |-> P("medium", 78, 18), api_jwt_bearer |-> P("high", 85, 24),
   bearer_token |-> P("high", 80, 22), certificate |-> P("medium", 90, 15),
   ssh_private_key |-> P("critical", 98, 40), generic_api_token |-> P("high", 70, 22)]

\* The order in which the patterns are tried.
PatternOrder ==
  <<"aws_access_key", "github_pat", "mongodb_uri", "redis_uri", "postgres_uri", "mysql_uri",
    "firebase_key", "service_account", "gemini_key", "stripe_live", "slack_token",
    "anthropic_key", "openai_key", "discord_bot", "discord_webhook", "telegram_token",
    "twilio", "sendgrid", "jwt", "api_jwt_bearer", "bearer_token", "certificate",
    "ssh_private_key", "generic_api_token">>

SINGLE_LINE_INELIGIBLE_PATTERN_IDS == {"service_account", "certificate", "ssh_private_key"}
LOOSE_VALUE_PATTERN_IDS == {"generic_api_token", "bearer_token"}

Found(p, base, boosted, file, line) ==
  [rule |-> p, category |-> "exposed_secret",
   severity |-> IF boosted /\ base.severity = "medium" THEN "high" ELSE base.severity,
   conf |-> IF boosted THEN Min({99, base.conf + 5}) ELSE base.conf,
   points |-> IF boosted THEN Min({45, base.points + 6}) ELSE base.points,
   file |-> file, line |-> line]

\* Whether the pattern's expression matches the line by itself: a block does
\* only when it opens and closes there.
Matches(p, words) ==
  IF p \in SINGLE_LINE_INELIGIBLE_PATTERN_IDS
  THEN {[of |-> p, as |-> "opens"], [of |-> p, as |-> "closes"]} \subseteq words
  ELSE \E w \in words : w.of = p /\ w.as \in {"secret", "known", "loose"}

\* A placeholder or a piece of code in the place of a value is no match of the
\* patterns that take any value.
IsLooseSecretPatternNonMatch(p, words) ==
  p \in LOOSE_VALUE_PATTERN_IDS /\ [of |-> p, as |-> "loose"] \in words

Reported(p, words) == Matches(p, words) /\ ~IsLooseSecretPatternNonMatch(p, words)

\* The patterns that match one of the lines, in the order they are tried.
PatternsIn(lines) ==
  Those(PatternOrder, {i \in DOMAIN PatternOrder : \E words \in lines : Reported(PatternOrder[i], words)})

\* The haystacks line by line: [file, line, boost, words]. What is found in the
\* description has no file, what is found in the README has the README's.
LinesIn(h) == [n \in DOMAIN h.lines |->
                 [file |-> h.path, line |-> n, boost |-> h.boost, words |-> h.lines[n]]]
CollectHaystacks(ctx) ==
  FlattenSeq([k \in DOMAIN ctx.haystacks |-> LinesIn(ctx.haystacks[k])])

\* First pass: pattern by pattern, the lines of the sample until the cap.
MatchesOf(p, lines) ==
  LET hits == UpTo(Those(lines, {i \in DOMAIN lines : Reported(p, lines[i].words)}),
                   MAX_MATCHES_PER_PATTERN)
  IN [k \in DOMAIN hits |->
        Found(p, SECRET_PATTERNS[p], hits[k].boost, hits[k].file, hits[k].line)]

SampleMatches(ctx) ==
  LET lines == CollectHaystacks(ctx)
      patterns == PatternsIn({l.words : l \in ToSet(lines)})
  IN FlattenSeq([k \in DOMAIN patterns |-> MatchesOf(patterns[k], lines)])

Key(d) == <<d.file, d.line, d.rule>>

\* Mutant: each pass has a budget of its own.
CountedApart(results, sample, p) ==
  Cardinality({k \in DOMAIN results : results[k].rule = p})

\* The matches of a pattern so far, those of the first pass included. Headers
\* of private keys are not counted.
Counted(results, sample, p) ==
  Cardinality({k \in DOMAIN sample : sample[k].rule = p})
  + Cardinality({k \in DOMAIN results : results[k].rule = p /\ p # "ssh_private_key"})

\* Mutant: what the first pass reported is forgotten.
SeenHere(results, sample) == {Key(results[k]) : k \in DOMAIN results}

Seen(results, sample) ==
  {Key(results[k]) : k \in DOMAIN results}
  \cup {Key(sample[k]) : k \in {k \in DOMAIN sample : sample[k].file # 0}}

\* The second pass: the grepped lines of the whole tree, each for the header of
\* a private key and for every pattern that fits on a line.
HeaderOn(c) == Found("ssh_private_key", SECRET_PATTERNS["ssh_private_key"], FALSE, c.path, c.line)
MatchOn(c, p) == Found(p, SECRET_PATTERNS[p], c.boost, c.path, c.line)

TryHeader(c, results, sample) ==
  IF /\ [of |-> "ssh_private_key", as |-> "opens"] \in c.words
     /\ Key(HeaderOn(c)) \notin Seen(results, sample)
  THEN Append(results, HeaderOn(c)) ELSE results

TryPattern(c, results, sample, p) ==
  IF /\ p \notin SINGLE_LINE_INELIGIBLE_PATTERN_IDS
     /\ Key(MatchOn(c, p)) \notin Seen(results, sample)
     /\ Counted(results, sample, p) < MAX_MATCHES_PER_PATTERN
  THEN Append(results, MatchOn(c, p)) ELSE results

TryLine(c, results, sample) ==
  FoldLeft(LAMBDA found, p : TryPattern(c, found, sample, p),
           TryHeader(c, results, sample), PatternsIn({c.words}))

FindFullRepoSecretMatches(candidates, sample) ==
  FoldLeft(LAMBDA results, c : TryLine(c, results, sample), <<>>, candidates)

\* Third pass: values that look random, assigned to a name that sounds secret.
\* It is meant to be left out when a pattern matched, and never is.
EntropyMatches(ctx) ==
  LET lines == CollectHaystacks(ctx)
      hits == UpTo(Those(lines, {i \in DOMAIN lines :
                                   [of |-> "assignment", as |-> "secret"] \in lines[i].words}),
                   MAX_ENTROPY_MATCHES)
  IN [k \in DOMAIN hits |->
        Found("high_entropy", P("high", 65, 20), hits[k].boost, hits[k].file, hits[k].line)]

SecretDetectionRule(ctx) ==
  LET sample == SampleMatches(ctx)
  IN sample \o FindFullRepoSecretMatches(ctx.candidates, sample) \o EntropyMatches(ctx)

\* The values that are, by their hashes, among those known of the brand: a
\* placeholder too, if the brand's own code has it.  (A line counts once for a pattern.)
ReusesOf(p, lines, known) ==
  LET hits == UpTo(Those(lines, {i \in DOMAIN lines :
                                   /\ Matches(p, lines[i].words)
                                   /\ \E w \in lines[i].words : w.of = p /\ w \in known}),
                   MAX_REUSE_MATCHES)
  IN [k \in DOMAIN hits |->
        [rule |-> "credential-reuse", category |-> "credential_reuse", severity |-> "critical",
         conf |-> 99, points |-> 40, file |-> hits[k].file, line |-> hits[k].line]]

FindCredentialReuseMatches(ctx, known) ==
  LET lines == CollectHaystacks(ctx)
      patterns == Those(PatternOrder,
                        {i \in DOMAIN PatternOrder : \E w \in known : w.of = PatternOrder[i]})
  IN FlattenSeq([k \in DOMAIN patterns |-> ReusesOf(patterns[k], lines, known)])
=============================================================================
