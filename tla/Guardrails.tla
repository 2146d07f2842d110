----------------------------- MODULE Guardrails -----------------------------
(***************************************************************************)
(* verify_findings and structural_confidence (agents/guardrails.py), and   *)
(* what the recipes do to the LLM's answers before and after them.  A      *)
(* finding is its citation and whether its text claims a syntax error or   *)
(* contains a banned phrase.  Confidences are percentages.                 *)
(***************************************************************************)
EXTENDS IndexViews, Selection

CONSTANTS
  LinesOf,  \* line_count of a content
  Parses    \* contents ast.parse accepts

\* A finding of the LLM and a milestone it proposes.
Finding == [file : File, line : Nat, syntax : BOOLEAN, banned : BOOLEAN]
Milestone == [cites : Seq(Nat), confidence : 0..100]

ASSUME GuardrailsAssumption ==
  LinesOf \in [Content -> Nat] /\ Parses \subseteq Content

\* _file_parses_cleanly
ParsesCleanly(f, c) == f.suffix # "py" \/ c \in Parses

\* _line_in_diff_ranges
InDiffRanges(x, hunks) ==
  \E i \in DOMAIN hunks :
    /\ hunks[i].file = x.file
    /\ \E k \in DOMAIN hunks[i].ranges :
         LET r == hunks[i].ranges[k]
         IN r.start <= x.line /\ x.line <= RangeEnd(r)

\* Mutant of Survives: the line test looks at the diff only.
SurvivesInDiff(x, hunks) ==
  /\ table[x.file] # None
  /\ InDiffRanges(x, hunks)
  /\ x.syntax => ~ParsesCleanly(x.file, table[x.file].content)
  /\ ~x.banned

\* The four guardrails, against the index as it is now.
Survives(x, hunks) ==
  /\ table[x.file] # None
  /\ x.line <= LinesOf[table[x.file].content] \/ InDiffRanges(x, hunks)
  /\ x.syntax => ~ParsesCleanly(x.file, table[x.file].content)
  /\ ~x.banned

\* _convert_findings: no finding without a citation.
Cited(findings) == KeptAt(findings, {k \in DOMAIN findings : findings[k].line > 0})

\* verify_findings
Verified(findings, hunks) ==
  KeptAt(findings, {k \in DOMAIN findings : Survives(findings[k], hunks)})

\* Mutant of Blended: the edge case is tested on the findings that are left.
BlendedByKept(original, kept, llm) ==
  IF kept = 0 THEN llm ELSE Max({10, Min({100, (llm * kept) \div original})})

\* structural_confidence
Blended(original, kept, llm) ==
  IF original = 0 THEN llm ELSE Max({10, Min({100, (llm * kept) \div original})})

\* _convert_milestones: indices out of range go, and milestones without any.
Milestones(proposed, n) ==
  LET Inside(m) == KeptAt(m.cites, {i \in DOMAIN m.cites : m.cites[i] < n})
      kept == KeptAt(proposed, {k \in DOMAIN proposed : Inside(proposed[k]) # <<>>})
  IN [k \in DOMAIN kept |-> [kept[k] EXCEPT !.cites = Inside(kept[k])]]

\* _overall_confidence
OverallConfidence(findings, milestones) ==
  IF milestones = <<>> THEN IF findings = <<>> THEN 30 ELSE 50
  ELSE Total([k \in DOMAIN milestones |-> milestones[k].confidence])
         \div Len(milestones)
=============================================================================
