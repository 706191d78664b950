----------------------------- MODULE PathRules -----------------------------
(***************************************************************************)
(* The path rules of a secret connection: one rule, checked, expanded for a *)
(* stack and matched with a path.  The matching of a segment is the loop of *)
(* globSegment, one iteration per step.  A character is one of id           *)
(* characters "a" and "-", "_", "*", "%" for those checkChars refuses, and  *)
(* "{stack}", which the code handles as one token too.                      *)
(***************************************************************************)
EXTENDS Naturals, Sequences, SequencesExt

CONSTANTS StackId,     \* ids of stacks, as sequences of characters
          RuleInput,   \* rules an administrator types: sequences of segments
          PathInput    \* paths a reference names, {stack} already replaced

IdChar == {"a", "-"}
Stack == "{stack}"

VARIABLES rule,      \* the rule as typed
          stackId,   \* the stack that deploys
          path,      \* the path it asks for
          want,      \* the rule expanded for the stack
          rulePc,    \* "parse", "match", "refused", "allowed" or "denied"
          seg,       \* the segment being matched
          px, sx,    \* positions in pattern and segment
          star, mark \* the last * seen and what it has swallowed so far

ruleVars == <<rule, stackId, path, want, rulePc, seg, px, sx, star, mark>>

-----------------------------------------------------------------------------
(* Parsing and expanding.                                                   *)

(* stackIDRe                                                                *)
PlainId(id) == id # <<>> /\ id[1] = "a" /\ \A i \in DOMAIN id : id[i] \in IdChar

(* Slip: an id may be followed by anything.                                 *)
FollowedByAny(s) == TRUE

(* What may follow {stack} in its segment: "_", which no id contains.       *)
Followed(s) == \A i \in DOMAIN s : s[i] = Stack => i = Len(s) \/ s[i + 1] = "_"

CheckSegment(s) ==
    /\ s # <<>>
    /\ \A i \in 1 .. Len(s) - 1 : ~ (s[i] = "*" /\ s[i + 1] = "*")
    /\ Followed(s)
    /\ \A i \in DOMAIN s : s[i] # "%"

CheckRule(r) == (\A i \in DOMAIN r : CheckSegment(r[i])) /\ \E i \in DOMAIN r : r[i] # <<"*">>

ExpandSegment(s, id) ==
    FoldLeft(LAMBDA done, c : done \o (IF c = Stack THEN id ELSE <<c>>), <<>>, s)

ExpandRules(r, id) == [i \in DOMAIN r |-> ExpandSegment(r[i], id)]

(* ParseRules refuses the rule, ExpandRules the id: no rule is left.  A rule *)
(* longer than the path is passed over.                                     *)
Parse ==
    /\ rulePc = "parse"
    /\ rulePc' = IF ~ CheckRule(rule) THEN "refused"
                 ELSE IF ~ PlainId(stackId) \/ Len(path) < Len(rule) THEN "denied" ELSE "match"
    /\ want' = IF rulePc' = "match" THEN ExpandRules(rule, stackId) ELSE <<>>
    /\ UNCHANGED <<rule, stackId, path, seg, px, sx, star, mark>>

-----------------------------------------------------------------------------
(* RuleAllowed and globSegment.  Positions count from 1; star is 0 when no  *)
(* star has been seen.                                                      *)

Pattern == want[seg]
Text == path[seg]
Scanning == rulePc = "match" /\ sx <= Len(Text)
PatternAt(c) == px <= Len(Pattern) /\ Pattern[px] = c

StarSeen ==
    /\ Scanning /\ PatternAt("*")
    /\ star' = px /\ mark' = sx /\ px' = px + 1
    /\ UNCHANGED <<rule, stackId, path, want, rulePc, seg, sx>>

SameCharacter ==
    /\ Scanning /\ ~ PatternAt("*") /\ PatternAt(Text[sx])
    /\ px' = px + 1 /\ sx' = sx + 1
    /\ UNCHANGED <<rule, stackId, path, want, rulePc, seg, star, mark>>

Stuck == Scanning /\ ~ PatternAt("*") /\ ~ PatternAt(Text[sx])

(* Back to the last star, which swallows one character more.                *)
BackUp ==
    /\ Stuck /\ star > 0
    /\ px' = star + 1 /\ mark' = mark + 1 /\ sx' = mark + 1
    /\ UNCHANGED <<rule, stackId, path, want, rulePc, seg, star>>

NoStarLeft ==
    /\ Stuck /\ star = 0
    /\ rulePc' = "denied"
    /\ UNCHANGED <<rule, stackId, path, want, seg, px, sx, star, mark>>

OnlyStarsLeft == \A i \in px .. Len(Pattern) : Pattern[i] = "*"

(* The segment is used up: it matches when the pattern is too, stars aside. *)
SegmentDone ==
    /\ rulePc = "match" /\ sx > Len(Text)
    /\ rulePc' = IF ~ OnlyStarsLeft THEN "denied"
                 ELSE IF seg = Len(want) THEN "allowed" ELSE "match"
    /\ IF rulePc' = "match"
       THEN seg' = seg + 1 /\ px' = 1 /\ sx' = 1 /\ star' = 0 /\ mark' = 0
       ELSE UNCHANGED <<seg, px, sx, star, mark>>
    /\ UNCHANGED <<rule, stackId, path, want>>

RuleInit ==
    /\ rule \in RuleInput /\ stackId \in StackId /\ path \in PathInput
    /\ want = <<>> /\ rulePc = "parse"
    /\ seg = 1 /\ px = 1 /\ sx = 1 /\ star = 0 /\ mark = 0

RuleNext == Parse \/ StarSeen \/ SameCharacter \/ BackUp \/ NoStarLeft \/ SegmentDone

RuleSpec == RuleInit /\ [][RuleNext]_ruleVars

-----------------------------------------------------------------------------
(* Properties.                                                              *)

(* What a pattern means: each * stands for some run of characters.          *)
RECURSIVE Matches(_, _)
Matches(p, s) ==
    IF p = <<>> THEN s = <<>>
    ELSE IF Head(p) = "*" THEN \E n \in 0 .. Len(s) : Matches(Tail(p), SubSeq(s, n + 1, Len(s)))
    ELSE s # <<>> /\ Head(s) = Head(p) /\ Matches(Tail(p), Tail(s))

(* The stack a segment belongs to: what comes before its first "_".         *)
Owner(s) ==
    LET cut == {i \in DOMAIN s : s[i] = "_"} IN
    IF cut = {} THEN s ELSE SubSeq(s, 1, (CHOOSE i \in cut : \A k \in cut : i <= k) - 1)

(* RuleAllowed, with globSegment's backing up, allows a path exactly when   *)
(* each segment of the rule matches the path's; and the rules checkRule     *)
(* lets through keep stacks apart: where a segment of the rule starts with  *)
(* {stack}, the path's segment is that stack's ("{stack}_" is unambiguous), *)
(* so no two stacks are allowed the same path by such a rule.  This is all  *)
(* it says: checkRule lets a star stand before {stack} too, and *{stack}    *)
(* gives the stack a the path a-a, which is another stack's id.             *)
RulesKeepStacksApart ==
    /\ rulePc \in {"allowed", "denied"} /\ want # <<>> =>
          ((rulePc = "allowed") <=> \A i \in DOMAIN want : Matches(want[i], path[i]))
    /\ rulePc = "allowed" =>
          /\ PlainId(stackId)
          /\ \A i \in DOMAIN rule : rule[i][1] = Stack => Owner(path[i]) = stackId
=============================================================================
