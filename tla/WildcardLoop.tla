---------------------------- MODULE WildcardLoop ----------------------------
(***************************************************************************)
(* bm_wildcard_match (common/util.c): one pass over the topic that, when   *)
(* it is stuck, goes back to the last star and lets it swallow one letter  *)
(* more.  One action per branch of its loops.                              *)
(***************************************************************************)
EXTENDS Wildcard, Integers

CONSTANTS
    Letter,   \* letters of topics
    MaxStr,   \* bound: length of a topic
    MaxPat    \* bound: length of a pattern

WildcardAssumption ==
    /\ MaxStr \in Nat /\ MaxPat \in Nat
    /\ Letter \cap {Star, AnyOne} = {}

VARIABLES
    str, pat,      \* the arguments
    i, j,          \* position in str and in pat
    star_idx,      \* the last star met, -1 if none
    match_idx,     \* where that star ends
    pc             \* "match" and "skip": the two loops; "done"

vars == <<str, pat, i, j, star_idx, match_idx, pc>>

UpTo(S, n) == UNION {[1..k -> S] : k \in 0..n}

Init ==
    /\ str \in UpTo(Letter, MaxStr)
    /\ pat \in UpTo(Letter \cup {Star, AnyOne}, MaxPat)
    /\ i = 0 /\ j = 0 /\ star_idx = -1 /\ match_idx = 0
    /\ pc = "match"

InPat == j < Len(pat)
LetterFits == InPat /\ Fits(str[i + 1], pat[j + 1])
AtStar == InPat /\ pat[j + 1] = Star

Step ==
    /\ pc = "match" /\ i < Len(str) /\ LetterFits
    /\ i' = i + 1 /\ j' = j + 1
    /\ UNCHANGED <<str, pat, star_idx, match_idx, pc>>

MeetStar ==
    /\ pc = "match" /\ i < Len(str) /\ ~LetterFits /\ AtStar
    /\ star_idx' = j /\ j' = j + 1 /\ match_idx' = i
    /\ UNCHANGED <<str, pat, i, pc>>

\* Mutation of GoBack: the star swallows nothing more.
GoBackSame ==
    /\ pc = "match" /\ i < Len(str) /\ ~LetterFits /\ ~AtStar /\ star_idx # -1
    /\ j' = star_idx + 1 /\ i' = match_idx
    /\ UNCHANGED <<str, pat, star_idx, match_idx, pc>>

GoBack ==
    /\ pc = "match" /\ i < Len(str) /\ ~LetterFits /\ ~AtStar /\ star_idx # -1
    /\ j' = star_idx + 1 /\ match_idx' = match_idx + 1 /\ i' = match_idx + 1
    /\ UNCHANGED <<str, pat, star_idx, pc>>

TopicUsedUp ==
    /\ pc = "match" /\ i >= Len(str)
    /\ pc' = "skip"
    /\ UNCHANGED <<str, pat, i, j, star_idx, match_idx>>

NothingFits ==
    /\ pc = "match" /\ i < Len(str) /\ ~LetterFits /\ ~AtStar /\ star_idx = -1
    /\ pc' = "skip"
    /\ UNCHANGED <<str, pat, i, j, star_idx, match_idx>>

SkipStar ==
    /\ pc = "skip" /\ AtStar
    /\ j' = j + 1
    /\ UNCHANGED <<str, pat, i, star_idx, match_idx, pc>>

Return ==
    /\ pc = "skip" /\ ~AtStar
    /\ pc' = "done"
    /\ UNCHANGED <<str, pat, i, j, star_idx, match_idx>>

Next == Step \/ MeetStar \/ GoBack \/ TopicUsedUp \/ NothingFits \/ SkipStar
        \/ Return

Spec == Init /\ [][Next]_vars /\ WF_vars(Next)

\* What the function returns.
Result == j = Len(pat)

-----------------------------------------------------------------------------

\* bm_wildcard_match answers what Matches says, although it only ever
\* reconsiders the last star it met.
AnswersMatches == pc = "done" => (Result <=> Matches(str, pat))

\* Going back to a star never goes on for ever.
Terminates == <>(pc = "done")

=============================================================================
