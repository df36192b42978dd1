------------------------------ MODULE Wildcard ------------------------------
(***************************************************************************)
(* What bm_wildcard_match (common/util.c) is to decide, without saying how *)
(* it goes about it.  Topics and patterns are sequences of letters; in a   *)
(* pattern "*" stands for any run of letters and "?" for any one letter.   *)
(***************************************************************************)
EXTENDS Naturals, Sequences

Star   == "*"
AnyOne == "?"

Fits(letter, p) == p = AnyOne \/ p = letter

\* The pattern cuts the topic into one piece for each of its letters: cut[k] is
\* where the piece of pat[k] ends.
Glob(str, pat) ==
    \E cut \in [0..Len(pat) -> 0..Len(str)] :
        /\ cut[0] = 0 /\ cut[Len(pat)] = Len(str)
        /\ \A k \in 1..Len(pat) :
              IF pat[k] = Star THEN cut[k - 1] <= cut[k]
              ELSE cut[k] = cut[k - 1] + 1 /\ Fits(str[cut[k]], pat[k])

HasStar(pat) == \E k \in DOMAIN pat : pat[k] = Star

\* A pattern without a star need only match the beginning: "Subscribing to
\* "sensor" receives all sensor data" (test/src/pubsub_test.cpp).
Matches(str, pat) ==
    IF HasStar(pat) THEN Glob(str, pat)
    ELSE Len(pat) <= Len(str) /\ Glob(SubSeq(str, 1, Len(pat)), pat)

=============================================================================
