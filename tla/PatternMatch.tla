---------------------------- MODULE PatternMatch ----------------------------
(***************************************************************************)
(* How a configured pattern is matched against a model id (order.go).  The *)
(* listing rules take the result as the constant Hits; this module says    *)
(* what the code computes for one pattern and one id, both folded already  *)
(* where case is ignored, and compares it with what the syntax denotes.    *)
(*                                                                         *)
(* The behaviour spells pairs of a pattern and an id symbol by symbol, so  *)
(* that every pair up to the bounds is a state.                            *)
(***************************************************************************)
EXTENDS Subsequences, SequencesExt

CONSTANTS
    Letters,        \* what ids consist of
    Star,           \* the wildcard
    PatternBound,   \* bound: the longest pattern spelled
    IdBound         \* bound: the longest id spelled

ASSUME MatchConstants ==
    /\ Star \notin Letters
    /\ PatternBound \in Nat
    /\ IdBound \in Nat

Lost == -1

-----------------------------------------------------------------------------
(* strings.Index, strings.Contains and strings.Split(_, "*").              *)

Occurrences(seg, id, from) ==
    {at \in from .. Len(id) - Len(seg) : SubSeq(id, at + 1, at + Len(seg)) = seg}

Index(seg, id, from) ==
    IF Occurrences(seg, id, from) = {} THEN Lost ELSE Min(Occurrences(seg, id, from))

Stars(pattern) == {i \in DOMAIN pattern : pattern[i] = Star}

(* The position of the k-th wildcard, and those of two more in front of    *)
(* the pattern and after it.                                               *)
Cut(pattern, k) ==
    IF k = 0 THEN 0
    ELSE IF k > Cardinality(Stars(pattern)) THEN Len(pattern) + 1
    ELSE Nth(Stars(pattern), k)

Split(pattern) ==
    [k \in 1 .. Cardinality(Stars(pattern)) + 1 |->
        SubSeq(pattern, Cut(pattern, k - 1) + 1, Cut(pattern, k) - 1)]

-----------------------------------------------------------------------------
(* Compiling a pattern.                                                    *)

Dropped == [kind |-> "dropped", segs |-> <<>>]
Matcher(kind, segs) == [kind |-> kind, segs |-> segs]

EndsIn(pattern) == IsSuffix(<<Star>>, pattern)
StartsWith(pattern) == IsPrefix(<<Star>>, pattern)

(* Mutant: the wildcards in front of a trailing one are not counted.       *)
ClassifyByEnds(pattern) ==
    LET n == Cardinality(Stars(pattern))
    IN  CASE pattern \in {<<>>, <<Star>>, <<Star, Star>>} -> Dropped
          [] n = 0 /\ pattern # <<>>      -> Matcher("exact", <<pattern>>)
          [] n > 0 /\ Len(pattern) > 1 /\ EndsIn(pattern) /\ ~StartsWith(pattern)
                                          -> Matcher("prefix", <<Front(pattern)>>)
          [] OTHER                        -> Matcher("glob", Split(pattern))

(* compileMatchers and classify: a blank pattern, a bare wildcard and a    *)
(* double one are dropped.                                                 *)
Classify(pattern) ==
    LET n == Cardinality(Stars(pattern))
        double == n = 2 /\ StartsWith(pattern) /\ EndsIn(pattern)
    IN  CASE pattern \in {<<>>, <<Star>>, <<Star, Star>>} -> Dropped
          [] n = 0 /\ pattern # <<>>      -> Matcher("exact", <<pattern>>)
          [] n = 1 /\ Len(pattern) > 1 /\ EndsIn(pattern)
                                          -> Matcher("prefix", <<Front(pattern)>>)
          [] n = 1 /\ Len(pattern) > 1 /\ StartsWith(pattern)
                                          -> Matcher("suffix", <<Tail(pattern)>>)
          [] double /\ Len(pattern) > 2   -> Matcher("contains", <<Tail(Front(pattern))>>)
          [] OTHER                        -> Matcher("glob", Split(pattern))

-----------------------------------------------------------------------------
(* Matching.                                                               *)

(* Mutant: the last segment may be followed by anything.                   *)
GlobMatchUnanchored(segs, id) ==
    LET end[i \in 0 .. Len(segs)] ==
          IF i = 0 THEN 0
          ELSE IF end[i - 1] = Lost \/ segs[i] = <<>> THEN end[i - 1]
          ELSE LET at == Index(segs[i], id, end[i - 1])
               IN  IF at = Lost \/ (i = 1 /\ at # 0) THEN Lost ELSE at + Len(segs[i])
    IN  end[Len(segs)] # Lost

(* Consumed(segs, id)[i] is how much of the id the first i segments take.  *)
(* Each takes its first occurrence in the rest, the last one too.          *)
Consumed(segs, id) ==
    LET end[i \in 0 .. Len(segs)] ==
          IF i = 0 THEN 0
          ELSE IF end[i - 1] = Lost \/ segs[i] = <<>> THEN end[i - 1]
          ELSE LET at == Index(segs[i], id, end[i - 1])
               IN  IF \/ at = Lost
                      \/ i = 1 /\ at # 0
                      \/ i = Len(segs) /\ at + Len(segs[i]) # Len(id)
                   THEN Lost
                   ELSE at + Len(segs[i])
    IN  end

GlobMatch(segs, id) == Consumed(segs, id)[Len(segs)] # Lost

Match(matcher, id) ==
    CASE matcher.kind = "dropped"  -> FALSE
      [] matcher.kind = "exact"    -> id = matcher.segs[1]
      [] matcher.kind = "prefix"   -> IsPrefix(matcher.segs[1], id)
      [] matcher.kind = "suffix"   -> IsSuffix(matcher.segs[1], id)
      [] matcher.kind = "contains" -> Occurrences(matcher.segs[1], id, 0) # {}
      [] matcher.kind = "glob"     -> GlobMatch(matcher.segs, id)

-----------------------------------------------------------------------------
(* What a pattern denotes: each letter stands for itself and a wildcard    *)
(* for any run of letters.                                                 *)

(* Covered(pattern, id)[i] holds the lengths of the prefixes of the id that *)
(* the first i symbols of the pattern can stand for.                       *)
Covered(pattern, id) ==
    LET covers[i \in 0 .. Len(pattern)] ==
          IF i = 0 THEN {0}
          ELSE IF pattern[i] = Star
               THEN {j \in 0 .. Len(id) : \E k \in covers[i - 1] : k <= j}
               ELSE {j \in 1 .. Len(id) : pattern[i] = id[j] /\ j - 1 \in covers[i - 1]}
    IN  covers

Denotes(pattern, id) == Len(id) \in Covered(pattern, id)[Len(pattern)]

-----------------------------------------------------------------------------
VARIABLES pattern, id
vars == <<pattern, id>>

Init == pattern = <<>> /\ id = <<>>

SpellPattern ==
    /\ Len(pattern) < PatternBound
    /\ \E symbol \in Letters \cup {Star} : pattern' = Append(pattern, symbol)
    /\ UNCHANGED id

SpellId ==
    /\ Len(id) < IdBound
    /\ \E letter \in Letters : id' = Append(id, letter)
    /\ UNCHANGED pattern

Next == SpellPattern \/ SpellId

Spec == Init /\ [][Next]_vars

-----------------------------------------------------------------------------
(* Properties.                                                             *)

Matches == Match(Classify(pattern), id)

(* The listing rules never apply to an id outside the pattern: no hidden   *)
(* shortcut of classify or globMatch widens it.  order.go:100-178.         *)
MatchesOnlyWhatItDenotes == Matches => Denotes(pattern, id)

(* A usable pattern misses no id it denotes, but for a general glob whose  *)
(* last segment occurs in the id before its end as well: the first         *)
(* occurrence of a segment is as good as any while something follows it,   *)
(* and the end of the id is found where nothing earlier looks like it.     *)
(* order.go:95-178.                                                        *)
OnlyRepeatedEndingsMiss ==
    LET matcher == Classify(pattern)
        ending  == Last(matcher.segs)
    IN  (/\ Denotes(pattern, id)
         /\ matcher.kind # "dropped"
         /\ matcher.kind = "glob" =>
               ending = <<>> \/ Occurrences(ending, id, 0) = {Len(id) - Len(ending)})
            => Matches

(* Claimed by order.go:95, "the cheapest matcher that is still faithful to *)
(* the pattern", by 151-152 and by panel.html:731, refuted: a usable       *)
(* pattern matches every id it denotes.                                    *)
GlobsAreFaithful ==
    (Classify(pattern).kind # "dropped" /\ Denotes(pattern, id)) => Matches
=============================================================================
