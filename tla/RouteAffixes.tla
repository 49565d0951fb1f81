---------------------------- MODULE RouteAffixes ----------------------------
(***************************************************************************)
(* The local-part affixes of src/route.c: route_check_prefix and           *)
(* route_check_suffix, and their use by route_address to strip a          *)
(* router's prefix and suffix.  No state of its own: RouteAddress uses it. *)
(*                                                                         *)
(* A local part is a sequence of characters (strings of length one); an    *)
(* affix list is a sequence of affixes, each a sequence of characters, a   *)
(* prefix beginning with "*" or a suffix ending with "*" being a wildcard. *)
(* The characters are lower-case, so strncmpic is equality.  A match is    *)
(* [found, len, v]: whether the scan returned, the length it returned    *)
(* (the caller takes 0 as no match) and the length of the wildcard part   *)
(* (vlen).                                                                 *)
(***************************************************************************)
EXTENDS Integers, Sequences, SequencesExt

NoMatch == [found |-> FALSE, len |-> 0, v |-> 0]
Hit(len, v) == [found |-> TRUE, len |-> len, v |-> v]

\* The positions p (0-based) at which t occurs in lp.
Occurrences(t, lp) == {p \in 0..(Len(lp) - Len(t)) : SubSeq(lp, p + 1, p + Len(t)) = t}

\* Mutant: the wildcard scan starts one position too far left (plen not
\* decremented for the "*"), so a fixed part at the very end is missed.
WildPrefix_offByOne(lp, t) ==
  LET hits == {p \in Occurrences(t, lp) : p < Len(lp) - Len(t)}
  IN IF hits = {} THEN NoMatch ELSE Hit(Len(t) + Max(hits), Max(hits))

\* A wildcard prefix "*t": the loop runs p down from the last position t
\* fits at, so the first hit is the rightmost occurrence of t.
WildPrefix(lp, t) ==
  LET hits == Occurrences(t, lp)
  IN IF hits = {} THEN NoMatch ELSE Hit(Len(t) + Max(hits), Max(hits))

\* A wildcard suffix "t*": the loop runs p up from the start, so the
\* first hit is the leftmost occurrence of t; the suffix is all from there.
WildSuffix(lp, t) ==
  LET hits == Occurrences(t, lp)
  IN IF hits = {} THEN NoMatch
     ELSE Hit(Len(lp) - Min(hits), Len(lp) - Min(hits) - Len(t))

\* route_check_prefix: the first prefix of the list that matches.
RECURSIVE CheckPrefix(_, _)
CheckPrefix(lp, prefixes) ==
  IF prefixes = <<>> THEN NoMatch
  ELSE LET pre == Head(prefixes)
           m   == IF pre[1] = "*" THEN WildPrefix(lp, Tail(pre))
                  ELSE IF IsPrefix(pre, lp) THEN Hit(Len(pre), 0)
                  ELSE NoMatch
       IN IF m.found THEN m ELSE CheckPrefix(lp, Tail(prefixes))

\* route_check_suffix: likewise, but a fixed suffix must be shorter than
\* the local part (alen > slen).
RECURSIVE CheckSuffix(_, _)
CheckSuffix(lp, suffixes) ==
  IF suffixes = <<>> THEN NoMatch
  ELSE LET suf == Head(suffixes)
           m   == IF Last(suf) = "*" THEN WildSuffix(lp, Front(suf))
                  ELSE IF Len(lp) > Len(suf) /\ IsSuffix(suf, lp)
                       THEN Hit(Len(suf), 0)
                  ELSE NoMatch
       IN IF m.found THEN m ELSE CheckSuffix(lp, Tail(suffixes))

(***************************************************************************)
(* route_address: with a prefix list, a match of length > 0 is stripped    *)
(* from the local part, and no match skips the router unless the prefix   *)
(* is optional; then the suffix likewise, on what the prefix left.  The    *)
(* result is [skip, lp, prefix, suffix].                                   *)
(***************************************************************************)
StripPrefix(lp, prefixes, optional) ==
  LET m == CheckPrefix(lp, prefixes)
  IN CASE prefixes = <<>> \/ (m.len = 0 /\ optional) ->
            [skip |-> FALSE, lp |-> lp, prefix |-> <<>>, suffix |-> <<>>]
       [] m.len = 0 -> [skip |-> TRUE, lp |-> lp, prefix |-> <<>>, suffix |-> <<>>]
       [] OTHER -> [skip |-> FALSE, lp |-> SubSeq(lp, m.len + 1, Len(lp)),
                    prefix |-> SubSeq(lp, 1, m.len), suffix |-> <<>>]

StripSuffix(a, suffixes, optional) ==
  LET m == CheckSuffix(a.lp, suffixes)
  IN CASE a.skip \/ suffixes = <<>> \/ (m.len = 0 /\ optional) -> a
       [] m.len = 0 -> [a EXCEPT !.skip = TRUE]
       [] OTHER -> [a EXCEPT !.lp = SubSeq(@, 1, Len(@) - m.len),
                             !.suffix = SubSeq(a.lp, Len(a.lp) - m.len + 1, Len(a.lp))]

Strip(lp, prefixes, pOpt, suffixes, sOpt) ==
  StripSuffix(StripPrefix(lp, prefixes, pOpt), suffixes, sOpt)

-----------------------------------------------------------------------------
(***************************************************************************)
(* Reference, from the comments of route_check_prefix and                  *)
(* route_check_suffix: the first affix of the list that matches, a         *)
(* wildcard matching the longest piece of the local part it can; a fixed   *)
(* suffix must leave at least one character.  RefAffix gives the lengths  *)
(* k of the pieces of lp the affix a may stand for, as a prefix or as a   *)
(* suffix.                                                                 *)
(***************************************************************************)
RefPieces(a, lp, asPrefix) ==
  IF asPrefix
  THEN IF a # <<>> /\ a[1] = "*"
       THEN {k \in 0..Len(lp) : IsSuffix(Tail(a), SubSeq(lp, 1, k))}
       ELSE {k \in {Len(a)} : IsPrefix(a, lp)}
  ELSE IF a # <<>> /\ Last(a) = "*"
       THEN {k \in 0..Len(lp) : IsPrefix(Front(a), SubSeq(lp, Len(lp) - k + 1, Len(lp)))}
       ELSE {k \in {Len(a)} : Len(lp) > k /\ IsSuffix(a, lp)}

\* The fixed part of a wildcard affix.
Fixed(a, asPrefix) ==
  CASE a = <<>> -> a
    [] asPrefix /\ a[1] = "*" -> Tail(a)
    [] ~asPrefix /\ Last(a) = "*" -> Front(a)
    [] OTHER -> a

RECURSIVE RefAffix(_, _, _)
RefAffix(lp, list, asPrefix) ==
  IF list = <<>> THEN [len |-> 0, v |-> 0]
  ELSE LET ks == RefPieces(Head(list), lp, asPrefix)
           k  == IF ks = {} THEN 0 ELSE Max(ks)
       IN IF k = 0 THEN RefAffix(lp, Tail(list), asPrefix)
          ELSE [len |-> k, v |-> k - Len(Fixed(Head(list), asPrefix))]

=============================================================================
