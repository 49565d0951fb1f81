--------------------------- MODULE PdkimHeaderHash --------------------------
(***************************************************************************)
(* The header side of the DKIM hash (src/.../pdkim/pdkim.c): relaxed      *)
(* header canonicalisation (pdkim_relax_header_n), the signer's tick-off   *)
(* list (header_name_match), the signer's walk that builds h= and the     *)
(* verifier's walk that follows it (pdkim_feed_finish), and the sorting    *)
(* of received signatures by the configured preferences (sort_sig_methods).*)
(* Pure operators: PdkimFeed applies them when the feed finishes.          *)
(*                                                                         *)
(* A header is the stored header field, ending with its CRLF.  A header    *)
(* hash is represented by the octets fed to it.  "X" is an upper-case      *)
(* letter of a header name; "S" stands for "DKIM-Signature", whose lower   *)
(* case is the one token "dkim-signature".                                 *)
(***************************************************************************)
EXTENDS PdkimSigParse

\* tolower on the alphabet.
LowerOf == ("X" :> "x") @@ ("S" :> "dkim-signature")
LowerCase(c) == IF c \in DOMAIN LowerOf THEN LowerOf[c] ELSE c

\* strcmpic / strncasecmp over the whole of both strings.
EqualIC(a, b) ==
  Len(a) = Len(b) /\ \A i \in DOMAIN a : LowerCase(a[i]) = LowerCase(b[i])

\* Ustrchr(header, ':'), 0 when there is none, and the name before it.
ColonAt(h) == SelectInSeq(h, LAMBDA x : x = ":")
HeaderName(h) == SubSeq(h, 1, ColonAt(h) - 1)

(***************************************************************************)
(* pdkim_relax_header_n: CR and LF dropped, a WSP run becomes one SP, the  *)
(* first ":" takes back an SP before it and swallows WSP after it, the     *)
(* name is lower-cased, a trailing SP is squashed, CRLF appended on        *)
(* request.                                                                *)
(***************************************************************************)
RelaxChar(st, c) ==
  CASE c \in {CR, LF} -> st
    [] c \in WSP ->
         IF st.wsp THEN st ELSE [st EXCEPT !.out = Append(@, SP), !.wsp = TRUE]
    [] ~st.past /\ c = ":" ->
         [out  |-> Append(IF st.wsp THEN Front(st.out) ELSE st.out, ":"),
          past |-> TRUE, wsp |-> TRUE]
    [] OTHER ->
         [st EXCEPT !.out = Append(@, IF st.past THEN c ELSE LowerCase(c)),
                    !.wsp = FALSE]

RelaxHeader(h, crlf) ==
  LET q == FoldLeft(RelaxChar, [out |-> <<>>, past |-> FALSE, wsp |-> FALSE], h).out
      r == IF q # <<>> /\ Last(q) = SP THEN Front(q) ELSE q
  IN IF crlf THEN r \o CRLF ELSE r

\* A header as the header hash takes it (relaxed, or copied for simple).
HeaderCanon(canon, h) == IF canon = "relaxed" THEN RelaxHeader(h, TRUE) ELSE h

(***************************************************************************)
(* header_name_match: the first element of the tick-off list naming the   *)
(* header (case-insensitively, after an "=" or "+" marker) matches; an     *)
(* unmarked element is ticked off by overwriting its first character with *)
(* "_".  A header without ":" never matches.                               *)
(***************************************************************************)
Multisign(e) == e # <<>> /\ e[1] \in {"=", "+"}
ElementName(e) == IF Multisign(e) THEN Tail(e) ELSE e

Matching(h, tick) ==
  {i \in DOMAIN tick : EqualIC(ElementName(tick[i]), HeaderName(h))}

HeaderNameMatch(h, tick) ==
  IF ColonAt(h) = 0 \/ Matching(h, tick) = {}
  THEN [ok |-> FALSE, tick |-> tick]
  ELSE LET i == Min(Matching(h, tick))
       IN [ok |-> TRUE,
           tick |-> IF Multisign(tick[i]) THEN tick
                    ELSE [tick EXCEPT ![i] = <<"_">> \o Tail(@)]]

(***************************************************************************)
(* Signing: the headers, newest first, that the tick-off list matches are  *)
(* hashed and their names collected; then every element neither ticked    *)
(* off nor marked "=" is added, a "+" marker dropped.  The result is the   *)
(* h= list (empty when nothing was collected: NULL) and the header data.  *)
(***************************************************************************)
SignWalk(canon, st, h) ==
    LET m == HeaderNameMatch(h, st.tick)
    IN IF m.ok
       THEN [tick |-> m.tick, names |-> Append(st.names, HeaderName(h)),
             data |-> st.data \o HeaderCanon(canon, h)]
       ELSE st

Unmarked(e) == IF e # <<>> /\ e[1] = "+" THEN Tail(e) ELSE e
Remaining(tick) ==
  SelectSeq([i \in DOMAIN tick |-> Unmarked(tick[i])],
            LAMBDA e : e = <<>> \/ e[1] \notin {"_", "="})

SignHeaders(hdrs, signList, canon) ==
  LET w == FoldLeft(LAMBDA st, h : SignWalk(canon, st, h),
                    [tick |-> signList, names |-> <<>>, data |-> <<>>], hdrs)
  IN [hnames |-> JoinWith(w.names \o Remaining(w.tick), ":"), data |-> w.data]

(***************************************************************************)
(* Verifying: for each name of h=, split at every ":", the newest header  *)
(* not yet used whose name matches (strncasecmp of the name's length and  *)
(* ":" right after it) is hashed and tagged; a name with no such header   *)
(* adds nothing.  Tags are cleared for every signature; no h= hashes no   *)
(* header.                                                                 *)
(***************************************************************************)
NameMatches(h, p) ==
  Len(h) > Len(p) /\ EqualIC(SubSeq(h, 1, Len(p)), p) /\ h[Len(p) + 1] = ":"

VerifyWalk(hdrs, canon, st, p) ==
    LET cand == {i \in DOMAIN hdrs : i \notin st.used /\ NameMatches(hdrs[i], p)}
    IN IF cand = {} THEN st
       ELSE [used |-> st.used \cup {Min(cand)},
             data |-> st.data \o HeaderCanon(canon, hdrs[Min(cand)])]

VerifyHeaders(hnames, hdrs, canon) ==
  IF hnames = <<>> THEN <<>>
  ELSE FoldLeft(LAMBDA st, p : VerifyWalk(hdrs, canon, st, p), [used |-> {}, data |-> <<>>],
                SplitOn(hnames, ":")).data

\* The signature header closing the header hash: rawsig_no_b_val, relaxed
\* without CRLF for relaxed; nothing when there is no h=.
\* Mutant: the relaxed signature header hashed with its CRLF.
SigHeaderData_crlf(sig) ==
  IF sig.hnames = <<>> THEN <<>>
  ELSE IF sig.canonH = "relaxed" THEN RelaxHeader(sig.raw, TRUE) ELSE sig.raw

SigHeaderData(sig) ==
  IF sig.hnames = <<>> THEN <<>>
  ELSE IF sig.canonH = "relaxed" THEN RelaxHeader(sig.raw, FALSE) ELSE sig.raw

(***************************************************************************)
(* sort_sig_methods: for each preference in turn, the signatures it       *)
(* selects are moved, in their order, to the end of the result; signatures *)
(* no preference selects are dropped.  A pass by hash, then one by key     *)
(* type; every received signature is rsa, the one key type.               *)
(***************************************************************************)
HashSel(s, p) == IndexIn(HashNames, p) >= 0 /\ HashOf[IndexIn(HashNames, p) + 1] = s.key.hash
KeySel(s, p) == IndexIn(KeyTypes, p) = 0

\* The test of a pass: by "hash" or by "key" type.
Selects(by, s, p) == IF by = "hash" THEN HashSel(s, p) ELSE KeySel(s, p)

SortPass(list, prefs, by) ==
  FoldLeft(LAMBDA acc, p :
             [out  |-> acc.out \o SelectSeq(acc.rest, LAMBDA s : Selects(by, s, p)),
              rest |-> SelectSeq(acc.rest, LAMBDA s : ~Selects(by, s, p))],
           [out |-> <<>>, rest |-> list], prefs).out

SortSigMethods(list, hashPrefs, keyPrefs) ==
  SortPass(SortPass(list, hashPrefs, "hash"), keyPrefs, "key")

-----------------------------------------------------------------------------
(***************************************************************************)
(* Reference, from RFC 6376 3.4.1 and 3.4.2 (header canonicalisation),    *)
(* 5.4.2 (several instances of a field are taken bottom-up, each once; a  *)
(* name with no instance left contributes nothing) and 3.7 (the DKIM-     *)
(* Signature header, b= value deleted, closes the hash), not from the     *)
(* code.  hdrs are the stored headers, newest first.                       *)
(***************************************************************************)
RefFieldName(h) == TrimFWS(HeaderName(h))
RefFieldValue(h) == SubSeq(FieldOf(h), ColonAt(h) + 1, Len(FieldOf(h)))

\* Unfold, turn WSP runs into one SP, trim the value, lower-case the name.
RECURSIVE RefCollapse(_)
RefCollapse(s) ==
  CASE Len(s) < 2 -> s
    [] s[1] = SP /\ s[2] = SP -> RefCollapse(Tail(s))
    [] OTHER -> <<s[1]>> \o RefCollapse(Tail(s))

RefRelaxHeader(h) ==
  [i \in DOMAIN RefFieldName(h) |-> LowerCase(h[i])]
    \o <<":">>
    \o TrimFWS(RefCollapse(SelectSeq(RefFieldValue(h), LAMBDA x : x \notin {CR, LF})))
    \o CRLF

RefCanonHeader(canon, h) == IF canon = "relaxed" THEN RefRelaxHeader(h) ELSE h

\* The k-th name of the list selects the (c+1)-th newest header of that
\* name, c the number of earlier occurrences of the name in the list.
RefSelected(names, k, hdrs) ==
  LET c == Cardinality({j \in 1..(k - 1) : EqualIC(names[j], names[k])})
      same == SelectSeq(hdrs, LAMBDA h : EqualIC(RefFieldName(h), names[k]))
  IN IF c < Len(same) THEN same[c + 1] ELSE <<>>

\* A selected header canonicalised; nothing when there is none.
RefPicked(canon, h) == IF h = <<>> THEN <<>> ELSE RefCanonHeader(canon, h)

\* The signature header, relaxed without its final CRLF for relaxed.
RefSigHeader(canon, raw) ==
  IF canon = "relaxed" THEN Front(Front(RefRelaxHeader(raw \o CRLF))) ELSE raw

RefHeaderData(sig, hdrs) ==
  LET names == SplitOn(sig.hnames, ":")
  IN FlattenSeq([k \in DOMAIN names |-> RefPicked(sig.canonH, RefSelected(names, k, hdrs))])
     \o RefSigHeader(sig.canonH, sig.raw)
=============================================================================
