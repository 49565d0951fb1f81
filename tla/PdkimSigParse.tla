---------------------------- MODULE PdkimSigParse ---------------------------
(***************************************************************************)
(* pdkim_parse_sig_header (src/.../pdkim/pdkim.c 436-615): the LIMBO /   *)
(* TAG / VALUE scan of a raw DKIM-Signature header, building at the same   *)
(* time the copy of the header without the b= value.  No state of its    *)
(* own: PdkimFeed calls it from pdkim_header_complete.                    *)
(*                                                                         *)
(* Characters are one-character strings.  Besides the octets of DkimCanon, *)
(* a DKIM-Signature header uses ":", ";", "=", "-", "/", the digits and   *)
(* the lower-case letters of Lower; "S" stands for the header name        *)
(* "DKIM-Signature".  Names in values are tokens: in a= "r" is rsa, "1"    *)
(* sha1, "2" sha256, "5" sha512; in c= "s" is simple and "r" relaxed.     *)
(* Of b=, bh=, d= and s= only their presence is kept (the blobs and the  *)
(* names are not compared by anything modelled); h= is kept whole; the    *)
(* values of i=, q=, t=, x= and z= are not kept.  Values are base64 text  *)
(* where base64 is expected, so b64decode succeeds.                        *)
(***************************************************************************)
EXTENDS DkimCanon

\* The characters c >= 'a' && c <= 'z' of the alphabet.
Lower  == {"a", "b", "c", "d", "e", "h", "l", "r", "s", "v", "x", "y", "z"}
Digits == <<"0", "1", "2", "3", "4", "5", "6", "7", "8", "9">>

\* pdkim_keytypes and pdkim_hashes (pdkim.c 76-86).  ed25519 exists only
\* with SIGN_HAVE_ED25519 and is left out.
KeyTypes  == <<<<"r">>>>
HashNames == <<<<"1">>, <<"2">>, <<"5">>>>
HashOf    == <<"sha1", "sha256", "sha512">>

\* pdkim_combined_canons (pdkim.c 101-108): <<headers, body>>.
CombinedCanons ==
  (<<"s", "/", "s">> :> <<"simple", "simple">>)   @@
  (<<"s", "/", "r">> :> <<"simple", "relaxed">>)  @@
  (<<"r", "/", "s">> :> <<"relaxed", "simple">>)  @@
  (<<"r", "/", "r">> :> <<"relaxed", "relaxed">>) @@
  (<<"s">>           :> <<"simple", "simple">>)   @@
  (<<"r">>           :> <<"relaxed", "simple">>)

\* The 0-based index of s in names, or -1 (the lookup loops).
IndexIn(names, s) ==
  IF \E i \in DOMAIN names : names[i] = s
  THEN (CHOOSE i \in DOMAIN names : names[i] = s) - 1
  ELSE -1

\* string_nextinlist with separator sep: the element up to the next sep,
\* and what follows it (empty at the end of the list, where the next call
\* returns NULL).  A doubled sep (a literal one) is not modelled: no name
\* of the tables contains "-".
ListHead(s, sep) ==
  IF SelectInSeq(s, LAMBDA x : x = sep) = 0 THEN s
  ELSE SubSeq(s, 1, SelectInSeq(s, LAMBDA x : x = sep) - 1)
ListRest(s, sep) ==
  IF SelectInSeq(s, LAMBDA x : x = sep) = 0 THEN <<>>
  ELSE SubSeq(s, SelectInSeq(s, LAMBDA x : x = sep) + 1, Len(s))

\* strtol(s, NULL, 10) on a value without white space.
RECURSIVE DecimalPrefix(_, _)
DecimalPrefix(ds, acc) ==
  IF ds = <<>> \/ IndexIn(Digits, ds[1]) < 0 THEN acc
  ELSE DecimalPrefix(Tail(ds), 10 * acc + IndexIn(Digits, ds[1]))

StrToL(s) ==
  CASE s # <<>> /\ s[1] = "-" -> 0 - DecimalPrefix(Tail(s), 0)
    [] s # <<>> /\ s[1] = "+" -> DecimalPrefix(Tail(s), 0)
    [] OTHER -> DecimalPrefix(s, 0)

\* The fields of the pdkim_signature that the scan sets, as memset and
\* initialised at the top of the function.
\* has: which of sighash, bodyhash, domain, selector and headernames were
\* set, by tag name.
NoSig == [version |-> 0, keytype |-> -1, hashtype |-> -1,
          canonH |-> "simple", canonB |-> "simple", bodylength |-> -1,
          headernames |-> <<>>, has |-> {}]

\* a=: the key type before the "-" and, when there is one, the hash after
\* it; an unknown hash name leaves hashtype as it was.
AlgTag(sig, val) ==
  [sig EXCEPT
     !.keytype  = IndexIn(KeyTypes, ListHead(val, "-")),
     !.hashtype = IF ListRest(val, "-") = <<>>
                     \/ IndexIn(HashNames, ListHead(ListRest(val, "-"), "-")) < 0
                  THEN @
                  ELSE IndexIn(HashNames, ListHead(ListRest(val, "-"), "-"))]

\* pdkim_cstring_to_canons: an exact match in the table, else unchanged.
CanonTag(sig, val) ==
  IF val \in DOMAIN CombinedCanons
  THEN [sig EXCEPT !.canonH = CombinedCanons[val][1],
                   !.canonB = CombinedCanons[val][2]]
  ELSE sig

\* The switch on the tag's first letter.  b and bh decode a blob, d and s
\* copy a name; i, t, x, z and q set fields not modelled; "b" followed by
\* anything but a single "h", and any other letter, is bad_tag, which only
\* logs.
ApplyTag(sig, tag, val) ==
  CASE tag = <<"b">> -> [sig EXCEPT !.has = @ \cup {"b"}]
    [] tag = <<"b", "h">> -> [sig EXCEPT !.has = @ \cup {"bh"}]
    [] tag[1] \in {"d", "s"} -> [sig EXCEPT !.has = @ \cup {tag[1]}]
    [] tag[1] = "h" -> [sig EXCEPT !.headernames = val, !.has = @ \cup {"h"}]
    [] tag[1] = "v" -> [sig EXCEPT !.version = IF val = <<"1">> THEN 1 ELSE -1]
    [] tag[1] = "a" -> AlgTag(sig, val)
    [] tag[1] = "c" -> CanonTag(sig, val)
    [] tag[1] = "l" -> [sig EXCEPT !.bodylength = StrToL(val)]
    [] OTHER -> sig

\* ";" or the terminating NUL in VALUE: a tag with a value, one letter
\* long or starting with "b", is applied; the scan goes back to LIMBO.
EndTag_keepB(st) ==
  [st EXCEPT !.sig   = IF st.tag # <<>> /\ st.val # <<>>
                          /\ (Len(st.tag) = 1 \/ st.tag[1] = "b")
                       THEN ApplyTag(@, st.tag, st.val) ELSE @,
             !.tag   = <<>>,
             !.val   = <<>>,
             !.where = "limbo"]

EndTag(st) ==
  [st EXCEPT !.sig   = IF st.tag # <<>> /\ st.val # <<>>
                          /\ (Len(st.tag) = 1 \/ st.tag[1] = "b")
                       THEN ApplyTag(@, st.tag, st.val) ELSE @,
             !.tag   = <<>>,
             !.val   = <<>>,
             !.inB   = FALSE,
             !.where = "limbo"]

\* TAG: "=" ends the tag name (after "b" it is copied and the value is
\* left out of the copy); white space is dropped, anything else kept.
InTag(st, c) ==
  IF c = "="
  THEN [st EXCEPT !.where = "value",
                  !.inB   = IF st.tag = <<"b">> THEN TRUE ELSE @,
                  !.q     = IF st.tag = <<"b">> THEN Append(@, "=") ELSE @]
  ELSE [st EXCEPT !.where = "tag",
                  !.tag   = IF c \in WSP THEN @ ELSE Append(@, c)]

\* VALUE: white space is dropped, ";" or NUL ends the tag.
InValue(st, c) ==
  CASE c \in WSP        -> st
    [] c \in {";", NUL} -> EndTag(st)
    [] OTHER            -> [st EXCEPT !.val = Append(@, c)]

\* The body of the loop up to NEXT_CHAR: CR and LF are skipped, then the
\* header name up to the first ":", then LIMBO waits for a lower-case
\* letter, which starts a TAG.
Scan(st, c) ==
  CASE c \in {CR, LF}                       -> st
    [] ~st.past                             -> [st EXCEPT !.past = (c = ":")]
    [] st.where = "limbo" /\ c \notin Lower -> st
    [] st.where # "value"                   -> InTag(st, c)
    [] OTHER                                -> InValue(st, c)

\* NEXT_CHAR: NUL ends the loop; any other character outside the b= value
\* is copied to rawsig_no_b_val.
NextChar(st, c) ==
  CASE c = NUL -> [st EXCEPT !.done = TRUE]
    [] st.inB  -> st
    [] OTHER   -> [st EXCEPT !.q = Append(@, c)]

SigChar(st, c) == IF st.done THEN st ELSE NextChar(Scan(st, c), c)

NewScan == [past |-> FALSE, where |-> "limbo", tag |-> <<>>, val |-> <<>>,
            inB |-> FALSE, q |-> <<>>, done |-> FALSE, sig |-> NoSig]

\* The chomp of rawsig_no_b_val: trailing CR and LF go, never the first
\* character.
RECURSIVE Chomp(_)
Chomp(q) == IF Len(q) > 1 /\ Last(q) \in {CR, LF} THEN Chomp(Front(q)) ELSE q

\* After the loop: no signature without a known key type and hash;
\* otherwise the signature, its body-hash key (pdkim_set_sig_bodyhash) and
\* the header without the b= value.
SigResult(st) ==
  IF st.sig.keytype < 0 \/ st.sig.hashtype < 0
  THEN [ok |-> FALSE]
  ELSE [ok |-> TRUE,
        sig |-> [key |-> [hash  |-> HashOf[st.sig.hashtype + 1],
                          canon |-> st.sig.canonB,
                          limit |-> st.sig.bodylength],
                 version |-> st.sig.version, canonH |-> st.sig.canonH,
                 hnames |-> st.sig.headernames, has |-> st.sig.has,
                 signHeaders |-> <<>>, raw |-> Chomp(st.q)]]

\* The raw header is NUL-terminated.
ParseSigHeader(raw) == SigResult(FoldLeft(SigChar, NewScan, raw \o <<NUL>>))

-----------------------------------------------------------------------------
(***************************************************************************)
(* Reference, from RFC 6376 3.2 (tag-list), 3.5 (the a=, c=, l= and v=    *)
(* tags) and 3.7 (the b= value deleted for the header hash), and spec.md  *)
(* 4.4, not from the code.  A header h is the stored header field: its    *)
(* name, ":", the tag-list and the CRLF that ends it.                      *)
(***************************************************************************)
FWSChars == {SP, CR, LF}

\* s split at every d.
RECURSIVE SplitOn(_, _)
SplitAt(s, d, i) ==
  IF i = 0 THEN <<s>>
  ELSE <<SubSeq(s, 1, i - 1)>> \o SplitOn(SubSeq(s, i + 1, Len(s)), d)
SplitOn(s, d) == SplitAt(s, d, SelectInSeq(s, LAMBDA x : x = d))

\* The pieces joined again with d between them.
JoinWith(ps, d) ==
  FlattenSeq([i \in DOMAIN ps |-> IF i = 1 THEN ps[i] ELSE <<d>> \o ps[i]])

Unspaced(s) == SelectSeq(s, LAMBDA x : x \notin FWSChars)

\* s without folding white space at either end.
RECURSIVE TrimFWS(_)
TrimFWS(s) ==
  CASE s # <<>> /\ s[1] \in FWSChars   -> TrimFWS(Tail(s))
    [] s # <<>> /\ Last(s) \in FWSChars -> TrimFWS(Front(s))
    [] OTHER -> s

\* The header field without its final CRLF, its name, and its tag-specs.
FieldOf(h) == IF IsSuffix(CRLF, h) THEN SubSeq(h, 1, Len(h) - 2) ELSE h
NameEnd(h) == SelectInSeq(h, LAMBDA x : x = ":")
TagSpecs(h) == SplitOn(SubSeq(FieldOf(h), NameEnd(h) + 1, Len(FieldOf(h))), ";")

\* A tag-spec is "name = value", FWS allowed around both.
EqAt(sp) == SelectInSeq(sp, LAMBDA x : x = "=")
RefName(sp)  == TrimFWS(SubSeq(sp, 1, EqAt(sp) - 1))
RefValue(sp) == TrimFWS(SubSeq(sp, EqAt(sp) + 1, Len(sp)))
\* The tag-specs that are not empty.
SpecSet(h) == {sp \in Range(TagSpecs(h)) : Unspaced(sp) # <<>>}

\* A valid tag-list in the alphabet: a header name and ":", tag-specs
\* separated by ";" (an empty one only after a final ";"), each with a
\* name starting with a letter and no white space in it, and no name twice;
\* the a=, c=, l= and v= values have no white space inside (b= and bh=
\* may be folded), c= names only simple and relaxed.
RefValid(h) ==
  LET sps == TagSpecs(h)
  IN /\ NameEnd(h) > 0
     /\ \A i \in DOMAIN sps : Unspaced(sps[i]) = <<>> => i = Len(sps) /\ i > 1
     /\ \A sp \in SpecSet(h) :
          /\ EqAt(sp) > 0
          /\ RefName(sp) # <<>> /\ RefName(sp)[1] \in Lower
          /\ Unspaced(RefName(sp)) = RefName(sp)
          /\ RefName(sp) \in {<<"a">>, <<"c">>, <<"l">>, <<"v">>}
               => Unspaced(RefValue(sp)) = RefValue(sp)
          /\ RefName(sp) = <<"c">>
               => \A x \in Range(RefValue(sp)) : x \in {"s", "r", "/"}
     /\ \A sp1, sp2 \in SpecSet(h) : RefName(sp1) = RefName(sp2) => sp1 = sp2

\* The value of tag n, or <<>> when the tag is absent.
TagValue(h, n) ==
  IF \E sp \in SpecSet(h) : RefName(sp) = n
  THEN Unspaced(RefValue(CHOOSE sp \in SpecSet(h) : RefName(sp) = n))
  ELSE <<>>
HasTag(h, n) == \E sp \in SpecSet(h) : RefName(sp) = n

CanonWord == ("s" :> "simple") @@ ("r" :> "relaxed")

\* c=: header/body; one name is the header's, the body then "simple".
RefCanons(v) ==
  CASE v = <<>> -> <<"simple", "simple">>
    [] Len(v) = 3 -> <<CanonWord[v[1]], CanonWord[v[3]]>>
    [] OTHER -> <<CanonWord[v[1]], "simple">>

\* a= is k "-" h with k rsa and h sha1 or sha256 (RFC 6376 3.3).
RefUsable(h) ==
  \E k \in {<<"r">>}, hh \in {<<"1">>, <<"2">>} : TagValue(h, <<"a">>) = k \o <<"-">> \o hh

\* The header with the b= tag's value, and the white space around it,
\* deleted.
RefNoB(h) ==
  LET sps == TagSpecs(h)
      cut(sp) == IF EqAt(sp) > 0 /\ RefName(sp) = <<"b">>
                 THEN SubSeq(sp, 1, EqAt(sp)) ELSE sp
  IN SubSeq(FieldOf(h), 1, NameEnd(h))
       \o JoinWith([i \in DOMAIN sps |-> cut(sps[i])], ";")

RefDigits(v) == FoldLeft(LAMBDA acc, d : 10 * acc + IndexIn(Digits, d), 0, v)

\* What a verifier reads from the header: no signature it can verify
\* without a known algorithm, else the version, the canonicalisations, the
\* body-hash key and the header to hash.
RefSig(h) ==
  IF ~RefUsable(h) THEN [ok |-> FALSE]
  ELSE [ok |-> TRUE,
        sig |-> [key |-> [hash  |-> IF TagValue(h, <<"a">>)[3] = "1"
                                    THEN "sha1" ELSE "sha256",
                          canon |-> RefCanons(TagValue(h, <<"c">>))[2],
                          limit |-> IF HasTag(h, <<"l">>)
                                    THEN RefDigits(TagValue(h, <<"l">>))
                                    ELSE -1],
                 version |-> CASE ~HasTag(h, <<"v">>) -> 0
                               [] TagValue(h, <<"v">>) = <<"1">> -> 1
                               [] OTHER -> -1,
                 canonH |-> RefCanons(TagValue(h, <<"c">>))[1],
                 hnames |-> TagValue(h, <<"h">>),
                 has |-> {n \in {"b", "bh", "d", "s", "h"} :
                            TagValue(h, IF n = "bh" THEN <<"b", "h">> ELSE <<n>>) # <<>>},
                 signHeaders |-> <<>>, raw |-> RefNoB(h)]]

=============================================================================
