----------------------------- MODULE PdkimPubkey ----------------------------
(***************************************************************************)
(* The public-key side of DKIM verification (src/.../pdkim/pdkim.c):      *)
(* pdkim_parse_pubkey_record, the parser of the DNS TXT record, and       *)
(* pdkim_key_from_dns, which asks the DNS callback for the record, checks *)
(* it and imports the key.  Pure operators: PdkimFeed applies them to the *)
(* reply the callback gives.                                               *)
(*                                                                         *)
(* A record is a string over RecordChars; "D" stands for the version      *)
(* "DKIM1", "E" for the service "email", "r" for the key type "rsa" and   *)
(* "1", "2", "5" for the hash names as in PdkimSigParse.  A p= value is    *)
(* base64 text (b64decode succeeds); it decodes to a key the crypto        *)
(* library imports when it is "K" (a 2048-bit RSA key) or "W" (a 512-bit  *)
(* one), and to something it refuses otherwise.  An empty reply stands    *)
(* for both NULL and "".                                                   *)
(***************************************************************************)
EXTENDS PdkimSigParse

RecordChars == {"v", "h", "k", "g", "p", "s", "t", "x", "y", "=", ";", ":", SP,
                "D", "E", "r", "1", "2", "5", "*", "K", "W", "Q"}

\* The key bits exim_dkim_verify_init reports for the keys it imports.
KeyBitsOf == ("K" :> 2048) @@ ("W" :> 512)
Imports(key) == Len(key) = 1 /\ key[1] \in DOMAIN KeyBitsOf

\* pdkim_verify_status / pdkim_verify_ext_status values set here.
PUBKEY_UNAVAILABLE == "PUBKEY_UNAVAILABLE"
PUBKEY_DNSRECORD   == "PUBKEY_DNSRECORD"
PUBKEY_IMPORT      == "PUBKEY_IMPORT"

\* Uskip_whitespace, and the loops that take white space off the end.
RECURSIVE SkipSpace(_)
SkipSpace(s) == IF s # <<>> /\ s[1] = SP THEN SkipSpace(Tail(s)) ELSE s
RECURSIVE TrimEnd(_, _)
TrimEnd(s, keep) == IF Len(s) > keep /\ Last(s) = SP THEN TrimEnd(Front(s), keep) ELSE s

NoPub == [has |-> {}, v |-> <<>>, h |-> <<>>, k |-> <<>>, s |-> <<>>, p |-> <<>>]

(***************************************************************************)
(* One element of the loop: the text up to ";" after the white space it   *)
(* starts with; with an "=" in it, the tag without the white space before  *)
(* "=" (down to one character) and the value without white space around;  *)
(* a one-letter tag v, h, k, p or s is stored (the last one wins); g, n   *)
(* and t set fields nothing reads; any other tag is ignored.               *)
(***************************************************************************)
\* Mutant: white space before "=" left in the tag.
PubkeyElement_untrimmed(pub, spec) ==
  LET tspec == SkipSpace(spec)
      eq == SelectInSeq(tspec, LAMBDA x : x = "=")
      tag == SubSeq(tspec, 1, eq - 1)
      val == TrimEnd(SkipSpace(SubSeq(tspec, eq + 1, Len(tspec))), 0)
  IN IF eq > 0 /\ Len(tag) = 1 /\ tag[1] \in {"v", "h", "k", "p", "s"}
     THEN [pub EXCEPT !.has = @ \cup {tag[1]}, ![tag[1]] = val]
     ELSE pub

PubkeyElement(pub, spec) ==
  LET tspec == SkipSpace(spec)
      eq == SelectInSeq(tspec, LAMBDA x : x = "=")
      tag == TrimEnd(SubSeq(tspec, 1, eq - 1), 1)
      val == TrimEnd(SkipSpace(SubSeq(tspec, eq + 1, Len(tspec))), 0)
  IN IF eq > 0 /\ Len(tag) = 1 /\ tag[1] \in {"v", "h", "k", "p", "s"}
     THEN [pub EXCEPT !.has = @ \cup {tag[1]}, ![tag[1]] = val]
     ELSE pub

\* After the loop: a v= other than the version fails the record; k= and
\* s= get their defaults; without p= there is no record.
ParsePubkey(rec) ==
  LET pub == FoldLeft(PubkeyElement, NoPub, SplitOn(rec, ";"))
  IN IF ("v" \in pub.has /\ pub.v # <<"D">>) \/ "p" \notin pub.has
     THEN [ok |-> FALSE]
     ELSE [ok |-> TRUE,
           hasHashes |-> "h" \in pub.has, hashes |-> pub.h,
           srvtype |-> IF "s" \in pub.has THEN pub.s ELSE <<"*">>,
           key |-> pub.p]

(***************************************************************************)
(* pdkim_key_from_dns: no reply, a record that does not parse or names a   *)
(* service other than "*" and "email", and a key the library refuses are  *)
(* INVALID with their reasons.  A received signature always has its key   *)
(* type (a= is required to keep it), so the record's k= is not consulted. *)
(***************************************************************************)
KeyCheck(reply, p) ==
  CASE reply = <<>> -> [ok |-> FALSE, ext |-> PUBKEY_UNAVAILABLE]
    [] ~p.ok \/ p.srvtype \notin {<<"*">>, <<"E">>} ->
         [ok |-> FALSE, ext |-> PUBKEY_DNSRECORD]
    [] ~Imports(p.key) -> [ok |-> FALSE, ext |-> PUBKEY_IMPORT]
    [] OTHER -> [ok |-> TRUE, hasHashes |-> p.hasHashes, hashes |-> p.hashes,
                 keybits |-> KeyBitsOf[p.key[1]]]

KeyFromDns(reply) == KeyCheck(reply, ParsePubkey(reply))

\* The pubkey h= check in pdkim_feed_finish: an h= list names the
\* signature's hash (elements split at ":"; no element repeats ":").
HashAllowed(pk, hash) ==
  ~pk.hasHashes
  \/ \E e \in Range(SplitOn(pk.hashes, ":")) :
       IndexIn(HashNames, e) >= 0 /\ HashOf[IndexIn(HashNames, e) + 1] = hash

-----------------------------------------------------------------------------
(***************************************************************************)
(* Reference, from spec.md 4.5 and 4.6 and RFC 6376 3.6.1, not from the    *)
(* code: the record is a ";"-separated tag=value list, white space around  *)
(* names and values ignored; valid when any v= is "DKIM1", p= is present   *)
(* and any s= is "*" or "email"; h= lists the hashes the key may be used   *)
(* with.  A record names every tag at most once.                           *)
(***************************************************************************)
RefRecSpecs(rec) == {sp \in Range(SplitOn(rec, ";")) : EqAt(sp) > 0}
RefRecHas(rec, n) == \E sp \in RefRecSpecs(rec) : RefName(sp) = <<n>>
RefRecTag(rec, n) ==
  RefValue(CHOOSE sp \in RefRecSpecs(rec) : RefName(sp) = <<n>>)

RefRecordUnique(rec) ==
  \A a, b \in RefRecSpecs(rec) : RefName(a) = RefName(b) => a = b

RefRecordValid(rec) ==
  /\ rec # <<>>
  /\ RefRecHas(rec, "v") => RefRecTag(rec, "v") = <<"D">>
  /\ RefRecHas(rec, "p")
  /\ RefRecHas(rec, "s") => RefRecTag(rec, "s") \in {<<"*">>, <<"E">>}

RefHashAllowed(rec, hash) ==
  RefRecHas(rec, "h") =>
    \E e \in Range(SplitOn(RefRecTag(rec, "h"), ":")) :
      \E i \in DOMAIN HashNames : HashNames[i] = e /\ HashOf[i] = hash
=============================================================================
