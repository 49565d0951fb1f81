------------------------------ MODULE PdkimFeed -----------------------------
(***************************************************************************)
(* The PDKIM line feeder and body-hash set (src/.../pdkim/pdkim.c):        *)
(*   pdkim_feed            one loop iteration per input octet, in header   *)
(*                         mode or in body mode;                           *)
(*   pdkim_header_complete storing a completed (folded) header, and in     *)
(*                         verify mode parsing every DKIM-Signature header *)
(*                         (PdkimSigParse) into a signature and its body   *)
(*                         hash;                                           *)
(*   pdkim_bodyline_complete / pdkim_body_complete  dot-termination,       *)
(*                         un-stuffing, blank-line buffering;              *)
(*   pdkim_update_ctx_bodyhash  relaxed body canonicalisation and the l=   *)
(*                         limit;                                          *)
(*   pdkim_set_bodyhash    get-or-create of a shared body hash;            *)
(*   pdkim_feed_finish     flushing a header section without body,         *)
(*                         finishing the body hashes (the l= removal when  *)
(*                         signing, the bh= comparison when verifying),    *)
(*                         sorting the received signatures, then one step  *)
(*                         per signature: the header hash (PdkimHeaderHash)*)
(*                         and, when verifying, the verdict with the key   *)
(*                         the DNS callback returns (PdkimPubkey).          *)
(* A body hash's incremental SHA state is represented by the octets fed to *)
(* it ("hashed"): the digest is a function of them and nothing else.  The *)
(* bh= comparison and the RSA verification (exim_dkim_verify) compare     *)
(* blobs of the header with digests; their outcomes are inputs.  Creating *)
(* the signature header and signing it (pdkim_create_header,              *)
(* exim_dkim_sign) are not modelled: the private key is taken to import.  *)
(***************************************************************************)
EXTENDS PdkimHeaderHash, PdkimPubkey, FiniteSets

CONSTANTS
  Messages,        \* set of [mode, dot, input, body]: what the caller feeds
  SignSigs,        \* the signatures pdkim_init_sign and pdkim_set_optional
                   \* configure when signing (signHeaders: sign_headers)
  MaxHeaders,      \* PDKIM_MAX_HEADERS
  MaxHeaderLen,    \* PDKIM_MAX_HEADER_LEN
  MaxBodyLineLen,  \* PDKIM_MAX_BODY_LINE_LEN
  CollectInputs,   \* initial values of dkim_collect_input (0: no limit)
  VerifyHashes,    \* dkim_verify_hashes, as hash-name tokens
  VerifyKeytypes,  \* dkim_verify_keytypes, as key-name tokens
  MinRsaBits,      \* the rsa= minimum of dkim_verify_min_keysizes (0: none)
  MinimalModes,    \* values of dkim_verify_minimal && !(acl_smtp_dkim &&
                   \* dkim_verify_signers)
  DnsReplies       \* the TXT records the DNS callback may return

ASSUME MaxHeaders \in Nat \ {0} /\ MaxHeaderLen \in Nat \ {0}
ASSUME MaxBodyLineLen \in Nat /\ MaxBodyLineLen > 2
ASSUME CollectInputs \subseteq Nat
ASSUME MinRsaBits \in Nat /\ MinimalModes \subseteq BOOLEAN

\* ctx->flags bits
PAST_HDRS == "PAST_HDRS"
SEEN_CR   == "SEEN_CR"
SEEN_LF   == "SEEN_LF"
SEEN_EOD  == "SEEN_EOD"
DOT_TERM  == "DOT_TERM"
MODE_SIGN == "MODE_SIGN"
Flags == {PAST_HDRS, SEEN_CR, SEEN_LF, SEEN_EOD, DOT_TERM, MODE_SIGN}

\* pdkim return codes reaching the caller
Results == {"OK", "ERR_LONG_LINE", "ERR_EXCESS_SIGS"}

VARIABLES
  input,       \* the octets the caller passes to pdkim_feed, in order
  body,        \* the message body the input carries (before dot-stuffing)
  pos,         \* index in input of the next octet pdkim_feed processes
  flags,       \* ctx->flags
  curHeader,   \* ctx->cur_header: the header being assembled
  headers,     \* ctx->headers (verify) / sig->headers (sign): newest first
  numHeaders,  \* ctx->num_headers
  sigs,        \* ctx->sig: [key, version, canonH, raw] of each signature,
               \* key the body-hash key [hash, canon, limit], raw the
               \* header without its b= value (rawsig_no_b_val)
  collect,     \* dkim_collect_input
  linebuf,     \* ctx->linebuf[0 .. linebuf_offset-1]
  bh,          \* ctx->bodyhash: key -> [hashed, blanks]
  status,      \* "feeding", "finishing", "finished", or the error returned
  fin,         \* the signatures pdkim_feed_finish walks, in its order, with
               \* their results: FinEntry
  cursor,      \* the index in fin of the signature the loop is at
  verifyPass,  \* verify_pass
  minimal      \* whether a PASS ends the loop (dkim_verify_minimal; the
               \* loop is the only reader, so it is chosen as it starts)

feedState == <<input, body, pos, flags, curHeader, headers, numHeaders, sigs,
               collect, linebuf, bh>>
feedVars == <<feedState, status>>
finVars == <<fin, cursor, verifyPass, minimal>>
vars == <<feedVars, finVars>>

NewBodyhash == [hashed |-> <<>>, blanks |-> 0]

MinOf(a, b) == IF a < b THEN a ELSE b

(***************************************************************************)
(* pdkim_set_bodyhash: reuse the body hash with the same (hash, canon,     *)
(* limit) key or add a new one.                                            *)
(***************************************************************************)
SetBodyhash(bhv, key) ==
  IF key \in DOMAIN bhv THEN bhv ELSE bhv @@ (key :> NewBodyhash)

(***************************************************************************)
(* The relaxing loop of pdkim_update_ctx_bodyhash: WSP runs become one SP, *)
(* an SP just before a CR is taken back.                                   *)
(***************************************************************************)
RelaxBodyData(data) ==
  LET step(st, c) ==
        CASE c = CR ->
               LET out == IF st.out # <<>> /\ Last(st.out) = SP
                          THEN Front(st.out) ELSE st.out
               IN [st EXCEPT !.out = Append(out, CR)]
          [] c \in WSP ->
               IF st.wsp THEN st ELSE [out |-> Append(st.out, SP), wsp |-> TRUE]
          [] OTHER -> [out |-> Append(st.out, c), wsp |-> FALSE]
  IN FoldLeft(step, [out |-> <<>>, wsp |-> FALSE], data).out

(***************************************************************************)
(* pdkim_update_ctx_bodyhash: canonicalise data for this body hash and     *)
(* hash at most what the l= limit leaves.                                  *)
(***************************************************************************)
UpdateCtxBodyhash(key, b, data) ==
  LET canon == IF key.canon = "relaxed" THEN RelaxBodyData(data) ELSE data
      left  == IF key.limit >= 0
               THEN MinOf(Len(canon), key.limit - Len(b.hashed))
               ELSE Len(canon)
  IN IF left > 0 THEN [b EXCEPT !.hashed = @ \o SubSeq(canon, 1, left)] ELSE b

\* Release the buffered blank lines of one body hash, one CRLF at a time.
RECURSIVE ReleaseBlanks(_, _)
ReleaseBlanks(key, b) ==
  IF b.blanks = 0 THEN b
  ELSE ReleaseBlanks(key, [UpdateCtxBodyhash(key, b, CRLF) EXCEPT !.blanks = @ - 1])

\* The relaxed "lines with just spaces" scan over the NUL-terminated line:
\* it stops at the terminating NUL, at a CRLF or at a non-WSP octet.
RelaxedBlank(line) ==
  LET z    == Append(line, NUL)
      stop == SelectInSeq([i \in DOMAIN z |->
                             z[i] = NUL
                             \/ (z[i] = CR /\ i < Len(z) /\ z[i+1] = LF)
                             \/ z[i] \notin WSP], LAMBDA x : x)
  IN z[stop] = NUL \/ (z[stop] = CR /\ z[stop+1] = LF)

\* The per-body-hash part of pdkim_bodyline_complete for a non-empty line.
BodylineHash(key, b, line) ==
  IF key.canon = "relaxed" /\ RelaxedBlank(line)
  THEN [b EXCEPT !.blanks = @ + 1]
  ELSE UpdateCtxBodyhash(key, ReleaseBlanks(key, b), line)

\* Mutant: the signed_body_bytes == 0 test dropped from pdkim_body_complete.
BodyComplete_anyBody(bhv) ==
  [k \in DOMAIN bhv |->
     IF k.canon = "simple" /\ bhv[k].blanks > 0
     THEN UpdateCtxBodyhash(k, bhv[k], CRLF) ELSE bhv[k]]

(***************************************************************************)
(* pdkim_body_complete: in simple mode, buffered empty lines of a body     *)
(* that hashed nothing yet become one CRLF.                                *)
(***************************************************************************)
BodyComplete(bhv) ==
  [k \in DOMAIN bhv |->
     IF k.canon = "simple" /\ bhv[k].hashed = <<>> /\ bhv[k].blanks > 0
     THEN UpdateCtxBodyhash(k, bhv[k], CRLF) ELSE bhv[k]]

(***************************************************************************)
(* pdkim_bodyline_complete on the completed line: the new body hashes and  *)
(* whether the line was the end-of-data marker.                            *)
(***************************************************************************)
BodylineComplete(fl, bhv, line) ==
  LET unstuffed == IF DOT_TERM \in fl /\ IsPrefix(<<DOT, DOT>>, line)
                   THEN Tail(line) ELSE line
  IN CASE SEEN_EOD \in fl ->
            [bh |-> bhv, eod |-> FALSE]
       [] DOT_TERM \in fl /\ IsPrefix(DotTerminator, line) ->
            [bh |-> BodyComplete(bhv), eod |-> TRUE]
       [] IsPrefix(CRLF, unstuffed) ->
            [bh |-> [k \in DOMAIN bhv |-> [bhv[k] EXCEPT !.blanks = @ + 1]],
             eod |-> FALSE]
       [] OTHER ->
            [bh |-> [k \in DOMAIN bhv |-> BodylineHash(k, bhv[k], unstuffed)],
             eod |-> FALSE]

\* Mutant: dkim_collect_input decremented without the non-zero test.
SigHeaderComplete_collectWrap(r, p) ==
  [r EXCEPT !.sigs    = IF p.ok THEN Append(@, p.sig) ELSE @,
            !.bh      = IF p.ok THEN SetBodyhash(@, p.sig.key) ELSE @,
            !.collect = collect - 1,
            !.rc      = IF collect = 1 THEN "ERR_EXCESS_SIGS" ELSE "OK"]

(***************************************************************************)
(* pdkim_header_complete for a DKIM-Signature header in verify mode: the  *)
(* signature pdkim_parse_sig_header makes of it, if any, is chained and   *)
(* its body hash set up; dkim_collect_input counts every such header.     *)
(***************************************************************************)
SigHeaderComplete(r, p) ==
  [r EXCEPT !.sigs    = IF p.ok THEN Append(@, p.sig) ELSE @,
            !.bh      = IF p.ok THEN SetBodyhash(@, p.sig.key) ELSE @,
            !.collect = IF collect # 0 THEN collect - 1 ELSE 0,
            !.rc      = IF collect = 1 THEN "ERR_EXCESS_SIGS" ELSE "OK"]

(***************************************************************************)
(* pdkim_header_complete on header buffer g: the effect on the stored      *)
(* headers, the signatures, the body hashes and dkim_collect_input, and    *)
(* the result code.                                                        *)
(***************************************************************************)
IsSigHeader(g) == g # <<>> /\ g[1] = "S"

HeaderComplete(g) ==
  LET h   == IF Len(g) > 1 /\ Last(g) = CR THEN Front(g) ELSE g
      n   == numHeaders + 1
      same == [headers |-> headers, numHeaders |-> n, sigs |-> sigs,
               bh |-> bh, collect |-> collect, rc |-> "OK"]
  IN CASE n > MaxHeaders ->
            same
       [] MODE_SIGN \in flags \/ ~IsSigHeader(h) ->
            [same EXCEPT !.headers = <<h>> \o headers]
       [] OTHER ->
            SigHeaderComplete([same EXCEPT !.headers = <<h>> \o headers],
                              ParseSigHeader(h))

\* Apply a header_complete result; an error ends the feed.
ApplyHeaderComplete(r) ==
  /\ headers' = r.headers
  /\ numHeaders' = r.numHeaders
  /\ sigs' = r.sigs
  /\ bh' = r.bh
  /\ collect' = r.collect
  /\ status' = IF r.rc = "OK" THEN status ELSE r.rc

\* The append at the bottom of the header-mode branch of pdkim_feed.
CatHeader(g, c) == IF Len(g) < MaxHeaderLen THEN Append(g, c) ELSE g

Byte == input[pos]

Feeding ==
  /\ status = "feeding"
  /\ pos <= Len(input)

-----------------------------------------------------------------------------
(***************************************************************************)
(* pdkim_feed, header mode: one action per branch of the loop body.        *)
(***************************************************************************)
FeedHeaderCR ==
  /\ Feeding /\ PAST_HDRS \notin flags /\ Byte = CR
  /\ flags' = flags \cup {SEEN_CR}
  /\ curHeader' = CatHeader(curHeader, CR)
  /\ pos' = pos + 1
  /\ UNCHANGED <<input, body, headers, numHeaders, sigs, collect, linebuf, bh,
                 status>>

\* Mutant: a bare LF in the header section without the emulated CR.
FeedHeaderLF_noCR ==
  /\ Feeding /\ PAST_HDRS \notin flags /\ Byte = LF /\ SEEN_LF \notin flags
  /\ curHeader' = CatHeader(curHeader, LF)
  /\ flags' = (flags \ {SEEN_CR}) \cup {SEEN_LF}
  /\ pos' = pos + 1
  /\ UNCHANGED <<input, body, headers, numHeaders, sigs, collect, linebuf, bh,
                 status>>

\* LF ending a header line: emulate a missing CR, remember the LF.
FeedHeaderLF ==
  /\ Feeding /\ PAST_HDRS \notin flags /\ Byte = LF /\ SEEN_LF \notin flags
  /\ LET g == IF SEEN_CR \in flags THEN curHeader ELSE Append(curHeader, CR)
     IN curHeader' = CatHeader(g, LF)
  /\ flags' = (flags \ {SEEN_CR}) \cup {SEEN_LF}
  /\ pos' = pos + 1
  /\ UNCHANGED <<input, body, headers, numHeaders, sigs, collect, linebuf, bh,
                 status>>

\* LF of the empty line: the last header is complete, the body begins.
FeedHeaderEnd ==
  /\ Feeding /\ PAST_HDRS \notin flags /\ Byte = LF /\ SEEN_LF \in flags
  /\ LET g == IF SEEN_CR \in flags THEN curHeader ELSE Append(curHeader, CR)
         r == HeaderComplete(g)
     IN /\ ApplyHeaderComplete(r)
        /\ curHeader' = <<>>
        /\ flags' = IF r.rc = "OK"
                    THEN (flags \ {SEEN_LF, SEEN_CR}) \cup {PAST_HDRS}
                    ELSE flags
  /\ pos' = pos + 1
  /\ UNCHANGED <<input, body, linebuf>>

\* Any other octet: after a line end, a non-WSP octet completes the header.
FeedHeaderOther ==
  /\ Feeding /\ PAST_HDRS \notin flags /\ Byte \notin {CR, LF}
  /\ IF SEEN_LF \in flags /\ Byte \notin WSP
     THEN LET r == HeaderComplete(curHeader)
          IN /\ ApplyHeaderComplete(r)
             /\ curHeader' = IF r.rc = "OK" THEN CatHeader(<<>>, Byte) ELSE <<>>
             /\ flags' = IF r.rc = "OK" THEN flags \ {SEEN_LF} ELSE flags
     ELSE /\ curHeader' = CatHeader(curHeader, Byte)
          /\ flags' = flags \ {SEEN_LF}
          /\ UNCHANGED <<headers, numHeaders, sigs, collect, bh, status>>
  /\ pos' = pos + 1
  /\ UNCHANGED <<input, body, linebuf>>

(***************************************************************************)
(* pdkim_feed, body mode.                                                  *)
(***************************************************************************)
\* A bare LF whose emulated CR fills the line buffer: ERR_LONG_LINE.
FeedBodyLongLineCR ==
  /\ Feeding /\ PAST_HDRS \in flags /\ Byte = LF /\ SEEN_CR \notin flags
  /\ Len(linebuf) + 1 = MaxBodyLineLen - 1
  /\ linebuf' = Append(linebuf, CR)
  /\ status' = "ERR_LONG_LINE"
  /\ pos' = pos + 1
  /\ UNCHANGED <<input, body, flags, curHeader, headers, numHeaders, sigs,
                 collect, bh>>

\* LF: the line (with CR emulated if missing) is complete.
FeedBodyLineEnd ==
  /\ Feeding /\ PAST_HDRS \in flags /\ Byte = LF
  /\ SEEN_CR \in flags \/ Len(linebuf) + 1 # MaxBodyLineLen - 1
  /\ LET line == IF SEEN_CR \in flags THEN Append(linebuf, LF)
                 ELSE linebuf \o CRLF
         r    == BodylineComplete(flags, bh, line)
     IN /\ bh' = r.bh
        /\ flags' = (flags \ {SEEN_CR}) \cup (IF r.eod THEN {SEEN_EOD} ELSE {})
  /\ linebuf' = <<>>
  /\ pos' = pos + 1
  /\ UNCHANGED <<input, body, curHeader, headers, numHeaders, sigs, collect,
                 status>>

\* Mutant: the line-length test compares against the buffer size itself.
FeedBodyOther_offByOne ==
  /\ Feeding /\ PAST_HDRS \in flags /\ Byte # LF
  /\ linebuf' = Append(linebuf, Byte)
  /\ flags' = IF Byte = CR THEN flags \cup {SEEN_CR} ELSE flags
  /\ status' = IF Len(linebuf) + 1 = MaxBodyLineLen THEN "ERR_LONG_LINE" ELSE status
  /\ pos' = pos + 1
  /\ UNCHANGED <<input, body, curHeader, headers, numHeaders, sigs, collect,
                 bh>>

\* Any other octet is buffered; a full buffer is ERR_LONG_LINE.
FeedBodyOther ==
  /\ Feeding /\ PAST_HDRS \in flags /\ Byte # LF
  /\ linebuf' = Append(linebuf, Byte)
  /\ flags' = IF Byte = CR THEN flags \cup {SEEN_CR} ELSE flags
  /\ status' = IF Len(linebuf) + 1 = MaxBodyLineLen - 1
               THEN "ERR_LONG_LINE" ELSE status
  /\ pos' = pos + 1
  /\ UNCHANGED <<input, body, curHeader, headers, numHeaders, sigs, collect,
                 bh>>

(***************************************************************************)
(* pdkim_feed(ctx, NULL, 0): the end-of-data signal without dot-stuffing.  *)
(***************************************************************************)
FeedEOD ==
  /\ status = "feeding" /\ pos > Len(input)
  /\ DOT_TERM \notin flags /\ SEEN_EOD \notin flags
  /\ bh' = BodyComplete(bh)
  /\ flags' = flags \cup {SEEN_EOD}
  /\ linebuf' = <<>>
  /\ UNCHANGED <<input, body, pos, curHeader, headers, numHeaders, sigs,
                 collect, status>>

(***************************************************************************)
(* The loop of pdkim_feed_finish keeps, for every signature, what it      *)
(* computes: the status pair, the l= it signs (bodylength), the header    *)
(* hash input (data) and, when signing, the h= it builds (in sig.hnames); *)
(* and, as history, the inputs it consumed: whether bh= matched the body  *)
(* digest, the DNS reply, whether the RSA check succeeded.                 *)
(***************************************************************************)
NewEntry(s) ==
  [sig |-> s, status |-> "NONE", ext |-> "NONE", bodylength |-> s.key.limit,
   data |-> <<>>, bhOK |-> FALSE, reply |-> <<>>, crypto |-> FALSE,
   done |-> FALSE]

\* pdkim_finish_bodyhash when signing: a limit the hashed body does not
\* reach is removed.
\* Mutant: the l= tag kept whatever the body's length.
SignFinishBodyhash_keepL(s, bhv) == NewEntry(s)

SignFinishBodyhash(s, bhv) ==
  [NewEntry(s) EXCEPT !.bodylength =
     IF Len(bhv[s.key].hashed) < s.key.limit THEN -1 ELSE @]

\* pdkim_finish_bodyhash when verifying: without bh=, or with a bh= that
\* is not the digest, FAIL / FAIL_BODY.
VerifyFinishBodyhash(s, ok) ==
  IF ok THEN [NewEntry(s) EXCEPT !.bhOK = TRUE]
  ELSE [NewEntry(s) EXCEPT !.status = "FAIL", !.ext = "FAIL_BODY"]

(***************************************************************************)
(* pdkim_feed_finish up to its loop: a header section never closed by an  *)
(* empty line is completed and the missing body is one CRLF; the body     *)
(* hashes are finished; received signatures are sorted (the bh= outcome   *)
(* of each is independent of the order, and those the sort drops are not  *)
(* looked at again); no signature returns at once.                        *)
(***************************************************************************)
FeedFinish ==
  /\ status = "feeding" /\ pos > Len(input)
  /\ DOT_TERM \in flags \/ SEEN_EOD \in flags
  /\ LET r == IF curHeader # <<>> THEN HeaderComplete(curHeader)
              ELSE [headers |-> headers, numHeaders |-> numHeaders, sigs |-> sigs,
                    bh |-> bh, collect |-> collect, rc |-> "OK"]
         bhv == IF curHeader # <<>> /\ r.rc = "OK"
                THEN [k \in DOMAIN r.bh |-> UpdateCtxBodyhash(k, r.bh[k], CRLF)]
                ELSE r.bh
         sorted == SortSigMethods(r.sigs, VerifyHashes, VerifyKeytypes)
     IN /\ headers' = r.headers
        /\ numHeaders' = r.numHeaders
        /\ sigs' = r.sigs
        /\ collect' = r.collect
        /\ bh' = bhv
        /\ IF r.rc # "OK"
           THEN /\ status' = r.rc
                /\ UNCHANGED fin
           ELSE /\ IF MODE_SIGN \in flags
                   THEN fin' = [i \in DOMAIN r.sigs |-> SignFinishBodyhash(r.sigs[i], bhv)]
                   ELSE \E ok \in [DOMAIN sorted -> BOOLEAN] :
                          /\ \A i \in DOMAIN sorted : ok[i] => "bh" \in sorted[i].has
                          /\ fin' = [i \in DOMAIN sorted |->
                                       VerifyFinishBodyhash(sorted[i], ok[i])]
                /\ status' = IF fin' = <<>> THEN "finished" ELSE "finishing"
  \* with fewer than two signatures to walk, the break changes nothing
  /\ minimal' \in IF Len(fin') < 2 \/ MODE_SIGN \in flags THEN {FALSE} ELSE MinimalModes
  /\ curHeader' = <<>>
  /\ UNCHANGED <<input, body, pos, flags, linebuf, cursor, verifyPass>>

(***************************************************************************)
(* The verification half of the loop body for signature s, the reply r of *)
(* the DNS callback and the outcome of the RSA check: the status pair, and *)
(* whether the reply and the RSA outcome were used.                        *)
(***************************************************************************)
Outcome(st, ext, dns, rsa) == [status |-> st, ext |-> ext, dns |-> dns, rsa |-> rsa]

\* d=, s=, h=, bh=, b=, a known a= (every parsed signature has one) and v=.
Required(s) == {"d", "s", "h", "bh", "b"} \subseteq s.has /\ s.version # 0

Verdict(s, k, crypto) ==
  CASE ~Required(s)    -> Outcome("INVALID", "SIGNATURE_ERROR", FALSE, FALSE)
    [] s.version # 1   -> Outcome("INVALID", "DKIM_VERSION", FALSE, FALSE)
    [] ~k.ok           -> Outcome("INVALID", k.ext, TRUE, FALSE)
    [] ~HashAllowed(k, s.key.hash) ->
                          Outcome("FAIL", "SIG_ALGO_MISMATCH", TRUE, FALSE)
    [] ~crypto         -> Outcome("FAIL", "MESSAGE", TRUE, TRUE)
    [] MinRsaBits > k.keybits -> Outcome("FAIL", "PUBKEY_KEYSIZE", TRUE, TRUE)
    [] OTHER           -> Outcome("PASS", "NONE", TRUE, TRUE)

\* The loop moves on, and returns after the last signature it walks.
LoopNext(c) ==
  /\ cursor' = c
  /\ status' = IF c > Len(fin) THEN "finished" ELSE "finishing"

(***************************************************************************)
(* One iteration of the loop, signing: the headers the signature's        *)
(* sign_headers list matches are hashed, newest first, and h= is built.   *)
(***************************************************************************)
FinishSign ==
  /\ status = "finishing" /\ MODE_SIGN \in flags
  /\ LET e == fin[cursor]
         r == SignHeaders(headers, SplitOn(e.sig.signHeaders, ":"), e.sig.canonH)
     IN fin' = [fin EXCEPT ![cursor] =
                  [@ EXCEPT !.sig.hnames = r.hnames, !.data = r.data, !.done = TRUE]]
  /\ LoopNext(cursor + 1)
  /\ UNCHANGED <<feedState, verifyPass, minimal>>

(***************************************************************************)
(* One iteration, verifying, for a signature whose body hash failed: it   *)
(* is abandoned (the minimal-mode test is not reached).                    *)
(***************************************************************************)
FinishAbandon ==
  /\ status = "finishing" /\ MODE_SIGN \notin flags
  /\ fin[cursor].status = "FAIL"
  /\ LoopNext(cursor + 1)
  /\ UNCHANGED <<feedState, fin, verifyPass, minimal>>

(***************************************************************************)
(* One iteration, verifying any other signature: the headers h= names are  *)
(* hashed, then the signature header; the verdict; a PASS sets            *)
(* verify_pass, and in minimal mode ends the loop.                         *)
(***************************************************************************)
FinishVerify ==
  /\ status = "finishing" /\ MODE_SIGN \notin flags
  /\ fin[cursor].status # "FAIL"
  /\ \E r \in DnsReplies, crypto \in BOOLEAN :
     \E k \in {KeyFromDns(r)} :
     \E v \in {Verdict(fin[cursor].sig, k, crypto)} :
       LET e == fin[cursor]
           pass == verifyPass \/ v.status = "PASS"
       IN /\ fin' = [fin EXCEPT ![cursor] =
                       [@ EXCEPT !.status = v.status, !.ext = v.ext,
                                 !.data = VerifyHeaders(e.sig.hnames, headers, e.sig.canonH)
                                            \o SigHeaderData(e.sig),
                                 !.reply = IF v.dns THEN r ELSE <<>>,
                                 !.crypto = v.rsa /\ crypto,
                                 !.done = TRUE]]
          /\ verifyPass' = pass
          /\ LoopNext(IF pass /\ minimal THEN Len(fin) + 1 ELSE cursor + 1)
  /\ UNCHANGED <<feedState, minimal>>

-----------------------------------------------------------------------------
(***************************************************************************)
(* pdkim_init_verify / pdkim_init_context followed, when signing, by       *)
(* pdkim_set_sig_bodyhash for every configured signature.                  *)
(***************************************************************************)
Init ==
  \E m \in Messages, c \in CollectInputs :
    /\ input = m.input
    /\ body = m.body
    /\ pos = 1
    /\ flags = (IF m.dot THEN {DOT_TERM} ELSE {})
               \cup (IF m.mode = "sign" THEN {MODE_SIGN} ELSE {})
    /\ curHeader = <<>>
    /\ headers = <<>>
    /\ numHeaders = 0
    /\ sigs = IF m.mode = "sign" THEN SignSigs ELSE <<>>
    /\ collect = IF m.mode = "sign" THEN 0 ELSE c
    /\ linebuf = <<>>
    /\ bh = IF m.mode = "sign"
            THEN [k \in {SignSigs[i].key : i \in DOMAIN SignSigs} |-> NewBodyhash]
            ELSE <<>>
    /\ status = "feeding"
    /\ fin = <<>>
    /\ cursor = 1
    /\ verifyPass = FALSE
    /\ minimal = FALSE

\* The feed steps leave the finish loop's state alone.
FeedStep ==
  /\ \/ FeedHeaderCR
     \/ FeedHeaderLF
     \/ FeedHeaderEnd
     \/ FeedHeaderOther
     \/ FeedBodyLongLineCR
     \/ FeedBodyLineEnd
     \/ FeedBodyOther
     \/ FeedEOD
  /\ UNCHANGED finVars

Next ==
  \/ FeedStep
  \/ FeedFinish
  \/ FinishSign
  \/ FinishAbandon
  \/ FinishVerify

Spec == Init /\ [][Next]_vars

-----------------------------------------------------------------------------
Bytes == {CR, LF, SP, DOT, NUL, "a", "S", "X", ":", ";", "=", "-", "/", "+", "_"}
           \cup Lower \cup Range(Digits)
\* What the header hash is fed: relaxing lower-cases "S".
HashBytes == Bytes \cup {"dkim-signature"}

SigKeySet == [hash : {"sha1", "sha256", "sha512"},
              canon : {"simple", "relaxed"}, limit : Int]

SigSet == [key : SigKeySet, version : {-1, 0, 1}, canonH : {"simple", "relaxed"},
           hnames : Seq(Bytes), has : SUBSET {"d", "s", "h", "bh", "b"},
           signHeaders : Seq(Bytes), raw : Seq(Bytes)]

FinEntrySet ==
  [sig : SigSet, status : {"NONE", "PASS", "FAIL", "INVALID"},
   ext : {"NONE", "FAIL_BODY", "SIGNATURE_ERROR", "DKIM_VERSION",
          PUBKEY_UNAVAILABLE, PUBKEY_DNSRECORD, PUBKEY_IMPORT,
          "SIG_ALGO_MISMATCH", "MESSAGE", "PUBKEY_KEYSIZE"},
   bodylength : Int, data : Seq(HashBytes), bhOK : BOOLEAN,
   reply : Seq(RecordChars), crypto : BOOLEAN, done : BOOLEAN]

TypeOK ==
  /\ pos \in 1..(Len(input) + 1)
  /\ flags \subseteq Flags
  /\ curHeader \in Seq(Bytes)
  /\ headers \in Seq(Seq(Bytes))
  /\ numHeaders \in Nat
  /\ sigs \in Seq(SigSet)
  /\ collect \in Nat
  /\ linebuf \in Seq(Bytes)
  /\ DOMAIN bh \subseteq SigKeySet
  /\ \A k \in DOMAIN bh : bh[k].hashed \in Seq(Bytes) /\ bh[k].blanks \in Nat
  /\ status \in {"feeding", "finishing", "finished"} \cup Results
  /\ fin \in Seq(FinEntrySet)
  /\ cursor \in 1..(Len(fin) + 1)
  /\ verifyPass \in BOOLEAN
  /\ minimal \in BOOLEAN

-----------------------------------------------------------------------------
(***************************************************************************)
(* The state right after pdkim_feed_finish has finished the feed: its loop *)
(* has not started, or there is none.  The loop changes none of the feed's *)
(* variables, so what holds of them here holds until the end.             *)
(***************************************************************************)
FeedEnded ==
  \/ status = "finishing" /\ cursor = 1
  \/ status = "finished" /\ fin = <<>>

(***************************************************************************)
(* Once pdkim_feed_finish has run on a message with a non-empty body, every *)
(* body hash has been fed exactly the RFC 6376 canonical form of that body, *)
(* cut at the hash's l= limit.  It relates the whole-body definition to the *)
(* streaming code: CR emulation for bare LF, dot un-stuffing, blank lines   *)
(* held back across later lines and released or dropped at the end, the    *)
(* relaxing loop, the l= cut, and hashes created while headers are read.    *)
(***************************************************************************)
BodyHashCanonical ==
  FeedEnded /\ body # <<>> =>
    \A k \in DOMAIN bh : bh[k].hashed = Take(CanonBody(k.canon, body), k.limit)

(***************************************************************************)
(* spec.md section 8: an empty body canonicalises, in both modes, to a     *)
(* body hash equal to the hash of a single CRLF (pdkim_body_complete and   *)
(* the flush in pdkim_feed_finish).                                        *)
(***************************************************************************)
EmptyBodyHashesCRLF ==
  FeedEnded /\ body = <<>> =>
    \A k \in DOMAIN bh : k.limit < 0 => bh[k].hashed = CRLF

(***************************************************************************)
(* Once the feed finishes, the headers pdkim_header_complete stored for    *)
(* the header hash are the header fields of the input in arrival order,    *)
(* folded lines kept together and every line end a CRLF, the first         *)
(* PDKIM_MAX_HEADERS of them: the mode splitter finds the same field and   *)
(* section boundaries as RFC 5322 whatever mix of CRLF and bare LF is used. *)
(***************************************************************************)
HeadersUnfolded ==
  FeedEnded => Reverse(headers) = Take(HeaderFields(input), MaxHeaders)

(***************************************************************************)
(* When a verifying feed finishes, its signatures are, in arrival order,  *)
(* what RFC 6376 reads from the DKIM-Signature headers it stored: one for  *)
(* each header whose a= names a known key type and hash, with the body     *)
(* hash key of its a=, c= and l= tags, its v= and header canonicalisation, *)
(* and the header without the b= value and the CRLF that ends it.  It      *)
(* covers the scan's three states and its copy of the header across        *)
(* folding, white space around tags and values, tag order, b= next to bh=, *)
(* unknown tags and a final ";", for headers that are valid tag-lists and  *)
(* do not name rsa-sha512, which RFC 6376 does not define.                 *)
(***************************************************************************)
SigsAsTagLists ==
  LET sigHeaders == SelectSeq(Reverse(headers), IsSigHeader)
      usable == SelectSeq(sigHeaders, RefUsable)
  IN /\ FeedEnded /\ MODE_SIGN \notin flags
     /\ (\A j \in DOMAIN sigHeaders : RefValid(sigHeaders[j])
                                      /\ TagValue(sigHeaders[j], <<"a">>) # <<"r", "-", "5">>)
     => sigs = [i \in DOMAIN usable |-> RefSig(usable[i]).sig]

(***************************************************************************)
(* Every octet pdkim_feed writes into ctx->linebuf, and the NUL that       *)
(* pdkim_bodyline_complete writes after the line, lies inside the          *)
(* PDKIM_MAX_BODY_LINE_LEN buffer, on both the plain and the emulated-CR   *)
(* path: while the feed goes on, the buffer keeps room for one more octet  *)
(* and the NUL (an emulated CR plus LF end the line at the same offset).   *)
(***************************************************************************)
LineBufferBound ==
  /\ Len(linebuf) <= MaxBodyLineLen - 1
  /\ status = "feeding" => Len(linebuf) <= MaxBodyLineLen - 2

(***************************************************************************)
(* Signing, once pdkim_feed_finish has finished the body hashes: the l=    *)
(* value each signature will carry (sig->bodylength, -1 for none) counts   *)
(* exactly the canonical body octets its body hash took, and a verifier    *)
(* cutting the canonical body at that l= hashes the same octets.  It is    *)
(* about the test in pdkim_finish_bodyhash that drops l= when fewer octets *)
(* arrived than it asked for, against the limit the streaming hash applied.*)
(* An empty body is the finding of the run on EmptyBodyHashesCRLF.         *)
(***************************************************************************)
SignedLengthExact ==
  MODE_SIGN \in flags /\ body # <<>> =>
    \A i \in DOMAIN fin :
      /\ fin[i].bodylength >= 0 =>
           fin[i].bodylength = Len(bh[fin[i].sig.key].hashed)
      /\ Take(CanonBody(fin[i].sig.key.canon, body), fin[i].bodylength)
           = bh[fin[i].sig.key].hashed

VerifyHeadersAsRFC ==
  MODE_SIGN \notin flags /\ (\A h \in Range(headers) : HeaderName(h) = RefFieldName(h)) =>
    \A i \in DOMAIN fin :
      fin[i].done /\ fin[i].sig.hnames # <<>> =>
        fin[i].data = RefHeaderData(fin[i].sig, headers)

(***************************************************************************)
(* Verifying: for every key record pdkim_key_from_dns fetched and parsed,  *)
(* the signature is INVALID for a bad record exactly when the record is   *)
(* not a valid RFC 6376 key record (version, p= present, service type),   *)
(* and, for a valid record whose key imports, FAIL for the algorithm      *)
(* exactly when the record's h= does not allow the signature's hash.  It  *)
(* is about pdkim_parse_pubkey_record's white-space trimming, defaults and *)
(* tag checks, and the service test of pdkim_key_from_dns.  Records name   *)
(* every tag at most once.                                                 *)
(***************************************************************************)
PubkeyAsRFC ==
  \A i \in DOMAIN fin :
    fin[i].reply # <<>> /\ RefRecordUnique(fin[i].reply) =>
      /\ (fin[i].ext = PUBKEY_DNSRECORD) = ~RefRecordValid(fin[i].reply)
      /\ RefRecordValid(fin[i].reply) /\ fin[i].ext # PUBKEY_IMPORT =>
           ((fin[i].ext = "SIG_ALGO_MISMATCH")
              = ~RefHashAllowed(fin[i].reply, fin[i].sig.key.hash))

=============================================================================
