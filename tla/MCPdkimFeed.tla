---------------------------- MODULE MCPdkimFeed -----------------------------
(***************************************************************************)
(* Model-checking instance of PdkimFeed: small header sections chosen to   *)
(* cover folding, bare LF, a header section without body, two signature    *)
(* headers and more headers than PDKIM_MAX_HEADERS; every well-formed body *)
(* of up to MaxBodyLen octets; both feed modes, with and without SMTP      *)
(* dot-stuffing; five signatures to sign with, four body-hash keys.  And,  *)
(* for the signature-header parser, a family of DKIM-Signature headers     *)
(* fed in verify mode with one short body.                                  *)
(***************************************************************************)
EXTENDS PdkimFeed

MaxBodyLen == 5

\* Body-hash keys: relaxed and simple without limit, and with an l= limit.
K1 == [hash |-> "sha256", canon |-> "relaxed", limit |-> -1]
K2 == [hash |-> "sha256", canon |-> "simple",  limit |-> -1]
K3 == [hash |-> "sha256", canon |-> "relaxed", limit |-> 3]
K4 == [hash |-> "sha1",   canon |-> "simple",  limit |-> 2]

\* Signatures to sign with, two sharing a body hash, each with its
\* sign_headers list (pdkim_set_optional): plain, over- and never-signed
\* names, a name twice, an upper-case name, a name no header has.
\* pdkim_init_sign leaves version 0, no h= and no raw header.
SignSig(k, c, l) == [key |-> k, version |-> 0, canonH |-> c, hnames |-> <<>>,
                     has |-> {}, signHeaders |-> l, raw |-> <<>>]
MCSignSigs ==
  <<SignSig(K1, "relaxed", <<"x", ":", "y">>),
    SignSig(K2, "simple",  <<"+", "x", ":", "=", "y">>),
    SignSig(K1, "relaxed", <<"x", ":", "x", ":", "+", "y">>),
    SignSig(K3, "simple",  <<"X">>),
    SignSig(K4, "relaxed", <<"=", "x", ":", "z">>)>>

\* A DKIM-Signature header: the name, ":" and the tag-specs.
SigHdr(specs) == <<"S", ":">> \o FlattenSeq(specs)

\* Header sections, each with the empty line that ends it ...
\* (a folded signature header with bare LF; a signature header and another
\* header; two signature headers, then one header more than
\* PDKIM_MAX_HEADERS).
WithSeparator == {
  <<"a", CR, LF, CR, LF>>,
  SigHdr(<<<<"a", "=", "r", "-", "2", ";">>, <<LF, SP, "c", "=", "r", "/", "r">>>>)
    \o <<LF, LF>>,
  SigHdr(<<<<"a", "=", "r", "-", "2">>>>) \o <<CR, LF, "a", CR, LF, CR, LF>>,
  SigHdr(<<<<"a", "=", "r", "-", "2", ";", "c", "=", "s", "/", "r">>>>)
    \o <<CR, LF>>
    \o SigHdr(<<<<"a", "=", "r", "-", "1", ";", "l", "=", "2">>>>)
    \o <<LF, "a", CR, LF, "a", LF, LF>> }
\* ... and one without it (a message that has no body).
WithoutSeparator == { <<"a", CR, LF>> }

\* A body octet stream as the SMTP or local input delivers it: CR only in
\* CRLF, and ending with a line end.
WellFormedBody(b) ==
  /\ b = <<>> \/ Last(b) = LF
  /\ \A i \in DOMAIN b : b[i] = CR => i < Len(b) /\ b[i+1] = LF

BodyOctets == {"a", SP, DOT, CR, LF}

Bodies == {b \in BoundedSeq(BodyOctets, MaxBodyLen) : WellFormedBody(b)}

Wire(dot, hdr, b) == hdr \o (IF dot THEN DotStuff(b) \o DotTerminator ELSE b)

MessagesOver(modes, dots, bodies) ==
  {[mode |-> m, dot |-> d, input |-> Wire(d, h, b), body |-> b] :
     m \in modes, d \in dots, h \in WithSeparator, b \in bodies}
  \cup
  {[mode |-> m, dot |-> d, input |-> Wire(d, h, <<>>), body |-> <<>>] :
     m \in modes, d \in dots, h \in WithoutSeparator}


(***************************************************************************)
(* Tag-specs for the signature-header family, each a valid tag-spec: a=  *)
(* with a known or unknown algorithm, with white space around; c= with    *)
(* one or two names, after a fold; l= with its value after a fold; b=     *)
(* folded inside its value, and empty; bh=; v= right and wrong; unknown   *)
(* tags, one with "=" and "b" in its value.                                *)
(***************************************************************************)
TagA  == { <<"a", "=", "r", "-", "2">>,
           <<SP, "a", SP, "=", SP, "r", "-", "1", SP>>,
           <<"a", "=", "x", "-", "2">>,
           <<"a", "=", "r">> }
TagsB == { <<"c", "=", "r", "/", "r">>,
           <<"c", "=", "r">>,
           <<CR, LF, SP, "c", "=", "s", "/", "r">>,
           <<"l", "=", CR, LF, SP, "2">>,
           <<"b", "=", "z", CR, LF, SP, "y">>,
           <<"b", SP, "=", SP>>,
           <<"b", "h", "=", "y", "z">>,
           <<"v", "=", "1">>,
           <<"v", "=", "2">>,
           <<"z", "z", "=", "b", "=", "y">>,
           <<"e", "=", "y">> }

\* The name of a tag-spec: its letters before "=".
SpecName(sp) == SelectSeq(SubSeq(sp, 1, SelectInSeq(sp, LAMBDA x : x = "=") - 1),
                          LAMBDA x : x \in Lower)

\* An a= tag-spec and up to two others with other names, in every order,
\* with or without a final ";".
SigTagLists ==
  LET all == { <<x>> : x \in TagA }
             \cup UNION { {<<x, y>>, <<y, x>>} : x \in TagA, y \in TagsB }
             \cup UNION { {<<x, y, z>>, <<y, x, z>>, <<y, z, x>>} :
                          x \in TagA, y \in TagsB, z \in TagsB }
  IN { p \in all : \A i, j \in DOMAIN p : i # j => SpecName(p[i]) # SpecName(p[j]) }

SigHeaders ==
  { SigHdr([i \in DOMAIN p |-> IF i < Len(p) THEN p[i] \o <<";">> ELSE p[i]])
      \o term \o <<CR, LF>> : p \in SigTagLists, term \in {<<>>, <<";">>} }

MCSigMessages ==
  {[mode |-> "verify", dot |-> FALSE, input |-> h \o <<CR, LF, "a", CR, LF>>,
    body |-> <<"a", CR, LF>>] : h \in SigHeaders}


\* Well-formed bodies containing NUL octets.
NulBodies == {b \in BoundedSeq({"a", NUL, CR, LF}, 4) : WellFormedBody(b)}
MCMessagesNul == MessagesOver({"verify"}, {FALSE}, NulBodies)

(***************************************************************************)
(* Header sections for the header hash, fed with one short body in both   *)
(* modes: up to two of the headers "x:a", "X: a" and a folded "y:a"; when *)
(* verifying, under a DKIM-Signature header carrying every required tag,  *)
(* with h= lists taking one name, a name twice (one instance or two), an  *)
(* upper-case name, a name no header has; and two sections with two such *)
(* signatures of different hashes, for the sort and minimal mode.         *)
(***************************************************************************)
HX  == <<"x", ":", "a", CR, LF>>
HXU == <<"X", ":", SP, "a", CR, LF>>
HY  == <<"y", ":", "a", CR, LF, SP, "a", CR, LF>>
Plain == {HX, HXU, HY}
PlainBlocks == Plain \cup {a \o b : a, b \in Plain}

\* A TLA+ string as a sequence of characters, " " being SP.
Chars(str) == [i \in 1..Len(str) |-> IF SubSeq(str, i, i) = " " THEN SP
                                     ELSE SubSeq(str, i, i)]
SigFull(v, hash, canon, list) ==
  SigHdr(<<Chars("v=") \o v, Chars(";a=r-") \o hash, Chars(";c=") \o canon,
           Chars(";d=e;s=e;h=") \o list, Chars(";bh=y;b=z")>>) \o CRLF

HLists == {Chars("x"), Chars("x:x"), Chars("y:x"), Chars("X:y:x"), Chars("x:z")}
VerifyBlocks ==
  {SigFull(<<"1">>, <<"2">>, c, l) \o p :
     c \in {Chars("r/r"), Chars("s/s")}, l \in HLists, p \in PlainBlocks}
  \cup {SigFull(<<"2">>, <<"2">>, Chars("r/r"), Chars("x")) \o HX,
        SigFull(<<"1">>, <<"5">>, Chars("r/r"), Chars("x"))
          \o SigFull(<<"1">>, <<"2">>, Chars("s/s"), Chars("x")) \o HX,
        SigFull(<<"1">>, <<"1">>, Chars("r/r"), Chars("x"))
          \o SigFull(<<"1">>, <<"2">>, Chars("r/r"), Chars("x:x")) \o HX}

HashBody == <<"a", CR, LF>>
MCHashMessages ==
  {[mode |-> "sign", dot |-> FALSE, input |-> p \o CRLF \o HashBody,
    body |-> HashBody] : p \in PlainBlocks}
  \cup
  {[mode |-> "verify", dot |-> FALSE, input |-> h \o CRLF \o HashBody,
    body |-> HashBody] : h \in VerifyBlocks}

(***************************************************************************)
(* DNS TXT replies: none; minimal and fuller valid records, with white    *)
(* space around tags and values and ignored tags; an h= without sha256;   *)
(* a weak key; service email, and a service that is not for email; a      *)
(* wrong version; no p=; an empty key and a blob that is not a key.       *)
(***************************************************************************)
MCDnsReplies ==
  {<<>>, Chars("p=K"), Chars("v=D; p=K"), Chars("v=D;k=r;h=2:5;p=K;s=*"),
   Chars(" g=* ; t=y;x=Q; p = K ; "), Chars("h=1;p=K"), Chars("p=W"),
   Chars("s=E;p=K"), Chars("s=x;p=K"), Chars("v=x;p=K"), Chars("v=D"),
   Chars("p="), Chars("p=Q")}

MCMessages == MessagesOver({"sign", "verify"}, BOOLEAN, Bodies) \cup MCSigMessages
              \cup MCHashMessages

MCVerifyHashes == <<<<"2">>, <<"5">>>>
MCVerifyKeytypes == <<<<"d">>, <<"r">>>>
=============================================================================
