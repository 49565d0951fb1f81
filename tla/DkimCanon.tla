----------------------------- MODULE DkimCanon -----------------------------
(***************************************************************************)
(* Reference definitions of the RFC 6376 line model and canonicalisations, *)
(* written from the RFC text and spec.md section 4.2, NOT from pdkim.c.    *)
(* They are the abstract specification the streaming code in PdkimFeed is  *)
(* checked against.                                                        *)
(*                                                                         *)
(* Bytes are abstracted to a small alphabet:                               *)
(*   CR, LF     the line-ending octets                                     *)
(*   SP         any WSP octet (space or horizontal tab)                    *)
(*   DOT        the octet "."                                              *)
(*   NUL        the octet 0x00                                             *)
(*   "a"        any other octet                                            *)
(*   "S"        an octet that starts a "DKIM-Signature:" header name       *)
(***************************************************************************)
EXTENDS Integers, Sequences, SequencesExt

CR  == "CR"
LF  == "LF"
SP  == "SP"
DOT == "."
NUL == "NUL"

WSP  == {SP}
CRLF == <<CR, LF>>

\* The first n elements of s, or all of s when n is negative (no l= limit).
Take(s, n) == IF n < 0 \/ n >= Len(s) THEN s ELSE SubSeq(s, 1, n)

\* RFC 5322 line endings: a LF not preceded by CR stands for CRLF.
NormalizeEOL(s) ==
  FlattenSeq([i \in DOMAIN s |->
                IF s[i] = LF /\ (i = 1 \/ s[i-1] # CR) THEN CRLF ELSE <<s[i]>>])

\* Split a byte sequence into lines, each ending with its LF; a trailing
\* fragment without LF is kept as a last line.
RECURSIVE LinesOf(_)
LinesOf(s) ==
  IF s = <<>> THEN <<>>
  ELSE LET i == SelectInSeq(s, LAMBDA x : x = LF)
       IN IF i = 0 THEN <<s>>
          ELSE <<SubSeq(s, 1, i)>> \o LinesOf(SubSeq(s, i + 1, Len(s)))

EmptyLine(l) == l = CRLF

\* Drop the empty lines at the end of a sequence of lines.
RECURSIVE StripTrailingEmpty(_)
StripTrailingEmpty(ls) ==
  IF ls # <<>> /\ EmptyLine(Last(ls)) THEN StripTrailingEmpty(Front(ls))
  ELSE ls

(***************************************************************************)
(* Body canonicalisation, RFC 6376 3.4.3 and 3.4.4.                        *)
(***************************************************************************)
BodyLines(body) == LinesOf(NormalizeEOL(body))

\* "simple": ignore all empty lines at the end; no body becomes one CRLF.
CanonBodySimple(body) ==
  LET kept == StripTrailingEmpty(BodyLines(body))
  IN IF kept = <<>> THEN CRLF ELSE FlattenSeq(kept)

\* "relaxed", per line: every WSP run becomes one SP, WSP at the end of the
\* line is removed.
RelaxLine(l) ==
  LET content   == IF IsSuffix(CRLF, l) THEN SubSeq(l, 1, Len(l) - 2) ELSE l
      collapse(acc, c) ==
        IF c \in WSP /\ acc # <<>> /\ Last(acc) = SP THEN acc
        ELSE Append(acc, IF c \in WSP THEN SP ELSE c)
      collapsed == FoldLeft(collapse, <<>>, content)
      trimmed   == IF collapsed # <<>> /\ Last(collapsed) = SP
                   THEN Front(collapsed) ELSE collapsed
  IN trimmed \o CRLF

\* "relaxed": relax every line, then ignore empty lines at the end.
CanonBodyRelaxed(body) ==
  FlattenSeq(StripTrailingEmpty([i \in DOMAIN BodyLines(body) |->
                                   RelaxLine(BodyLines(body)[i])]))

CanonBody(canon, body) ==
  IF canon = "simple" THEN CanonBodySimple(body) ELSE CanonBodyRelaxed(body)

(***************************************************************************)
(* Header section of a byte stream: the lines before the first empty line, *)
(* grouped into fields (a line starting with WSP continues the field).     *)
(***************************************************************************)
HeaderLines(stream) ==
  LET ls  == LinesOf(NormalizeEOL(stream))
      sep == SelectInSeq(ls, EmptyLine)
  IN IF sep = 0 THEN ls ELSE SubSeq(ls, 1, sep - 1)

HeaderFields(stream) ==
  LET group(acc, l) ==
        IF acc # <<>> /\ l # <<>> /\ l[1] \in WSP
        THEN [acc EXCEPT ![Len(acc)] = @ \o l]
        ELSE Append(acc, l)
  IN FoldLeft(group, <<>>, HeaderLines(stream))

(***************************************************************************)
(* SMTP transparency (RFC 5321 4.5.2): a line starting with "." gets one   *)
(* more "." on the wire; the data ends with a line holding only ".".       *)
(***************************************************************************)
DotStuff(body) ==
  FlattenSeq([i \in DOMAIN LinesOf(body) |->
                LET l == LinesOf(body)[i]
                IN IF l[1] = DOT THEN <<DOT>> \o l ELSE l])

DotTerminator == <<DOT, CR, LF>>

=============================================================================
