------------------------------ MODULE SmtpRead ------------------------------
(***************************************************************************)
(* The response reader of the SMTP client (src/smtp_out.c,                 *)
(* read_response_line and smtp_read_response).                             *)
(*                                                                         *)
(* The server sends a script of responses as one octet stream; the network *)
(* cuts it into packets of any size up to inblock->buffersize.  A packet   *)
(* is read into the input block and kept there across calls, so that the   *)
(* next call starts with what is left of it.  Each call of                 *)
(* smtp_read_response copies the lines of one response into the caller's  *)
(* buffer, without their trailing white space and joined by newlines.      *)
(* Octets are abstracted to the digits "2" and "5", SP, "-", "x" (any      *)
(* other text octet), CR and LF.                                           *)
(***************************************************************************)
EXTENDS Integers, Sequences, SequencesExt

CONSTANTS
  Scripts,      \* the possible scripts: sequences of responses (octet seqs)
  InBufSize,    \* inblock->buffersize
  RespSizes,    \* the size argument of smtp_read_response
  OkDigits,     \* the okdigit argument
  MaxReads      \* bound on calls of smtp_read_response

CR == "CR"
LF == "LF"
SP == "SP"
Digits == {"2", "5"}
Spaces == {SP, CR, LF}          \* isspace() over the alphabet

ASSUME /\ InBufSize \in Nat \ {0}
       /\ RespSizes \subseteq Nat \ {0} /\ OkDigits \subseteq Digits
       /\ MaxReads \in Nat

\* Mutant: only the last white-space octet removed ("if" for "while").
StripTrailing_once(l) == IF l # <<>> /\ Last(l) \in Spaces THEN Front(l) ELSE l

\* while (p > buffer && isspace(p[-1])) p--;  (smtp_out.c 767)
RECURSIVE StripTrailing(_)
StripTrailing(l) ==
  IF l # <<>> /\ Last(l) \in Spaces THEN StripTrailing(Front(l)) ELSE l

\* Mutant: the space test dropped.
LineFull_never(size) == FALSE

\* if (--size < 4): no room for another octet, the newline and the NUL
\* (smtp_out.c 773).
LineFull(size) == size - 1 < 4

\* The format test of smtp_read_response (smtp_out.c 880-884) on a line l
\* as returned by read_response_line; ptr[3] is the NUL when Len(l) = 3.
WellFormed(l) ==
  /\ Len(l) >= 3
  /\ \A i \in 1..3 : l[i] \in Digits
  /\ Len(l) = 3 \/ l[4] \in {"-", SP}

Continues(l) == Len(l) > 3 /\ l[4] = "-"

\* Mutant: a recv() result of 0 (connection closed) not taken as failure.
RecvFailed_negOnly(rc) == rc < 0

\* ip_recv() <= 0: timeout, error or closed connection (smtp_out.c 784).
RecvFailed(rc) == rc <= 0

-----------------------------------------------------------------------------
(***************************************************************************)
(* The reference: RFC 5321 4.2 reply lines "code-text" and a last line    *)
(* "code" or "code SP text", and the comment at smtp_out.c 807-811: the    *)
(* lines without the white space at their ends, joined by newlines.        *)
(***************************************************************************)
RECURSIVE SplitLines(_)
SplitLines(r) ==
  LET i == SelectInSeq(r, LAMBDA c : c = LF)
  IN IF i = 0 THEN <<>>
     ELSE <<SubSeq(r, 1, i - 1)>> \o SplitLines(SubSeq(r, i + 1, Len(r)))

Trim(l) == SubSeq(l, 1, SelectLastInSeq(l, LAMBDA c : c \notin Spaces))

RefLines(r) == [i \in DOMAIN SplitLines(r) |-> Trim(SplitLines(r)[i])]

RefValid(r) ==
  LET ls == RefLines(r)
  IN /\ ls # <<>>
     /\ \A i \in DOMAIN ls :
          /\ Len(ls[i]) >= 3 /\ {ls[i][1], ls[i][2], ls[i][3]} \subseteq Digits
          /\ IF i = Len(ls) THEN Len(ls[i]) = 3 \/ ls[i][4] = SP
             ELSE Len(ls[i]) > 3 /\ ls[i][4] = "-"

RefText(r) ==
  FoldLeft(LAMBDA acc, l : IF acc = <<>> THEN l ELSE acc \o <<LF>> \o l,
           <<>>, RefLines(r))

-----------------------------------------------------------------------------
VARIABLES
  script,     \* the responses the server sends
  wire,       \* octets sent by the server and not yet received
  closed,     \* the server closes the connection after its script
  pending,    \* inblock->ptr .. inblock->ptrend
  pc,         \* "idle" between calls, "line" inside smtp_read_response
  line,       \* the octets of the current line copied so far (p - ptr)
  lsize,      \* read_response_line's size
  out,        \* the caller's buffer before the current line (ptr - buffer)
  rsize,      \* smtp_read_response's size
  bufSize,    \* the size the caller passed
  okd,        \* the okdigit the caller passed
  reads,      \* calls of smtp_read_response so far
  result,     \* the outcome of the last call
  maxWrite,   \* ghost: the largest offset of the caller's buffer written
  desync      \* ghost: an earlier call failed

vars == <<script, wire, closed, pending, pc, line, lsize, out, rsize, bufSize,
          okd, reads, result, maxWrite, desync>>

NoResult == [kind |-> "none", text |-> <<>>, yield |-> FALSE]

\* smtp_read_response(sx, buffer, size, okdigit, timeout): buffer[0] = 0.
StartRead(size, d) ==
  /\ pc = "idle" /\ reads < MaxReads
  /\ pc' = "line"
  /\ line' = <<>> /\ out' = <<>>
  /\ lsize' = size /\ rsize' = size /\ bufSize' = size /\ okd' = d
  /\ reads' = reads + 1
  /\ maxWrite' = 0
  /\ desync' = (desync \/ result.kind \notin {"none", "ok"})
  /\ result' = NoResult
  /\ UNCHANGED <<script, wire, closed, pending>>

(***************************************************************************)
(* One octet other than LF taken from the input block into the line        *)
(* (smtp_out.c 762-779); when the line has no more room the malformed line *)
(* is left NUL-terminated and the call returns FALSE.                      *)
(***************************************************************************)
StoreOctet ==
  /\ pc = "line" /\ pending # <<>> /\ Head(pending) # LF
  /\ LET at == Len(out) + Len(line)
     IN IF LineFull(lsize)
        THEN /\ pc' = "idle"
             /\ result' = [kind |-> "overflow", text |-> out \o line \o
                           <<Head(pending)>>, yield |-> FALSE]
             /\ maxWrite' = Max({maxWrite, at + 1})
        ELSE /\ maxWrite' = Max({maxWrite, at})
             /\ UNCHANGED <<pc, result>>
  /\ pending' = Tail(pending)
  /\ line' = Append(line, Head(pending))
  /\ lsize' = lsize - 1
  /\ UNCHANGED <<script, wire, closed, out, rsize, bufSize, okd, reads, desync>>

(***************************************************************************)
(* The LF that ends a line (smtp_out.c 765-770), then the checks of        *)
(* smtp_read_response (880-902): a malformed line ends the call with a     *)
(* format error, a "ddd-" line is followed by a newline and the next line, *)
(* any other line ends the response, whose yield is its first digit being *)
(* okdigit.                                                                *)
(***************************************************************************)
EndOfLine ==
  /\ pc = "line" /\ pending # <<>> /\ Head(pending) = LF
  /\ LET l == StripTrailing(line)
         count == Len(l)
     IN /\ maxWrite' = Max({maxWrite, Len(out) + count})
        /\ CASE ~WellFormed(l) ->
                  /\ pc' = "idle"
                  /\ result' = [kind |-> "format", text |-> out \o l,
                                yield |-> FALSE]
                  /\ UNCHANGED <<out, line, lsize, rsize>>
             [] Continues(l) ->
                  /\ out' = out \o l \o <<LF>>
                  /\ line' = <<>>
                  /\ rsize' = rsize - (count + 1)
                  /\ lsize' = rsize - (count + 1)
                  /\ UNCHANGED <<pc, result>>
             [] OTHER ->
                  /\ pc' = "idle"
                  /\ result' = [kind |-> "ok", text |-> out \o l,
                                yield |-> (out \o l)[1] = okd]
                  /\ out' = out \o l
                  /\ UNCHANGED <<line, lsize, rsize>>
  /\ pending' = Tail(pending)
  /\ UNCHANGED <<script, wire, closed, bufSize, okd, reads, desync>>

\* Mutant: the packet size not limited to the input block.
RecvResults_unbounded ==
  IF wire = <<>> THEN IF closed THEN {0} ELSE {-1}
  ELSE {-1} \cup 1..Len(wire)

\* What ip_recv() may return: a packet of the octets in flight, -1 on a
\* timeout, or 0 once the server has sent everything and closed.
RecvResults ==
  IF wire = <<>> THEN IF closed THEN {0} ELSE {-1}
  ELSE {-1} \cup 1..Min({InBufSize, Len(wire)})

(***************************************************************************)
(* The input block is empty inside a line: ip_recv() (smtp_out.c 784-799). *)
(* On failure the input block is emptied and the call returns FALSE.       *)
(***************************************************************************)
Recv ==
  /\ pc = "line" /\ pending = <<>>
  /\ \E rc \in RecvResults :
       IF RecvFailed(rc)
       THEN /\ pc' = "idle"
            /\ result' = [kind |-> "io", text |-> <<>>, yield |-> FALSE]
            /\ UNCHANGED <<wire, pending>>
       ELSE /\ pending' = SubSeq(wire, 1, Max({rc, 0}))
            /\ wire' = SubSeq(wire, Max({rc, 0}) + 1, Len(wire))
            /\ UNCHANGED <<pc, result>>
  /\ UNCHANGED <<script, closed, line, lsize, out, rsize, bufSize, okd, reads,
                 maxWrite, desync>>

Init ==
  /\ script \in Scripts
  /\ wire = FlattenSeq(script)
  /\ closed \in BOOLEAN
  /\ pending = <<>>
  /\ pc = "idle"
  /\ line = <<>> /\ out = <<>>
  /\ lsize = 0 /\ rsize = 0
  /\ bufSize \in RespSizes
  /\ okd \in OkDigits
  /\ reads = 0
  /\ result = NoResult
  /\ maxWrite = 0
  /\ desync = FALSE

ReadStep == StoreOctet \/ EndOfLine \/ Recv

Next ==
  \/ \E size \in RespSizes, d \in OkDigits : StartRead(size, d)
  \/ ReadStep

\* The caller's loop runs until the call returns, and ip_recv() returns by
\* the deadline: the steps of a call are weakly fair.
Spec == Init /\ [][Next]_vars /\ WF_vars(ReadStep)

-----------------------------------------------------------------------------
TypeOK ==
  /\ pc \in {"idle", "line"}
  /\ result.kind \in {"none", "ok", "format", "overflow", "io"}
  /\ reads \in 0..MaxReads
  /\ Len(pending) <= InBufSize

(***************************************************************************)
(* No write into the caller's buffer, of an octet, of the NUL or of the   *)
(* newline between lines, lies past its size: the room read_response_line *)
(* keeps, and the count + 1 that smtp_read_response takes off for the     *)
(* newline, cover every line of a multi-line response.                    *)
(***************************************************************************)
NoOverrun == maxWrite < bufSize

(***************************************************************************)
(* While no earlier call failed, the k-th call returns the k-th response  *)
(* of the script whatever packets it came in, with responses left over in *)
(* the input block from an earlier call: a valid response that fits the   *)
(* buffer is returned as the reference text, with yield TRUE exactly when *)
(* it starts with okdigit, and an invalid one is a format error.          *)
(***************************************************************************)
ReadsMatchScript ==
  (pc = "idle" /\ result.kind \in {"ok", "format"} /\ ~desync
     /\ reads <= Len(script)
     /\ Len(script[reads]) + 4 <= bufSize)
  => LET r == script[reads]
     IN IF RefValid(r)
        THEN result = [kind |-> "ok", text |-> RefText(r),
                       yield |-> RefText(r)[1] = okd]
        ELSE result.kind = "format"

(***************************************************************************)
(* Every call returns: each step of the loop consumes an octet or ends the *)
(* call, and a closed connection (recv() = 0) ends it too.                 *)
(***************************************************************************)
ReadReturns == [](pc = "line" => <>(pc = "idle"))

=============================================================================
