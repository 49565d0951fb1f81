------------------------------ MODULE SmtpWrite ------------------------------
(***************************************************************************)
(* The pipelining command buffer of the SMTP client (src/smtp_out.c,       *)
(* smtp_write_command and flush_buffer).                                   *)
(*                                                                         *)
(* A caller adds commands to outblock->buffer and says, per call, whether  *)
(* to keep buffering (SCMD_BUFFER) or to transmit (SCMD_MORE, SCMD_FLUSH). *)
(* A command that does not fit makes the buffer be flushed first.  The    *)
(* first transmission may be the early data of a deferred TCP Fast Open   *)
(* connect (outblock->conn_args).  A command is a record [n, len]: the    *)
(* number of the call that wrote it and its length in octets; its octets  *)
(* are len copies of n, so the peer's octet stream shows which command    *)
(* each octet belongs to.                                                  *)
(***************************************************************************)
EXTENDS Integers, Sequences, SequencesExt

CONSTANTS
  BufSize,      \* outblock->buffersize
  CmdLens,      \* lengths of the formatted commands the caller writes
  MaxCalls,     \* bound on calls of smtp_write_command
  AllowShort,   \* may send() transmit fewer octets than asked?
  StartConn     \* is the connect deferred (conn_args set) at the start?

ASSUME /\ BufSize \in Nat \ {0}
       /\ CmdLens \subseteq Nat \ {0}
       /\ MaxCalls \in Nat
       /\ AllowShort \in BOOLEAN /\ StartConn \subseteq BOOLEAN

Modes == {"buffer", "more", "flush"}   \* SCMD_BUFFER, SCMD_MORE, SCMD_FLUSH
NoCmd == 0                             \* format == NULL: flush only

Command == [n : 1..MaxCalls, len : CmdLens]

\* The octets of a list of commands, in order.
Bytes(cs) == FlattenSeq([i \in DOMAIN cs |-> [j \in 1..cs[i].len |-> cs[i].n]])

BufLen(cs) == Len(Bytes(cs))

\* What send(), tls_write() or smtp_connect() may return for the n octets
\* of the buffer: n, -1, or (send only) a short write of 0 < k < n octets.
Outcomes(cs, conn) ==
  {BufLen(cs), -1} \cup IF AllowShort /\ ~conn THEN 1..(BufLen(cs) - 1) ELSE {}

(***************************************************************************)
(* flush_buffer (smtp_out.c 550-627) over buffer cs, peer stream pr and   *)
(* conn_args cn, with rc the result of the system call (the connect's n,  *)
(* or what send() returns); rc <= 0 is failure and leaves buffer and      *)
(* count alone, any rc > 0 empties the buffer.                             *)
(***************************************************************************)
\* Mutant: the buffer pointer not reset after a successful flush.
Flush_noReset(cs, pr, cn, rc) ==
  [ok   |-> rc > 0,
   buf  |-> cs,
   peer |-> IF rc > 0 THEN pr \o SubSeq(Bytes(cs), 1, rc) ELSE pr,
   conn |-> cn /\ rc < 0,
   err  |-> rc < 0]

Flush(cs, pr, cn, rc) ==
  [ok   |-> rc > 0,
   buf  |-> IF rc > 0 THEN <<>> ELSE cs,
   peer |-> IF rc > 0 THEN pr \o SubSeq(Bytes(cs), 1, rc) ELSE pr,
   conn |-> cn /\ rc < 0,
   err  |-> rc < 0]

NoFlush(cs, pr, cn) == [ok |-> TRUE, buf |-> cs, peer |-> pr, conn |-> cn,
                        err |-> FALSE]

\* Mutant: the space test one octet too generous.
Fits_offByOne(cs, len) == len <= BufSize - BufLen(cs) + 1

\* The command fits in what is left of the buffer (smtp_out.c 676).
Fits(cs, len) == len <= BufSize - BufLen(cs)

\* Mutant: the commands flushed to make room are not counted.
OverflowCount_zero(cs, ovf) == 0

\* rc = outblock->cmd_count before that flush (smtp_out.c 678).
OverflowCount(cs, ovf) == IF ovf THEN Len(cs) ELSE 0

-----------------------------------------------------------------------------
VARIABLES
  outbuf,     \* the commands in outblock->buffer (cmd_count is its length)
  conn,       \* outblock->conn_args # NULL
  peer,       \* the octets the server has received
  calls,      \* calls of smtp_write_command so far
  alive,      \* FALSE once log_write_die has ended the process
  last,       \* the last call: its result and whether a system call failed
  accepted,   \* ghost: the commands copied into the buffer, in order
  reported,   \* ghost: the sum of the non-negative results
  failed      \* ghost: some call has returned -1

vars == <<outbuf, conn, peer, calls, alive, last, accepted, reported, failed>>

\* The end of a call that returns rc, with buffer b, stream pr, conn_args cn.
Return(rc, b, pr, cn, err, acc) ==
  /\ outbuf' = b /\ peer' = pr /\ conn' = cn
  /\ last' = [rc |-> rc, err |-> err]
  /\ accepted' = acc
  /\ reported' = IF rc >= 0 THEN reported + rc ELSE reported
  /\ failed' = (failed \/ rc = -1)

(***************************************************************************)
(* smtp_write_command(sx, mode, format) (smtp_out.c 650-713): a command   *)
(* of len octets, or len = NoCmd for format == NULL.  A command longer    *)
(* than the whole buffer ends the process.  A command that does not fit   *)
(* flushes the buffer first (o1), counting what it held; the command is   *)
(* then copied in, and unless mode is SCMD_BUFFER the buffer is flushed   *)
(* again (o2).  Either failed flush returns -1.                            *)
(***************************************************************************)
WriteCommand(mode, len) ==
  /\ alive /\ calls < MaxCalls
  /\ calls' = calls + 1
  /\ IF len > BufSize
     THEN /\ alive' = FALSE
          /\ UNCHANGED <<outbuf, conn, peer, last, accepted, reported, failed>>
     ELSE
       /\ alive' = TRUE
       /\ \E o1 \in Outcomes(outbuf, conn) :
          LET c   == [n |-> calls + 1, len |-> len]
              ovf == len # NoCmd /\ ~Fits(outbuf, len)
              f1  == IF ovf THEN Flush(outbuf, peer, conn, o1)
                     ELSE NoFlush(outbuf, peer, conn)
              rc1 == OverflowCount(outbuf, ovf)
              b2  == IF len = NoCmd THEN f1.buf ELSE Append(f1.buf, c)
              acc == IF len = NoCmd THEN accepted ELSE Append(accepted, c)
          IN \/ /\ ~f1.ok
                /\ Return(-1, f1.buf, f1.peer, f1.conn, f1.err, accepted)
             \/ /\ f1.ok /\ mode = "buffer"
                /\ Return(rc1, b2, f1.peer, f1.conn, FALSE, acc)
             \/ /\ f1.ok /\ mode # "buffer"
                /\ \E o2 \in Outcomes(b2, f1.conn) :
                     LET f2 == Flush(b2, f1.peer, f1.conn, o2)
                     IN Return(IF f2.ok THEN rc1 + Len(b2) ELSE -1,
                               f2.buf, f2.peer, f2.conn, f2.err, acc)

Init ==
  /\ outbuf = <<>>
  /\ conn \in StartConn
  /\ peer = <<>>
  /\ calls = 0
  /\ alive = TRUE
  /\ last = [rc |-> 0, err |-> FALSE]
  /\ accepted = <<>>
  /\ reported = 0
  /\ failed = FALSE

Next == \E mode \in Modes, len \in CmdLens \cup {NoCmd} : WriteCommand(mode, len)

Spec == Init /\ [][Next]_vars

-----------------------------------------------------------------------------
TypeOK ==
  /\ outbuf \in Seq(Command) /\ BufLen(outbuf) <= BufSize
  /\ conn \in BOOLEAN /\ alive \in BOOLEAN
  /\ peer \in Seq(1..MaxCalls)
  /\ calls \in 0..MaxCalls
  /\ last \in [rc : -1..MaxCalls, err : BOOLEAN]

(***************************************************************************)
(* The server receives the octets of the commands written, in order, each *)
(* exactly once: what it has received followed by what is still buffered  *)
(* is the stream of accepted commands.  This covers a flush that fails    *)
(* and is retried by a later call, and the early data of a deferred       *)
(* connect.                                                                *)
(***************************************************************************)
StreamIntact == peer \o Bytes(outbuf) = Bytes(accepted)

(***************************************************************************)
(* While no call has returned -1, the results count every command once:   *)
(* their sum plus the commands still buffered is the number of commands   *)
(* accepted.  The caller relies on it to know how many responses to read *)
(* (smtp_out.c 640-645: "+n if n commands transmitted").                   *)
(***************************************************************************)
CountExact == ~failed => reported + Len(outbuf) = Len(accepted)

=============================================================================
