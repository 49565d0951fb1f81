---------------------------- MODULE QueryProgram ----------------------------
(***************************************************************************)
(* The queryprogram router (src/routers/queryprogram.c) and the transport *)
(* lookup it falls back on (src/routers/rf_get_transport.c).               *)
(*                                                                         *)
(* queryprogram_router_entry runs a command as a child process, waits for *)
(* it in child_close with a timeout, reads one buffer of its output from   *)
(* the pipe and takes the first word of the output as the router's yield. *)
(* The child is the variable "child": the command writes its reply into   *)
(* the pipe, which holds PipeCap octets and is not read until the command *)
(* has exited, so a longer reply blocks the command until the timeout    *)
(* kills it.  The router reads at most BufSize - 1 octets.                *)
(*                                                                         *)
(* A reply is a sequence of one-character strings.  What is not in this  *)
(* source tree is a constant: the redirection data interpreter             *)
(* rda_interpret (RdaResults), rf_lookup_hostlist (HostResults) and the   *)
(* expansion of a transport name containing "$" (the expansions of         *)
(* RouterTransport).  expand_getkeyed (Keyed) takes "key=value" fields    *)
(* separated by white space.                                               *)
(***************************************************************************)
EXTENDS Integers, Sequences, SequencesExt, FiniteSets

CONSTANTS
  BufSize,        \* sizeof(buffer): 1024 in the code
  PipeCap,        \* octets the pipe holds before a write blocks
  ExitCodes,      \* what the command may exit with (0: success)
  Transports,     \* the names of the configured transports
  RouterTransport,\* the router's transport option: [name, expansions]
  HostResults,    \* what rf_lookup_hostlist may return
  RdaResults      \* redirection data -> [rc, gen] of rda_interpret

VARIABLE child    \* the command: [st, reply, written, status]

ASSUME /\ BufSize \in Nat \ {0, 1} /\ PipeCap \in Nat \ {0}
       /\ HostResults \subseteq {"OK", "DEFER", "PASS", "FAIL"}

WS == {" ", "\t", "\n"}          \* isspace() over the replies' characters

LowerCase == <<"a","b","c","d","e","f","g","h","i","j","k","l","m",
               "n","o","p","q","r","s","t","u","v","w","x","y","z">>
UpperCase == <<"A","B","C","D","E","F","G","H","I","J","K","L","M",
               "N","O","P","Q","R","S","T","U","V","W","X","Y","Z">>
Upper(c) == IF c \in Range(LowerCase)
            THEN UpperCase[CHOOSE k \in DOMAIN LowerCase : LowerCase[k] = c]
            ELSE c

\* strcmpic: equal but for the case of letters.
SameWord(w, kw) == Len(w) = Len(kw) /\ \A k \in DOMAIN w : Upper(w[k]) = Upper(kw[k])

REDIRECT == <<"R","E","D","I","R","E","C","T">>
ACCEPT   == <<"A","C","C","E","P","T">>
DECLINE  == <<"D","E","C","L","I","N","E">>
PASS     == <<"P","A","S","S">>
FAIL     == <<"F","A","I","L">>
TRANSPORT == <<"t","r","a","n","s","p","o","r","t">>
HOSTS    == <<"h","o","s","t","s">>
LOOKUP   == <<"l","o","o","k","u","p">>
LookupTypes == {<<"b","y","n","a","m","e">>, <<"b","y","d","n","s">>}

NoChild == [st |-> "none", reply |-> <<>>, written |-> 0, status |-> 0]

\* A yield of the router and the addresses it generated.
Res(rc, gen) == [rc |-> rc, gen |-> gen]
Defer == Res("DEFER", <<>>)

-----------------------------------------------------------------------------
\* s from its first character that is not white space.
SkipWs(s) == LET b == SelectInSeq(s, LAMBDA c : c \notin WS)
             IN IF b = 0 THEN <<>> ELSE SubSeq(s, b, Len(s))

\* Trailing white space removed (queryprogram.c 360-361).
RStrip(s) == SubSeq(s, 1, SelectLastInSeq(s, LAMBDA c : c \notin WS))

\* rword and rdata (queryprogram.c 365-369): the first word, and what
\* follows the one white-space character after it.
SplitReply(s) ==
  LET t == SkipWs(s)
      e == SelectInSeq(t, LAMBDA c : c \in WS)
  IN IF e = 0 THEN [word |-> t, data |-> <<>>]
     ELSE [word |-> SubSeq(t, 1, e - 1), data |-> SubSeq(t, e + 1, Len(t))]

\* The white-space separated fields of s.
RECURSIVE Fields(_)
Fields(s) ==
  LET t == SkipWs(s)
      e == SelectInSeq(t, LAMBDA c : c \in WS)
  IN CASE t = <<>> -> <<>>
       [] e = 0    -> <<t>>
       [] OTHER    -> <<SubSeq(t, 1, e - 1)>> \o Fields(SubSeq(t, e + 1, Len(t)))

\* expand_getkeyed(key, s): the value of the first field key=value.
Keyed(key, s) ==
  LET m == SelectSeq(Fields(s), LAMBDA f : IsPrefix(key \o <<"=">>, f))
  IN IF m = <<>> THEN <<>> ELSE SubSeq(m[1], Len(key) + 2, Len(m[1]))

-----------------------------------------------------------------------------
(***************************************************************************)
(* rf_get_transport (rf_get_transport.c 43-99) for a router that requires *)
(* a transport: whether it finds one.  An unset name fails; a name with   *)
(* "$" is expanded (failing when the expansion fails or is tainted) and   *)
(* looked up; a fixed name is looked up.  The transport it caches in the *)
(* router block is the one the lookup of the fixed name finds again.      *)
(***************************************************************************)
GetTransport(tp) ==
  CASE tp.name = <<>> -> {FALSE}
    [] "$" \in Range(tp.name) ->
         {x.kind = "value" /\ x.name \in Transports : x \in tp.expansions}
    [] OTHER -> {tp.name \in Transports}

\* Mutant: the hosts lookup type not checked.
AcceptYield_anyLookup(data) ==
  LET t == Keyed(TRANSPORT, data)
      h == Keyed(HOSTS, data)
  IN UNION {IF ~ok THEN {Defer}
            ELSE IF h # <<>> THEN {Res(r, <<>>) : r \in HostResults}
            ELSE {Res("OK", <<>>)}
            : ok \in IF t # <<>> THEN {t \in Transports}
                     ELSE GetTransport(RouterTransport)}

(***************************************************************************)
(* The ACCEPT yield (queryprogram.c 464-533): a transport=name field must  *)
(* name a transport, else the router's transport option is used; a        *)
(* hosts= field is looked up with the lookup= type, which must be byname  *)
(* or bydns, and a lookup result other than OK is the router's yield;     *)
(* then the address is queued for delivery.                                *)
(***************************************************************************)
AcceptYield(data) ==
  LET t == Keyed(TRANSPORT, data)
      h == Keyed(HOSTS, data)
      l == Keyed(LOOKUP, data)
  IN UNION {CASE ~ok -> {Defer}
              [] h # <<>> /\ l # <<>> /\ l \notin LookupTypes -> {Defer}
              [] h # <<>> -> {Res(r, <<>>) : r \in HostResults}
              [] OTHER -> {Res("OK", <<>>)}
            : ok \in IF t # <<>> THEN {t \in Transports}
                     ELSE GetTransport(RouterTransport)}

\* The REDIRECT yield (queryprogram.c 376-441): what rda_interpret makes of
\* the data; an empty list or an error defers.
RedirectYield(data) ==
  LET x == IF data \in DOMAIN RdaResults THEN RdaResults[data]
           ELSE [rc |-> "FF_ERROR", gen |-> <<>>]
  IN CASE x.rc = "FF_DELIVERED" -> Res("OK", x.gen)
       [] x.rc = "FF_FAIL"      -> Res("FAIL", x.gen)
       [] OTHER                 -> Defer

\* Mutant: the yield word compared with its case.
Yield_caseSensitive(buf) ==
  LET r == SplitReply(RStrip(buf))
  IN CASE buf = <<>> -> {Defer}
       [] r.word = REDIRECT -> {RedirectYield(r.data)}
       [] r.word = ACCEPT   -> AcceptYield(r.data)
       [] r.word = DECLINE  -> {Res("DECLINE", <<>>)}
       [] r.word = PASS     -> {Res("PASS", <<>>)}
       [] r.word = FAIL     -> {Res("FAIL", <<>>)}
       [] OTHER             -> {Defer}

\* Mutant: trailing white space left on the reply.
Yield_unstripped(buf) ==
  LET r == SplitReply(buf)
  IN CASE buf = <<>> -> {Defer}
       [] SameWord(r.word, REDIRECT) -> {RedirectYield(r.data)}
       [] SameWord(r.word, ACCEPT)   -> AcceptYield(r.data)
       [] SameWord(r.word, DECLINE)  -> {Res("DECLINE", <<>>)}
       [] SameWord(r.word, PASS)     -> {Res("PASS", <<>>)}
       [] SameWord(r.word, FAIL)     -> {Res("FAIL", <<>>)}
       [] OTHER                      -> {Defer}

(***************************************************************************)
(* What the router yields for the octets buf it read (queryprogram.c      *)
(* 350-462): no data defers; the first word, in any case, chooses the     *)
(* yield; FREEZE, DEFER and an unknown word defer.                         *)
(***************************************************************************)
Yield(buf) ==
  LET r == SplitReply(RStrip(buf))
  IN CASE buf = <<>> -> {Defer}
       [] SameWord(r.word, REDIRECT) -> {RedirectYield(r.data)}
       [] SameWord(r.word, ACCEPT)   -> AcceptYield(r.data)
       [] SameWord(r.word, DECLINE)  -> {Res("DECLINE", <<>>)}
       [] SameWord(r.word, PASS)     -> {Res("PASS", <<>>)}
       [] SameWord(r.word, FAIL)     -> {Res("FAIL", <<>>)}
       [] OTHER                      -> {Defer}

\* Mutant: the read takes the whole buffer.
ReadReply_whole(c) == SubSeq(c.reply, 1, Min({c.written, BufSize}))

\* The one read of the pipe (queryprogram.c 345-346): at most BufSize - 1
\* octets of what the command wrote.
ReadReply(c) == SubSeq(c.reply, 1, Min({c.written, BufSize - 1}))

\* What the router makes of the whole reply r of a command that exited:
\* the command exits only once its reply is in the pipe.
ReplyYield(r) == Yield(ReadReply([NoChild EXCEPT !.reply = r, !.written = Len(r)]))

\* Mutant: a command killed by the timeout taken as one that succeeded.
Outcome_killedOk(c, y) == IF c.status # 0 THEN {Defer} ELSE y

\* child_close and what follows it (queryprogram.c 319-341) for command c,
\* whose reply the router reads as y (ReplyYield): a command that timed
\* out, was killed or exited non-zero defers.
Outcome(c, y) == IF c.st = "killed" \/ c.status # 0 THEN {Defer} ELSE y

-----------------------------------------------------------------------------
\* child_open_uid (queryprogram.c 302-314): the command starts.
Spawn(reply) == [st |-> "running", reply |-> reply, written |-> 0, status |-> 0]

\* The command writes its reply; the write blocks when the pipe is full.
ChildWrite ==
  /\ child.st = "running"
  /\ child.written < Len(child.reply) /\ child.written < PipeCap
  /\ child' = [child EXCEPT !.written = Min({Len(child.reply), PipeCap})]

\* The command exits once its reply is written.
ChildExit ==
  /\ child.st = "running" /\ child.written = Len(child.reply)
  /\ \E s \in ExitCodes : child' = [child EXCEPT !.st = "exited", !.status = s]

\* Mutant: child_close waits without a timeout.
Timeout_never == FALSE /\ child' = child

\* child_close gives up after the timeout and the process group is killed
\* (queryprogram.c 319-330).
Timeout ==
  /\ child.st = "running"
  /\ child' = [child EXCEPT !.st = "killed"]

=============================================================================
