----------------------------- MODULE EximFilter -----------------------------
(***************************************************************************)
(* The Exim filter of src/miscmods/exim_filter.c: the parser              *)
(* (read_command, read_command_list), the interpreter (interpret_commands) *)
(* and filter_interpret, called once per filter file by one delivery       *)
(* process (the system filter, then each user's forward file).             *)
(*                                                                         *)
(* A filter file is a sequence of words.  Argument items are "x" (a well- *)
(* formed item) or "bad" (one whose expansion fails).  Conditions are     *)
(* read and tested by the operators of FilterCondition, on the same       *)
(* words; the delivered condition reads filter_delivered, which the       *)
(* commands before it set.  The parser's statics seen_force, seen_value   *)
(* and noerror_force live as long as the process and are VARIABLES; the   *)
(* rest of the parse state is a record threaded through the operators.    *)
(***************************************************************************)
EXTENDS Integers, Sequences, SequencesExt

CONSTANTS
  Files,        \* the filter files: [toks : word sequence, ast : its program]
  OptionSets,   \* the filter_options a call may get
  MaxCalls,     \* bound on the calls of filter_interpret in one process
  Spelling,     \* the characters of the operand words of conditions
  Message       \* what the message gives the keyword conditions:
                \* [personal, firsttime, errormsg, manualthaw]

Cond == INSTANCE FilterCondition

\* The command words, grouped by the case of read_command that reads them.
ArgCommands  == {"add", "deliver", "headers", "logfile", "logwrite", "pipe",
                 "save", "testprint"}
Terminators  == {"elif", "else", "endif"}
StopCommands == {"defer", "fail", "freeze"}
MailCommands == {"mail", "vacation"}
PrefixWords     == {"seen", "unseen", "noerror"}
\* command_exparg_count >= 128: seen unless "unseen" is given.
SeenByDefault == {"deliver", "pipe", "save"}
\* The mailargs keywords that occur in the modelled files.
MailArgWords == {"to", "text"}
\* RDO_DEFER, RDO_FAIL, RDO_FREEZE, RDO_LOG, RDO_REALLOG, f.system_filtering
Options == {"defer", "fail", "freeze", "log", "reallog", "system"}

Codes == {"DELIVERED", "NOTDELIVERED", "DEFER", "FAIL", "FREEZE", "ERROR"}
StopCode == [w \in StopCommands |-> IF w = "defer" THEN "DEFER"
                                    ELSE IF w = "fail" THEN "FAIL" ELSE "FREEZE"]

NoNode == [cmd |-> "none"]

\* The word at position p; "" past the end of the file (*ptr == 0).
Tok(t, p) == IF p <= Len(t) THEN t[p] ELSE ""

Fail(st) == [st EXCEPT !.err = TRUE]
Failed(st) == [st |-> Fail(st), node |-> NoNode]

-----------------------------------------------------------------------------
(***************************************************************************)
(* The parser.  A parse state st is [pos, err, sf, sv, nf, had, expect,   *)
(* opts]: the next word, *error_pointer # NULL, seen_force, seen_value,    *)
(* noerror_force, had_else_endif, expect_endif and filter_options.  A     *)
(* read returns [st, node]; NoNode for words that build no command.       *)
(***************************************************************************)
\* The condition block tree read_condition built.
Tree(c) == [nodes |-> c.nodes, root |-> c.root]

\* An if block with the condition c, the list y and the elif and else
\* sections e.
IfNode(c, y, e) == [cmd |-> "if", seen |-> FALSE, cond |-> Tree(c), yes |-> y.cmds, no |-> e.cmds]

\* The else list must end in endif.
ElseEnd(y) == [st |-> IF y.st.had # "endif" THEN Fail(y.st) ELSE y.st, cmds |-> y.cmds]

\* An elif section, read to its end.
ElifDone(c, y, e) == [st |-> e.st, cmds |-> <<IfNode(c, y, e)>>]

\* An if command, read to its endif.
IfDone(c, y, e) ==
  IF e.st.err THEN [st |-> e.st, node |-> NoNode]
  ELSE [st |-> [e.st EXCEPT !.had = "neither"], node |-> IfNode(c, y, e)]

RECURSIVE ReadCommand(_, _), ReadCommandList(_, _, _), ListLoop(_, _, _),
          ListNext(_, _, _), ReadIf(_, _), IfCond(_, _, _), IfList(_, _, _),
          IfTail(_, _), ElifCond(_, _, _), ElifList(_, _, _)

\* The add, deliver, headers, logfile, logwrite, pipe, save and testprint
\* commands: each reads its items with nextitem, which takes any word.
ReadArgCommand(t, st, w) ==
  LET a1 == Tok(t, st.pos)
      a2 == Tok(t, st.pos + 1)
      a3 == Tok(t, st.pos + 2)
      Node(arg, arg2) == [cmd |-> w, arg |-> arg, arg2 |-> arg2,
                          seen |-> IF st.sf THEN st.sv ELSE w \in SeenByDefault,
                          noerror |-> st.nf]
      Read(n, node) == [st |-> [st EXCEPT !.pos = @ + n], node |-> node]
  IN CASE (w \in {"add", "headers"} /\ (st.sf \/ st.nf)) \/ a1 = "" ->
            Failed(st)
       [] w = "add" ->
            IF a2 # "to" \/ a3 = "" THEN Failed(st) ELSE Read(3, Node(a1, a3))
       [] w = "headers" ->
            IF \/ a1 \notin {"add", "remove", "charset"}
               \/ a1 # "charset" /\ "system" \notin st.opts
               \/ a2 = ""
            THEN Failed(st) ELSE Read(2, Node(a2, a1))
       [] OTHER -> Read(1, Node(a1, "none"))

\* elif, else and endif only set had_else_endif, inside an if.
ReadTerminator(t, st, w) ==
  IF st.sf \/ st.nf \/ st.expect = 0 THEN Failed(st)
  ELSE [st |-> [st EXCEPT !.had = w], node |-> NoNode]

\* defer, fail and freeze (when permitted, with an optional text) and
\* finish; the first three set seen_value to FALSE before the command
\* block is built, so they never count as seen.
ReadDeferFinish(t, st, w) ==
  LET text   == w \in StopCommands /\ Tok(t, st.pos) = "text"
      fmsg   == CASE text -> Tok(t, st.pos + 1)
                  [] w \in StopCommands -> ""
                  [] OTHER -> "none"
      st1    == [st EXCEPT !.pos = @ + (IF text THEN 2 ELSE 0),
                           !.sv  = IF w \in StopCommands THEN FALSE ELSE @]
  IN IF w \in StopCommands /\ w \notin st.opts THEN Failed(st)
     ELSE [st |-> st1,
           node |-> [cmd |-> w, arg |-> fmsg, arg2 |-> "none",
                     seen |-> st1.sf /\ st1.sv, noerror |-> FALSE]]

\* mail and vacation: keyword/value pairs until a word that is no keyword.
ReadMail(t, st, w) ==
  LET RECURSIVE Pairs(_, _)
      Pairs(p, args) ==
        LET k == Tok(t, p)
            v == Tok(t, p + 1)
        IN IF k \notin MailArgWords THEN [pos |-> p, args |-> args]
           ELSE Pairs(p + (IF v = "" THEN 1 ELSE 2), [args EXCEPT ![k] = v])
      r == Pairs(st.pos, [to |-> "none", text |-> "none"])
  IN [st |-> [st EXCEPT !.pos = r.pos],
      node |-> [cmd |-> w, arg |-> r.args.to, arg2 |-> r.args.text,
                seen |-> st.sf /\ st.sv, noerror |-> st.nf]]

\* seen, unseen and noerror set the flags for the next command, even when
\* they are in error.
ReadSeenNoerror(t, st, w) ==
  LET atEnd == st.pos > Len(t)
  IN IF w = "noerror"
     THEN [st |-> [st EXCEPT !.nf = TRUE, !.err = @ \/ atEnd], node |-> NoNode]
     ELSE [st |-> [st EXCEPT !.sf = TRUE, !.sv = (w = "seen"),
                             !.err = @ \/ atEnd \/ st.sf],
           node |-> NoNode]

\* Mutant: only seen_force is cleared after a command.
ResetForces_seenOnly(r, w) ==
  IF w \in PrefixWords THEN r ELSE [r EXCEPT !.st.sf = FALSE]

\* After any command but seen, unseen and noerror, both forces are cleared.
ResetForces(r, w) ==
  IF w \in PrefixWords THEN r ELSE [r EXCEPT !.st.sf = FALSE, !.st.nf = FALSE]

\* read_command: the first word selects the case.
ReadCommand(t, st) ==
  LET w  == Tok(t, st.pos)
      s1 == [st EXCEPT !.pos = @ + 1]
      r  == CASE w \in ArgCommands  -> ReadArgCommand(t, s1, w)
              [] w \in Terminators  -> ReadTerminator(t, s1, w)
              [] w \in StopCommands \cup {"finish"} -> ReadDeferFinish(t, s1, w)
              [] w = "if"           -> ReadIf(t, s1)
              [] w \in MailCommands -> ReadMail(t, s1, w)
              [] w \in PrefixWords     -> ReadSeenNoerror(t, s1, w)
              [] OTHER              -> Failed(s1)
  IN ResetForces(r, w)

\* The loop of read_command_list: commands until the end of the file or
\* until an elif, else or endif has been read; r is the command just read.
ListLoop(t, st, cmds) ==
  IF st.pos > Len(t) \/ st.had # "neither" THEN [st |-> st, cmds |-> cmds]
  ELSE ListNext(t, cmds, ReadCommand(t, st))

ListNext(t, cmds, r) ==
  IF r.st.err THEN [st |-> r.st, cmds |-> cmds]
  ELSE ListLoop(t, r.st, IF r.node = NoNode THEN cmds ELSE Append(cmds, r.node))

\* The end of read_command_list: a conditional list must have ended in
\* elif, else or endif.
ListEnd(r, conditional) ==
  IF r.st.err \/ ~conditional THEN r
  ELSE [r EXCEPT !.st.expect = @ - 1, !.st.err = (r.st.had = "neither")]

\* read_command_list; a conditional list must end in elif, else or endif.
ReadCommandList(t, st, conditional) ==
  ListEnd(ListLoop(t, [st EXCEPT !.expect = IF conditional THEN @ + 1 ELSE @,
                                 !.had = "neither"], <<>>),
          conditional)

\* What follows a list of an if: the elif sections, each an if command in
\* the no-branch of the one before, then an optional else list.
IfTail(t, st) ==
  CASE st.had = "elif" -> ElifCond(t, st, Cond!ReadCondition(t, st.pos, <<>>, TRUE))
    [] st.had = "else" -> ElseEnd(ReadCommandList(t, st, TRUE))
    [] OTHER -> [st |-> st, cmds |-> <<>>]

\* An elif section whose condition c has been read.
ElifCond(t, st, c) ==
  IF c.err THEN [st |-> Fail(st), cmds |-> <<>>]
  ELSE ElifList(t, c, ReadCommandList(t, [st EXCEPT !.pos = c.pos], TRUE))

ElifList(t, c, y) ==
  IF y.st.err THEN [st |-> y.st, cmds |-> <<>>] ELSE ElifDone(c, y, IfTail(t, y.st))

\* The if command: no seen, unseen or noerror before it; a condition; the
\* commands for true; the elif and else sections.
ReadIf(t, st) == IfCond(t, st, Cond!ReadCondition(t, st.pos, <<>>, TRUE))

IfCond(t, st, c) ==
  IF st.sf \/ st.nf \/ c.err THEN Failed(st)
  ELSE IfList(t, c, ReadCommandList(t, [st EXCEPT !.pos = c.pos], TRUE))

IfList(t, c, y) ==
  IF y.st.err THEN [st |-> y.st, node |-> NoNode] ELSE IfDone(c, y, IfTail(t, y.st))

-----------------------------------------------------------------------------
(***************************************************************************)
(* The interpreter.  An execution state es is [delivered, finish, gen,    *)
(* logfd, logname, ret]: filter_delivered, finish_obeyed, the generated   *)
(* addresses (newest first), log_fd >= 0, log_filename, and the value     *)
(* interpret_commands returned ("none" while it runs).  en is the call's  *)
(* environment: [opts, rp, openFails, writeFails], rp saying whether the  *)
(* message has a return path.                                              *)
(***************************************************************************)
RECURSIVE InterpretCommands(_, _, _), DoIf(_, _, _), IfChosen(_, _, _, _), Continue(_, _, _)

\* The arguments interpret_commands expands (command_exparg_count & 15).
ExpandedArgs(c) ==
  CASE c.cmd \in {"pipe", "finish", "if"} -> {}
    [] c.cmd \in {"add"} \cup MailCommands -> {c.arg, c.arg2}
    [] OTHER -> {c.arg}

Return(es, code) == [es EXCEPT !.ret = code]

Generate(es, kind, c) ==
  [es EXCEPT !.gen = <<[kind |-> kind, noerror |-> c.noerror]>> \o @]

\* Mutant: the end of the list returns without a result code.
ListDone_noCode(es) == es

\* The end of a command list: FF_DELIVERED if a seen command was obeyed.
ListDone(es) == Return(es, IF es.delivered THEN "DELIVERED" ELSE "NOTDELIVERED")

\* logwrite: forbidden under RDO_LOG; under RDO_REALLOG it opens the log
\* file named by an earlier logfile, once, and writes to it.
DoLogwrite(es, en) ==
  CASE "log" \in en.opts -> Return(es, "ERROR")
    [] "reallog" \in en.opts ->
         CASE ~es.logfd /\ es.logname = "none" -> Return(es, "ERROR")
           [] ~es.logfd /\ en.openFails -> Return(es, "ERROR")
           [] en.writeFails -> Return(es, "ERROR")
           [] OTHER -> [es EXCEPT !.logfd = TRUE]
    [] OTHER -> es

\* The commands other than if, once their arguments are expanded.
ObeyCommand(c, es, en) ==
  CASE c.cmd \in {"deliver", "save", "pipe"} -> Generate(es, c.cmd, c)
    [] c.cmd = "logfile"  -> [es EXCEPT !.logfd = FALSE, !.logname = c.arg]
    [] c.cmd = "logwrite" -> DoLogwrite(es, en)
    [] c.cmd \in StopCommands -> Return(es, StopCode[c.cmd])
    [] c.cmd = "finish" -> [ListDone(es) EXCEPT !.finish = TRUE]
    [] c.cmd \in MailCommands -> IF en.rp THEN Generate(es, "mail", c) ELSE es
    [] OTHER -> es    \* add, headers, testprint

\* What test_condition sees: filter_delivered, f.system_filtering and
\* the message.
CondEnv(delivered, en) ==
  [delivered |-> delivered, system |-> "system" \in en.opts,
   personal |-> Message.personal, firsttime |-> Message.firsttime,
   errormsg |-> Message.errormsg, manualthaw |-> Message.manualthaw]

\* test_condition on the tree of an if command.
Test(c, es, en) == Cond!TestCondition(c.cond.nodes, c.cond.root, CondEnv(es.delivered, en))

\* Mutant: the result of the chosen list is passed up only when it is
\* not DELIVERED or NOTDELIVERED, whether or not finish was obeyed.
IfResult_noFinish(sub) ==
  IF sub.ret \notin {"DELIVERED", "NOTDELIVERED"} THEN sub ELSE [sub EXCEPT !.ret = "none"]

\* The result of the chosen list sub ends this list too after finish or
\* when it is neither FF_DELIVERED nor FF_NOTDELIVERED.
IfResult(sub) ==
  IF sub.finish \/ sub.ret \notin {"DELIVERED", "NOTDELIVERED"} THEN sub
  ELSE [sub EXCEPT !.ret = "none"]

\* if: a failing condition is an error; otherwise the chosen list is
\* interpreted.
DoIf(c, es, en) == IfChosen(c, es, en, Test(c, es, en))

IfChosen(c, es, en, v) ==
  IF v.err THEN Return(es, "ERROR")
  ELSE IfResult(InterpretCommands(IF v.val THEN c.yes ELSE c.no, es, en))

\* interpret_commands: expand the arguments, note a seen command, obey it.
InterpretCommands(cmds, es, en) ==
  CASE cmds = <<>> -> ListDone(es)
    [] "bad" \in ExpandedArgs(Head(cmds)) -> Return(es, "ERROR")
    [] OTHER ->
         Continue(cmds,
                  IF Head(cmds).cmd = "if"
                  THEN DoIf(Head(cmds), es, en)
                  ELSE ObeyCommand(Head(cmds), IF Head(cmds).seen
                                               THEN [es EXCEPT !.delivered = TRUE] ELSE es, en),
                  en)

\* The next command, unless the one just obeyed ended the list.
Continue(cmds, es2, en) == IF es2.ret # "none" THEN es2 ELSE InterpretCommands(Tail(cmds), es2, en)

-----------------------------------------------------------------------------
VARIABLES
  seenForce,     \* seen_force
  seenValue,     \* seen_value
  noerrorForce,  \* noerror_force
  calls,         \* calls of filter_interpret so far
  last           \* the call whose result the router has not yet taken

vars == <<seenForce, seenValue, noerrorForce, calls, last>>

NoCall == [file |-> "none"]

\* What the environment decides: is there a return path, does the open
\* of the filter log fail, does a write to it fail.
Envs == [rp : BOOLEAN, openFails : BOOLEAN, writeFails : BOOLEAN]

CallEnv(o, en) == [opts |-> o, rp |-> en.rp, openFails |-> en.openFails,
                   writeFails |-> en.writeFails]

\* The parse state filter_interpret starts read_command_list with.
StartState(o) ==
  [pos |-> 1, err |-> FALSE, sf |-> FALSE, sv |-> seenValue,
   nf |-> noerrorForce, had |-> "neither", expect |-> 0, opts |-> o]

(***************************************************************************)
(* filter_interpret: parse the whole file, and interpret it when the      *)
(* parse succeeded.  The result waits in last for the router.             *)
(***************************************************************************)
FilterInterpret(f, o, en) ==
  /\ last = NoCall /\ calls < MaxCalls
  /\ LET p   == ReadCommandList(f.toks, StartState(o), FALSE)
         es0 == [delivered |-> FALSE, finish |-> FALSE, gen |-> <<>>,
                 logfd |-> FALSE, logname |-> "none", ret |-> "none"]
         r   == IF p.st.err THEN Return(es0, "ERROR")
                ELSE InterpretCommands(p.cmds, es0, CallEnv(o, en))
     IN /\ seenForce' = p.st.sf
        /\ seenValue' = p.st.sv
        /\ noerrorForce' = p.st.nf
        /\ calls' = calls + 1
        /\ last' = [file |-> f, opts |-> o, env |-> en, parsed |-> ~p.st.err,
                    cmds |-> p.cmds, yield |-> r.ret, gen |-> r.gen]

\* The redirect router takes the result and the generated addresses.
Handled ==
  /\ last # NoCall
  /\ last' = NoCall
  /\ UNCHANGED <<seenForce, seenValue, noerrorForce, calls>>

Init ==
  /\ seenForce = FALSE /\ seenValue = FALSE /\ noerrorForce = FALSE
  /\ calls = 0
  /\ last = NoCall

Next ==
  \/ \E f \in Files, o \in OptionSets, en \in Envs : FilterInterpret(f, o, en)
  \/ Handled

Spec == Init /\ [][Next]_vars

-----------------------------------------------------------------------------
(***************************************************************************)
(* Reference.  A filter program is a list of statements: a command        *)
(* [k, pre, arg, arg2], pre being the seen, unseen and noerror words      *)
(* before it, or an if [k |-> "if", pre, arms, els] with arms a list of    *)
(* [c, body] (the if and its elifs) and els <<>> or <<else list>>.         *)
(* ProgramWords writes a program as the words of a file; RefTree is the    *)
(* command tree the comments of read_command describe for it, and RefRun   *)
(* what the comments of interpret_commands and filter_interpret say it     *)
(* does.                                                                   *)
(***************************************************************************)
RECURSIVE ProgramWords(_), StatementWords(_), ElifWords(_)

ProgramWords(l) == IF l = <<>> THEN <<>> ELSE StatementWords(Head(l)) \o ProgramWords(Tail(l))

ElifWords(arms) ==
  IF arms = <<>> THEN <<>>
  ELSE <<"elif">> \o Head(arms).c \o ProgramWords(Head(arms).body) \o ElifWords(Tail(arms))

StatementWords(a) ==
  a.pre \o
  CASE a.k = "if" ->
         <<"if">> \o a.arms[1].c \o ProgramWords(a.arms[1].body) \o ElifWords(Tail(a.arms))
         \o (IF a.els = <<>> THEN <<>> ELSE <<"else">> \o ProgramWords(a.els[1]))
         \o <<"endif">>
    [] a.k = "add"     -> <<"add", a.arg, "to", a.arg2>>
    [] a.k = "headers" -> <<"headers", a.arg2, a.arg>>
    [] a.k \in StopCommands ->
         <<a.k>> \o (IF a.arg = "" THEN <<>> ELSE <<"text", a.arg>>)
    [] a.k = "finish"  -> <<"finish">>
    [] a.k \in MailCommands ->
         <<a.k>> \o (IF a.arg = "none" THEN <<>> ELSE <<"to", a.arg>>)
                 \o (IF a.arg2 = "none" THEN <<>> ELSE <<"text", a.arg2>>)
    [] OTHER -> <<a.k, a.arg>>

\* The condition envs the reference distinguishes.
CondEnvs == {CondEnv(d, [opts |-> o]) : d \in BOOLEAN, o \in {{}, {"system"}}}

\* A condition, by what it gives in each condition env: a condition tree
\* of test_condition, or the reference's reading ast of it.
TreeMeaning(nodes, root) == [e \in CondEnvs |-> Cond!Outcome(Cond!TestCondition(nodes, root, e))]
RefMeaning(ast) == [e \in CondEnvs |-> Cond!Outcome(Cond!RefEval(ast, e))]

\* An if arm with the condition words c, read by the grammar as r (it must
\* take all of c), the trees ys of its body and nos of what follows it.
RefArm(c, r, ys, nos) ==
  IF ~r.ok \/ r.pos # Len(c) + 1 THEN {}
  ELSE {[cmd |-> "if", seen |-> FALSE, cond |-> RefMeaning(r.ast), yes |-> y, no |-> n] :
          y \in ys, n \in nos}

\* The node of a command preceded by the words in words.
RefNode(a, words) ==
  [cmd |-> a.k, arg |-> a.arg, arg2 |-> a.arg2,
   seen |-> IF "seen" \in words THEN TRUE
            ELSE IF "unseen" \in words THEN FALSE
            ELSE a.k \in SeenByDefault,
   noerror |-> "noerror" \in words]

RECURSIVE RefTree(_, _), RefStatement(_, _), RefArms(_, _, _)

\* The command trees of program l under options o: none if it is an
\* error, else the one tree.
RefTree(l, o) ==
  IF l = <<>> THEN {<<>>}
  ELSE {<<h>> \o r : h \in RefStatement(Head(l), o), r \in RefTree(Tail(l), o)}

\* An if with its elifs: each elif is an if in the no-branch of the one
\* before it.
RefArms(arms, els, o) ==
  RefArm(Head(arms).c, Cond!RefCondition(Head(arms).c), RefTree(Head(arms).body, o),
         IF Len(arms) > 1 THEN {<<e>> : e \in RefArms(Tail(arms), els, o)}
         ELSE IF els = <<>> THEN {<<>>} ELSE RefTree(els[1], o))

(***************************************************************************)
(* "Seen defaults TRUE for delivery commands, FALSE for logging           *)
(* commands"; defer, fail and freeze "never set seen"; seen, unseen and   *)
(* noerror may not come before add, headers and if, and seen or unseen   *)
(* at most once; headers add and remove are for system filters, defer,    *)
(* fail and freeze for filters that permit them.                          *)
(***************************************************************************)
RefStatement(a, o) ==
  CASE Len(SelectSeq(a.pre, LAMBDA w : w # "noerror")) > 1
         \/ (a.k \in {"add", "headers", "if"} /\ a.pre # <<>>) -> {}
    [] a.k \in StopCommands /\ a.k \notin o -> {}
    [] a.k = "headers" /\ a.arg2 # "charset" /\ "system" \notin o -> {}
    [] a.k = "if" -> RefArms(a.arms, a.els, o)
    [] a.k \in StopCommands \cup {"finish"} ->
         {[RefNode(a, Range(a.pre)) EXCEPT !.seen = a.k = "finish" /\ @, !.noerror = FALSE]}
    [] OTHER -> {RefNode(a, Range(a.pre))}

\* State s after statement a stops with code; s1 with a generated address.
RefStop(s, code) == [s EXCEPT !.stop = code]
RefMade(a, s1, kind) ==
  [s1 EXCEPT !.gen = <<[kind |-> kind, noerror |-> "noerror" \in Range(a.pre)]>> \o @]

\* logwrite from s (s1 with a seen one noted): a log file is opened once,
\* from an earlier logfile.
RefLogwrite(s, s1, en) ==
  CASE "log" \in en.opts -> RefStop(s, "ERROR")
    [] "reallog" \notin en.opts -> s1
    [] s1.logfd -> IF en.writeFails THEN RefStop(s, "ERROR") ELSE s1
    [] s1.logname = "none" \/ en.openFails \/ en.writeFails -> RefStop(s, "ERROR")
    [] OTHER -> [s1 EXCEPT !.logfd = TRUE]

\* A statement other than if, from s, s1 being s with a seen one noted.
RefObey(a, s, s1, en) ==
  CASE "bad" \in ExpandedArgs([cmd |-> a.k, arg |-> a.arg, arg2 |-> a.arg2]) -> RefStop(s, "ERROR")
    [] a.k \in {"deliver", "save", "pipe"} -> RefMade(a, s1, a.k)
    [] a.k \in MailCommands -> IF en.rp THEN RefMade(a, s1, "mail") ELSE s1
    [] a.k \in StopCommands -> RefStop(s, StopCode[a.k])
    [] a.k = "finish" -> RefStop(s1, "finish")
    [] a.k = "logfile" -> [s1 EXCEPT !.logfd = FALSE, !.logname = a.arg]
    [] a.k = "logwrite" -> RefLogwrite(s, s1, en)
    [] OTHER -> s1

RECURSIVE RefRun(_, _, _), RefStep(_, _, _), RefChoose(_, _, _, _), RefPick(_, _, _, _, _)

\* The program l run from state s = [stop, delivered, gen, logfd, logname]:
\* statements in order until one stops the filter.
RefRun(l, s, en) ==
  IF l = <<>> \/ s.stop # "none" THEN s ELSE RefRun(Tail(l), RefStep(Head(l), s, en), en)

RefStep(a, s, en) ==
  IF a.k = "if" THEN RefChoose(a.arms, a.els, s, en)
  ELSE RefObey(a, s, [s EXCEPT !.delivered = @ \/ (RefNode(a, Range(a.pre)).seen
                                                    /\ a.k \notin StopCommands)], en)

\* The first arm whose condition holds runs; a failing condition stops.
RefChoose(arms, els, s, en) ==
  IF arms = <<>> THEN IF els = <<>> THEN s ELSE RefRun(els[1], s, en)
  ELSE RefPick(arms, els, s, en,
               Cond!RefEval(Cond!RefCondition(Head(arms).c).ast, CondEnv(s.delivered, en)))

RefPick(arms, els, s, en, v) ==
  CASE v.err -> RefStop(s, "ERROR")
    [] v.val -> RefRun(Head(arms).body, s, en)
    [] OTHER -> RefChoose(Tail(arms), els, s, en)

RefStart == [stop |-> "none", delivered |-> FALSE, gen |-> <<>>,
             logfd |-> FALSE, logname |-> "none"]

\* "FF_DELIVERED: success, a significant action was taken".
RefYield(s) ==
  IF s.stop \in {"none", "finish"}
  THEN IF s.delivered THEN "DELIVERED" ELSE "NOTDELIVERED"
  ELSE s.stop

-----------------------------------------------------------------------------
TypeOK ==
  /\ seenForce \in BOOLEAN /\ seenValue \in BOOLEAN /\ noerrorForce \in BOOLEAN
  /\ calls \in 0..MaxCalls
  /\ last = NoCall \/
       /\ last.yield \in Codes /\ last.parsed \in BOOLEAN
       /\ last.gen \in Seq([kind : {"deliver", "save", "pipe", "mail"},
                            noerror : BOOLEAN])

\* The command tree with each condition tree replaced by its meaning.
RECURSIVE AsMeant(_)
AsMeant(cmds) ==
  [i \in DOMAIN cmds |->
     IF cmds[i].cmd # "if" THEN cmds[i]
     ELSE [cmds[i] EXCEPT
             !.cond = TreeMeaning(cmds[i].cond.nodes, cmds[i].cond.root),
             !.yes = AsMeant(@), !.no = AsMeant(@)]]

\* The parse of the last call against the trees e its program has.
TreesAsWritten(e) == IF e = {} THEN ~last.parsed ELSE last.parsed /\ AsMeant(last.cmds) \in e

\* The run of the last call against the reference's run s.
RunAsWritten(s) == last.yield = RefYield(s) /\ last.gen = s.gen

(***************************************************************************)
(* Every filter is parsed as it is written, whatever filters the process  *)
(* ran before: a well-formed program gives exactly the command tree the   *)
(* comments of read_command describe (each command seen or unseen and    *)
(* noerror as the words just before it say, elif sections nested as ifs), *)
(* and a malformed one is rejected.  It relates the parse of one file to  *)
(* the statics the parses of earlier files left behind.  A condition is   *)
(* compared by what test_condition makes of its tree, in every condition  *)
(* env, against the grammar and evaluation order of FilterCondition's     *)
(* reference: and binding more tightly than or, left to right.           *)
(***************************************************************************)
ParsesAsWritten ==
  last # NoCall =>
    TreesAsWritten(IF last.file.formed THEN RefTree(last.file.ast, last.opts) ELSE {})

(***************************************************************************)
(* A filter that parses does what its program says: the result code of   *)
(* filter_interpret and the generated addresses are those of running the *)
(* statements in order, taking the first if or elif arm whose condition  *)
(* holds, until finish, defer, fail, freeze or an error stops everything, *)
(* also from inside nested ifs.                                           *)
(***************************************************************************)
ResultAsWritten ==
  last # NoCall /\ last.parsed /\ last.file.formed =>
    RunAsWritten(RefRun(last.file.ast, RefStart, CallEnv(last.opts, last.env)))

=============================================================================
