---------------------------- MODULE MCEximFilter ----------------------------
(***************************************************************************)
(* Filter files for EximFilter: every program built from a set of        *)
(* commands covering each command word with and without seen, unseen and *)
(* noerror, pairs of them, ifs with elif and else sections over three    *)
(* conditions, ifs after a delivery, nested ifs, and hand-written         *)
(* malformed files.                                                       *)
(***************************************************************************)
EXTENDS EximFilter

Cmd(k, pre, arg, arg2) == [k |-> k, pre |-> pre, arg |-> arg, arg2 |-> arg2]
If(arms, els) == [k |-> "if", pre |-> <<>>, arg |-> "none", arg2 |-> "none",
                  arms |-> arms, els |-> els]
Arm(c, body) == [c |-> c, body |-> body]

D   == Cmd("deliver", <<>>, "x", "none")
UD  == Cmd("deliver", <<"unseen">>, "x", "none")
DB  == Cmd("deliver", <<>>, "bad", "none")
NS  == Cmd("save", <<"noerror">>, "x", "none")
SNP == Cmd("pipe", <<"seen", "noerror">>, "bad", "none")
NUP == Cmd("pipe", <<"noerror", "unseen">>, "x", "none")
LF  == Cmd("logfile", <<>>, "x", "none")
LW  == Cmd("logwrite", <<>>, "x", "none")
SLW == Cmd("logwrite", <<"seen">>, "x", "none")
TP  == Cmd("testprint", <<"unseen">>, "x", "none")
AD  == Cmd("add", <<>>, "x", "x")
SAD == Cmd("add", <<"seen">>, "x", "x")
HA  == Cmd("headers", <<>>, "x", "add")
HC  == Cmd("headers", <<>>, "bad", "charset")
F   == Cmd("finish", <<>>, "none", "none")
SF  == Cmd("finish", <<"seen">>, "none", "none")
DF  == Cmd("defer", <<>>, "", "none")
SFT == Cmd("fail", <<"seen">>, "x", "none")
NFZ == Cmd("freeze", <<"noerror">>, "bad", "none")
M   == Cmd("mail", <<>>, "x", "none")
SV  == Cmd("vacation", <<"seen">>, "none", "x")
NM  == Cmd("mail", <<"noerror">>, "none", "none")
SUD == Cmd("deliver", <<"seen", "unseen">>, "x", "none")

Commands == {D, UD, DB, NS, SNP, NUP, LF, LW, SLW, TP, AD, SAD, HA, HC, F, SF,
             DF, SFT, NFZ, M, SV, NM, SUD}

\* The conditions with their "then": delivered; one whose and-chain an
\* "or" must climb back over, (delivered and 1 above 12 and x is x) or not
\* delivered; and one whose second operand fails to expand once delivered
\* is true.
Dl  == <<"delivered", "then">>
Nd  == <<"delivered", "and", "1", "above", "12", "and", "x", "is", "x", "or", "not",
         "delivered", "then">>
Err == <<"delivered", "and", "bad", "is", "x", "then">>

Conds  == {Dl, Nd, Err}
Bodies == {<<>>, <<D>>, <<SF>>, <<UD, F>>}

Ifs ==
  {If(<<Arm(c, b)>>, e) : c \in Conds, b \in Bodies, e \in {<<>>} \cup {<<b3>> : b3 \in Bodies}}
  \cup
  {If(<<Arm(c, b), Arm(c2, b2)>>, e) :
     c \in Conds, b \in Bodies, c2 \in Conds, b2 \in {<<D>>, <<UD, F>>},
     e \in {<<>>, <<<<SF>>>>}}

\* Ifs inside ifs, followed by more commands of the outer list.
Nested ==
  { <<If(<<Arm(c, <<If(<<Arm(c2, <<F>>)>>, <<>>), UD>>)>>, <<<<NS>>>>), D>> :
      c \in Conds, c2 \in Conds }
  \cup
  { <<If(<<Arm(Nd, <<D>>), Arm(c, <<If(<<Arm(c2, <<SF>>)>>, <<<<DF>>>>)>>)>>, <<>>), M>> :
      c \in Conds, c2 \in Conds }

Programs ==
  {<<a>> : a \in Commands} \cup {<<a, b>> : a, b \in Commands}
  \cup {<<i>> : i \in Ifs}
  \cup {<<i, a>> : i \in {If(<<Arm(c, b)>>, <<>>) : c \in Conds, b \in Bodies},
                   a \in {D, LW, M}}
  \cup {<<a, i>> : a \in {D, UD}, i \in {If(<<Arm(c, b)>>, <<>>) : c \in Conds, b \in Bodies}}
  \cup Nested

\* Files no program prints: bad structure, words in the wrong place, a
\* missing argument, a dangling seen (also inside an if), conditions
\* without then, with an unclosed bracket or an operand missing.
Malformed ==
  { <<"seen">>, <<"unseen", "seen", "deliver", "x">>,
    <<"noerror", "if">> \o Dl \o <<"endif">>, <<"if">> \o Dl \o <<"deliver", "x">>,
    <<"endif">>, <<"else">>, <<"elif">> \o Dl, <<"if", "x", "endif">>,
    <<"if">>, <<"deliver">>, <<"add", "x", "x", "x">>, <<"add", "x", "to">>,
    <<"headers", "zz", "x">>, <<"headers", "charset">>, <<"zz">>,
    <<"if">> \o Dl \o <<"else", "else", "endif">>,
    <<"if">> \o Dl \o <<"else", "elif">> \o Nd \o <<"endif">>,
    <<"seen", "endif">>, <<"if">> \o Dl \o <<"noerror">>,
    <<"if">> \o Dl \o <<"elif", "x", "endif">>, <<"deliver", "x", "unseen">>,
    <<"if", "delivered", "endif">>, <<"if", "(", "delivered", "then", "endif">>,
    <<"if", "delivered", "or", "then", "endif">>, <<"if", "x", "is", "then", "endif">> }

\* Files that end right after noerror.
DanglingNoerror == { <<"noerror">>, <<"deliver", "x", "seen", "noerror">> }

MCFiles ==
  {[toks |-> ProgramWords(p), ast |-> p, formed |-> TRUE] : p \in Programs}
  \cup {[toks |-> t, ast |-> <<>>, formed |-> FALSE] : t \in Malformed}

MCFilesLeak == MCFiles \cup {[toks |-> t, ast |-> <<>>, formed |-> FALSE] : t \in DanglingNoerror}

MCSpelling == [w \in {"x", "bad", "1", "12"} |-> IF w = "12" THEN <<"1", "2">> ELSE <<w>>]

\* A message on its first delivery attempt, not a bounce, not thawed.
MCMessage == [personal |-> FALSE, firsttime |-> TRUE, errormsg |-> FALSE,
              manualthaw |-> FALSE]

MCOptionSets == {{"defer", "fail", "freeze", "reallog", "system"}, {"log"}, {}}

=============================================================================
