---------------------------- MODULE FilterCondition ----------------------------
(***************************************************************************)
(* The conditions of Exim filter if and elif commands                      *)
(* (src/miscmods/exim_filter.c): read_condition, which builds a tree of    *)
(* condition blocks with parent pointers so that "and" binds more tightly  *)
(* than "or", and test_condition, which evaluates the tree from left to    *)
(* right, stopping as soon as the result is known.                         *)
(*                                                                         *)
(* A file is a sequence of words, brackets being words of their own.  A    *)
(* condition block is a record in the sequence nodes, and a pointer to     *)
(* one is its index (0 is NULL).  An operand is a word; Spelling gives its *)
(* characters, and the operand "bad" fails to expand.  An environment env *)
(* is what the keyword conditions ask: [delivered, personal, firsttime,   *)
(* system, errormsg, manualthaw].  EximFilter reads and tests the          *)
(* conditions of its if and elif commands with these operators.           *)
(***************************************************************************)
EXTENDS Integers, Sequences, SequencesExt

CONSTANT
  Spelling    \* the characters of each operand word

Keywords  == {"delivered", "error_message", "first_delivery", "manually_thawed"}
IsWords   == {"is", "IS", "does"}
\* cond_words and cond_types.
CondWordType ==
  [w \in {"BEGIN", "BEGINS", "CONTAIN", "CONTAINS", "END", "ENDS", "IS", "MATCH",
          "MATCHES", "above", "begin", "begins", "below", "contain", "contains",
          "end", "ends", "is", "match", "matches"} |->
     CASE w \in {"BEGIN", "BEGINS"} -> "BEGINS"
       [] w \in {"CONTAIN", "CONTAINS"} -> "CONTAINS"
       [] w \in {"END", "ENDS"} -> "ENDS"
       [] w \in {"MATCH", "MATCHES"} -> "MATCHES"
       [] w \in {"begin", "begins"} -> "begins"
       [] w \in {"contain", "contains"} -> "contains"
       [] w \in {"end", "ends"} -> "ends"
       [] w \in {"match", "matches"} -> "matches"
       [] OTHER -> w]

Tok(t, p) == IF p <= Len(t) THEN t[p] ELSE ""

\* nextword and nextitem with bracket TRUE, at the word tok of position p:
\* a word, or "" without moving when the next thing is a bracket or the
\* end.
WordAt(tok, p) ==
  IF tok \in {"(", ")", ""} THEN [w |-> "", pos |-> p] ELSE [w |-> tok, pos |-> p + 1]

Word(t, p) == WordAt(Tok(t, p), p)

-----------------------------------------------------------------------------
(***************************************************************************)
(* read_condition.  L is the state of one call: pos, nodes and err are     *)
(* shared with the calls it makes; root is *cond, cur the slot current     *)
(* points at (0 for *cond, i for the right field of node i), cp is         *)
(* current_parent and tf testfor.  Each step takes the word it looks at   *)
(* as a parameter.                                                         *)
(***************************************************************************)
Block(type, tf, left, right, parent) ==
  [type |-> type, testfor |-> tf, left |-> left, right |-> right, parent |-> parent]

Err(L) == [L EXCEPT !.err = TRUE]

\* *current = c.
SetSlot(L, c) ==
  IF L.cur = 0 THEN [L EXCEPT !.root = c] ELSE [L EXCEPT !.nodes[L.cur].right = c]

\* personal: any number of "alias <item>"; a is the word after p.
RECURSIVE AliasEnd(_, _), AliasFrom(_, _, _)
AliasEnd(t, p) == AliasFrom(t, p, Word(t, p))
AliasFrom(t, p, a) == IF a.w = "alias" THEN AliasEnd(t, Word(t, a.pos).pos) ELSE p

\* The right operand r of a comparison of type with left operand w.
CmpNode(type, w, tf, r) == [err |-> FALSE, pos |-> r.pos, node |-> Block(type, tf, w, r.w, 0)]

\* cw is where a condition word should be; after "is" or "is not" an
\* unknown word is the right operand, read again from isptr.
CmpWord(t, p, w, tf, w2, cw, neg, isptr) ==
  CASE cw.w \in DOMAIN CondWordType ->
         CmpNode(CondWordType[cw.w], w, tf # neg, Word(t, cw.pos))
    [] w2.w \in {"is", "IS"} -> CmpNode(w2.w, w, tf # neg, Word(t, isptr))
    [] OTHER -> [err |-> TRUE, pos |-> p, node |-> Block("", tf, w, "", 0)]

\* After "does" or "is" (w2): "not", or the condition word.
CmpNot(t, p, w, tf, w2, w3) ==
  IF w3.w = "not" THEN CmpWord(t, p, w, tf, w2, Word(t, w3.pos), TRUE, w3.pos)
  ELSE CmpWord(t, p, w, tf, w2, w3, FALSE, w2.pos)

\* A comparison whose left operand w has been read; w2 is the next word.
CmpIs(t, p, w, tf, w2) ==
  IF w2.w \in IsWords THEN CmpNot(t, p, w, tf, w2, Word(t, w2.pos))
  ELSE CmpWord(t, p, w, tf, w2, w2, FALSE, w2.pos)

Comparison(t, p, w, tf) == CmpIs(t, p, w, tf, Word(t, p))

\* A condition that starts with the word w, read at p.
SimpleCondition(t, p, w, tf) ==
  CASE w \in Keywords -> [err |-> FALSE, pos |-> p, node |-> Block(w, tf, "", "", 0)]
    [] w = "personal" ->
         [err |-> FALSE, pos |-> AliasEnd(t, p), node |-> Block(w, tf, "", "", 0)]
    [] OTHER -> Comparison(t, p, w, tf)

\* Mutant: "or" does not climb back over a chain of "and"s.
Climb_noWalk(nodes, cp) == cp

\* The start of the run of "and"s that current_parent ends.
RECURSIVE Climb(_, _)
Climb(nodes, cp) ==
  IF nodes[cp].parent # 0 /\ nodes[nodes[cp].parent].type = "and"
  THEN Climb(nodes, nodes[cp].parent) ELSE cp

RECURSIVE ReadCondition(_, _, _, _), CondLoop(_, _, _), CondStep(_, _, _, _),
          Bracketed(_, _, _, _), SimpleStep(_, _, _, _), AfterCondition(_, _, _, _),
          AfterWord(_, _, _, _, _), OrLink(_, _, _, _, _)

ReadCondition(t, pos, nodes, top) ==
  CondLoop(t, [pos |-> pos, nodes |-> nodes, err |-> FALSE, root |-> 0,
               cur |-> 0, cp |-> 0, tf |-> TRUE], top)

\* One pass of the loop, at the word w: a bracketed condition, "not", or a
\* condition.
CondLoop(t, L, top) == CondStep(t, L, top, Tok(t, L.pos))

CondStep(t, L, top, w) ==
  CASE w = "" -> Err(L)
    [] w = "(" -> Bracketed(t, L, top, ReadCondition(t, L.pos + 1, L.nodes, FALSE))
    [] w \in {")", "then"} -> Err(L)
    [] w = "not" -> CondLoop(t, [L EXCEPT !.pos = @ + 1, !.tf = ~@], top)
    [] OTHER -> SimpleStep(t, L, top, SimpleCondition(t, L.pos + 1, w, L.tf))

\* After the nested call r: a ")" must follow; "not" before the bracket
\* inverts the nested condition.
Bracketed(t, L, top, r) ==
  IF r.err \/ Tok(t, r.pos) # ")"
  THEN Err([L EXCEPT !.pos = r.pos, !.nodes = r.nodes, !.tf = TRUE])
  ELSE AfterCondition(t,
         [L EXCEPT !.pos = r.pos + 1, !.tf = TRUE,
                   !.nodes = IF L.tf THEN r.nodes
                             ELSE [r.nodes EXCEPT ![r.root].testfor = ~@]],
         r.root, top)

\* A simple condition s is a new block.
SimpleStep(t, L, top, s) ==
  IF s.err THEN Err(L)
  ELSE AfterCondition(t, [L EXCEPT !.pos = s.pos, !.tf = TRUE, !.nodes = Append(@, s.node)],
                      Len(L.nodes) + 1, top)

\* Hang condition c on the current slot, then ")" or "then" ends the
\* call, and "and" or "or" builds the tree and goes round again.
AfterCondition(t, L0, c, top) ==
  AfterWord(t, SetSlot(L0, c), c, top, Tok(t, SetSlot(L0, c).pos))

AfterWord(t, L, c, top, w) ==
  CASE w = ")" -> IF top THEN Err(L) ELSE L
    [] w = "then" -> IF top THEN [L EXCEPT !.pos = @ + 1] ELSE Err(L)
    [] w = "and" ->
         CondLoop(t, [SetSlot([L EXCEPT !.nodes = Append(@, Block("and", TRUE, c, 0, L.cp))],
                              Len(L.nodes) + 1)
                      EXCEPT !.pos = @ + 1, !.cur = Len(L.nodes) + 1, !.cp = Len(L.nodes) + 1],
                  top)
    [] w = "or" -> OrLink(t, L, c, top, IF L.cp = 0 THEN 0 ELSE Climb(L.nodes, L.cp))
    [] OTHER -> Err(L)

\* "or" after the run of "and"s that starts at cp: the new block takes
\* the run (or c) as its left operand and the run's place in the tree.
OrLink(t, L, c, top, cp) ==
  LET n   == Len(L.nodes) + 1
      orp == IF cp = 0 THEN 0 ELSE L.nodes[cp].parent
      L1  == [L EXCEPT !.nodes = Append(@, Block("or", TRUE, IF cp = 0 THEN c ELSE cp, 0, orp))]
  IN CondLoop(t, [IF orp = 0 THEN [L1 EXCEPT !.root = n] ELSE [L1 EXCEPT !.nodes[orp].right = n]
                  EXCEPT !.pos = @ + 1, !.cur = n, !.cp = n], top)

-----------------------------------------------------------------------------
(***************************************************************************)
(* test_condition.  An operand's value is its spelling; a failed          *)
(* expansion returns FALSE at once, with the error set.                    *)
(***************************************************************************)
Digit == [c \in {"0", "1", "2", "3", "4", "5", "6", "7", "8", "9"} |->
            CHOOSE d \in 0..9 : <<"0", "1", "2", "3", "4", "5", "6", "7", "8", "9">>[d + 1] = c]

\* The value of a string of decimal digits.
DigitsValue(s) ==
  LET v[k \in 0..Len(s)] == IF k = 0 THEN 0 ELSE v[k - 1] * 10 + Digit[s[k]]
  IN v[Len(s)]

\* How many digits s starts with ("%i").
Lead(s) == CHOOSE n \in 0..Len(s) : /\ \A j \in 1..n : s[j] \in DOMAIN Digit
                                    /\ n < Len(s) => s[n + 1] \notin DOMAIN Digit

\* The power of two the suffixes after the digits multiply by: k then m,
\* each optional; -1 when anything else follows.
SuffixShift(rest) ==
  CASE rest = <<>> -> 0
    [] rest = <<"k">> -> 10
    [] rest = <<"m">> -> 20
    [] rest = <<"k", "m">> -> 30
    [] OTHER -> -1

NumeralOf(s, n, k) ==
  [ok |-> n > 0 /\ k >= 0, digits |-> DigitsValue(SubSeq(s, 1, n)),
   shift |-> IF k < 0 THEN 0 ELSE k]

\* A word as get_number reads it: ok is FALSE unless it is digits and the
\* suffixes.
Numeral(w) ==
  LET s == Spelling[w]
      n == Lead(s)
  IN NumeralOf(s, n, SuffixShift(SubSeq(s, n + 1, Len(s))))

\* The low 32 bits of d * 2^k as an int, bit 31 being the sign.
Wrap(d, k) ==
  IF k = 0 THEN d
  ELSE LET low == (d % 2^(31 - k)) * 2^k
       IN IF (d \div 2^(31 - k)) % 2 = 1 THEN low - 2^30 - 2^30 ELSE low

\* get_number: value is an int, and "value *= 1024" keeps the low 32 bits
\* of the product.
GetNumberOf(x) == [ok |-> x.ok, val |-> Wrap(x.digits, x.shift)]
GetNumber(w) == GetNumberOf(Numeral(w))

\* The number the word stands for.
ValueOf(x) == [ok |-> x.ok, val |-> x.digits * 2^x.shift]
NumberValue(w) == ValueOf(Numeral(w))

SubString(r, s) == \E i \in 0..(Len(s) - Len(r)) : SubSeq(s, i + 1, i + Len(r)) = r

\* The comparisons on expanded operands; the operands are lower-case, so
\* the caseless and the case-sensitive forms agree, and the patterns have
\* no metacharacters, so a match is a substring.
Compare(type, l, r) ==
  CASE type \in {"is", "IS"} -> l = r
    [] type \in {"contains", "CONTAINS", "matches", "MATCHES"} -> SubString(r, l)
    [] type \in {"begins", "BEGINS"} -> IsPrefix(r, l)
    [] type \in {"ends", "ENDS"} -> IsSuffix(r, l)

\* The value test_condition returns for a block, from what its left and
\* right blocks return (l and r, evaluated only when used).
Yield(c, y) == [val |-> y = c.testfor, err |-> FALSE]
Failed == [val |-> FALSE, err |-> TRUE]

AndOr(c, l, r) ==
  IF c.type = "and"
  THEN IF ~l.val \/ l.err THEN [val |-> (FALSE = c.testfor), err |-> l.err]
       ELSE [val |-> (r.val = c.testfor), err |-> r.err]
  ELSE IF l.val \/ l.err THEN [val |-> (l.val = c.testfor), err |-> l.err]
       ELSE [val |-> (r.val = c.testfor), err |-> r.err]

Above(c, a, b) ==
  IF ~a.ok \/ ~b.ok THEN Failed
  ELSE Yield(c, IF c.type = "above" THEN a.val > b.val ELSE a.val < b.val)

Leaf(c, env) ==
  CASE c.type = "personal" -> Yield(c, ~env.system /\ env.personal)
    [] c.type = "delivered" -> Yield(c, env.delivered)
    [] c.type = "error_message" -> Yield(c, env.errormsg)
    [] c.type = "first_delivery" -> Yield(c, env.firsttime)
    [] c.type = "manually_thawed" -> Yield(c, env.manualthaw)
    [] "bad" \in {c.left, c.right} -> Failed
    [] c.type \in {"above", "below"} -> Above(c, GetNumber(c.left), GetNumber(c.right))
    [] OTHER -> Yield(c, Compare(c.type, Spelling[c.left], Spelling[c.right]))

\* test_condition on block i: v[j] is what test_condition returns for j.
TestCondition(nodes, i, env) ==
  LET v[j \in DOMAIN nodes] ==
        IF nodes[j].type \in {"and", "or"}
        THEN AndOr(nodes[j], v[nodes[j].left], v[nodes[j].right])
        ELSE Leaf(nodes[j], env)
  IN v[i]

\* What the if command makes of a condition: an error, or its value.
Outcome(r) == CASE r.err -> "error" [] r.val -> "true" [] OTHER -> "false"

-----------------------------------------------------------------------------
(***************************************************************************)
(* Reference: the grammar the comments of read_condition describe, by      *)
(* recursive descent.  A condition is or-separated and-groups of            *)
(* conditions, each "not"-prefixed, bracketed or simple, and ends in        *)
(* "then".  A simple condition is a keyword, personal with its aliases, or *)
(* a comparison: "a [is|does] [not] <condition word> b" or "a is [not] b". *)
(* RefEval evaluates from left to right and stops when the result is       *)
(* known; an operand that fails to expand is an error.                      *)
(***************************************************************************)
RefFail(p) == [ok |-> FALSE, ast |-> "none", pos |-> p]

\* A keyword condition ending before q; a comparison of x1 with the word r.
RefSimple(type, q) ==
  [ok |-> TRUE, pos |-> q, ast |-> [op |-> "atom", type |-> type, neg |-> FALSE, l |-> "", r |-> ""]]
RefCmp(x1, type, neg, r) ==
  [ok |-> TRUE, pos |-> r.pos, ast |-> [op |-> "atom", type |-> type, neg |-> neg, l |-> x1.w, r |-> r.w]]

\* A comparison whose first four words are x1 .. x4.
RefCmp4(t, p, x1, x2, x3, x4) ==
  CASE x2.w \in IsWords /\ x3.w = "not" /\ x4.w \in DOMAIN CondWordType ->
         RefCmp(x1, CondWordType[x4.w], TRUE, Word(t, x4.pos))
    [] x2.w \in IsWords /\ x3.w \in DOMAIN CondWordType -> RefCmp(x1, CondWordType[x3.w], FALSE, x4)
    [] x2.w \in {"is", "IS"} /\ x3.w = "not" -> RefCmp(x1, x2.w, TRUE, x4)
    [] x2.w \in {"is", "IS"} -> RefCmp(x1, x2.w, FALSE, x3)
    [] x2.w \in DOMAIN CondWordType -> RefCmp(x1, CondWordType[x2.w], FALSE, x3)
    [] OTHER -> RefFail(p)

RefCmp3(t, p, x1, x2, x3) == RefCmp4(t, p, x1, x2, x3, Word(t, x3.pos))
RefCmp2(t, p, x1, x2) == RefCmp3(t, p, x1, x2, Word(t, x2.pos))

\* A simple condition whose first word is x1.
RefAtomAt(t, p, x1) ==
  CASE x1.w \in {"", "then"} -> RefFail(p)
    [] x1.w \in Keywords -> RefSimple(x1.w, x1.pos)
    [] x1.w = "personal" -> RefSimple("personal", AliasEnd(t, x1.pos))
    [] OTHER -> RefCmp2(t, p, x1, Word(t, x1.pos))

RefAtom(t, p) == RefAtomAt(t, p, Word(t, p))

\* "not" before a condition u; a bracketed condition e.
RefNot(u) == IF u.ok THEN [u EXCEPT !.ast = [op |-> "not", e |-> @]] ELSE u
RefClose(t, p, e) == IF e.ok /\ Tok(t, e.pos) = ")" THEN [e EXCEPT !.pos = @ + 1] ELSE RefFail(p)

RECURSIVE RefOr(_, _), RefOrFrom(_, _), RefOrMore(_, _, _), RefOrNext(_, _, _),
          RefAnd(_, _), RefAndFrom(_, _), RefAndMore(_, _, _), RefAndNext(_, _, _),
          RefUnary(_, _)

\* Or-separated and-groups; a is the first group, b each next one.
RefOr(t, p) == RefOrFrom(t, RefAnd(t, p))
RefOrFrom(t, a) == IF a.ok THEN RefOrMore(t, a.ast, a.pos) ELSE a
RefOrMore(t, acc, p) ==
  IF Tok(t, p) # "or" THEN [ok |-> TRUE, ast |-> acc, pos |-> p]
  ELSE RefOrNext(t, acc, RefAnd(t, p + 1))
RefOrNext(t, acc, b) ==
  IF b.ok THEN RefOrMore(t, [op |-> "or", l |-> acc, r |-> b.ast], b.pos) ELSE b

\* And-separated unary conditions.
RefAnd(t, p) == RefAndFrom(t, RefUnary(t, p))
RefAndFrom(t, a) == IF a.ok THEN RefAndMore(t, a.ast, a.pos) ELSE a
RefAndMore(t, acc, p) ==
  IF Tok(t, p) # "and" THEN [ok |-> TRUE, ast |-> acc, pos |-> p]
  ELSE RefAndNext(t, acc, RefUnary(t, p + 1))
RefAndNext(t, acc, b) ==
  IF b.ok THEN RefAndMore(t, [op |-> "and", l |-> acc, r |-> b.ast], b.pos) ELSE b

RefUnary(t, p) ==
  CASE Tok(t, p) = "not" -> RefNot(RefUnary(t, p + 1))
    [] Tok(t, p) = "(" -> RefClose(t, p, RefOr(t, p + 1))
    [] OTHER -> RefAtom(t, p)

\* The whole condition, ended by "then".
RefThen(t, r) == IF r.ok /\ Tok(t, r.pos) = "then" THEN [r EXCEPT !.pos = @ + 1] ELSE RefFail(1)
RefCondition(t) == RefThen(t, RefOr(t, 1))

\* The value of a simple condition a: v, or the comparison of the numbers
\* m and n.
RefIs(a, v) == [val |-> v # a.neg, err |-> FALSE]
RefNumbers(a, m, n) ==
  IF ~m.ok \/ ~n.ok THEN [val |-> FALSE, err |-> TRUE]
  ELSE RefIs(a, IF a.type = "above" THEN m.val > n.val ELSE m.val < n.val)

RefLeaf(a, env) ==
  CASE a.type = "personal" -> RefIs(a, ~env.system /\ env.personal)
    [] a.type = "delivered" -> RefIs(a, env.delivered)
    [] a.type = "error_message" -> RefIs(a, env.errormsg)
    [] a.type = "first_delivery" -> RefIs(a, env.firsttime)
    [] a.type = "manually_thawed" -> RefIs(a, env.manualthaw)
    [] "bad" \in {a.l, a.r} -> [val |-> FALSE, err |-> TRUE]
    [] a.type \in {"above", "below"} -> RefNumbers(a, NumberValue(a.l), NumberValue(a.r))
    [] OTHER -> RefIs(a, Compare(a.type, Spelling[a.l], Spelling[a.r]))

\* Left to right: the right operand only when the left one (l) does not
\* settle the result.
RefShort(l, stop, r) == IF l.err \/ l.val = stop THEN l ELSE r
RefFlip(v) == [v EXCEPT !.val = ~@]

RECURSIVE RefEval(_, _)
RefEval(a, env) ==
  CASE a.op = "not" -> RefFlip(RefEval(a.e, env))
    [] a.op = "and" -> RefShort(RefEval(a.l, env), FALSE, RefEval(a.r, env))
    [] a.op = "or" -> RefShort(RefEval(a.l, env), TRUE, RefEval(a.r, env))
    [] OTHER -> RefLeaf(a, env)

=============================================================================
