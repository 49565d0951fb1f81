---------------------------- MODULE RouteAddress ----------------------------
(***************************************************************************)
(* The router loop of src/route.c (route_address, route_unseen) and the    *)
(* delivery loop that calls it for every address on addr_new.              *)
(*                                                                         *)
(* Addresses are routed one at a time.  route_address tries the routers in *)
(* order from the address's start_router; one iteration of its loop is one *)
(* RouterStep.  A redirect router generates child addresses (its aliases), *)
(* which are routed later from the first router; loop protection skips a  *)
(* router that an ancestor was routed by (with the same address, when     *)
(* repeat_use is set).  An "unseen" router's address is also copied to    *)
(* start at the next router.  What the preconditions and the router       *)
(* drivers answer is a nondeterministic choice from configured sets,     *)
(* but for the local-part checks: a router's prefix and suffix are        *)
(* stripped (RouteAffixes) and the local_parts and check_local_user tests *)
(* of check_router_conditions are made on what is left.  An address is    *)
(* its local part, a sequence of characters, all in one domain.           *)
(***************************************************************************)
EXTENDS Integers, Sequences, FiniteSets, SequencesExt

CONSTANTS
  Addrs,        \* the addresses (model values)
  Recipients,   \* the addresses the message starts with
  NR,           \* the number of routers, tried in order 1..NR
  Redirect,     \* router -> is it a redirect router?
  Aliases,      \* router -> local part -> the addresses it redirects to
  DriverResults,\* router -> what a non-redirect driver may return
  DomainResults,\* router -> what the domains check may return
  CondResults,  \* router -> what the checks after check_local_user may return
  Prefix,     \* router -> local_part_prefix list (<<>>: unset)
  PrefixOptional, \* router -> local_part_prefix_optional
  Suffix,     \* router -> local_part_suffix list (<<>>: unset)
  SuffixOptional, \* router -> local_part_suffix_optional
  LocalParts,   \* router -> local_parts list ({}: unset)
  CheckLocalUser, \* router -> check_local_user
  LocalUsers,   \* the local parts getpwnam finds
  MaxLocalPart, \* the longest local part the affix check is run on
  RepeatUse,    \* router -> repeat_use
  More,         \* router -> more
  Unseen,       \* router -> unseen
  PassRouter,   \* router -> pass_router (0: none; always a later router)
  Widen,        \* address -> the child a REROUTED result puts on addr_new
  LongStop,     \* the "loopcount++ > 100" limit on ancestors
  MaxItems,     \* bound on the address items created
  Query,        \* router -> is it a queryprogram router?
  Replies,      \* local part -> what the queryprogram command may write
  BufSize, PipeCap, ExitCodes, Transports, RouterTransport, HostResults,
  RdaResults,   \* the queryprogram router's (see QueryProgram)
  QpSetupFails  \* may the set-up before the command is run defer?

Routers == 1..NR

ASSUME /\ NR \in Nat \ {0}
       /\ \A r \in Routers : PassRouter[r] = 0 \/ PassRouter[r] > r
       /\ \A r \in Routers : DomainResults[r] \cup CondResults[r] \subseteq {"OK", "SKIP", "DEFER"}
       /\ \A r \in Routers : \A a \in Range(Prefix[r]) \cup Range(Suffix[r]) : a # <<>>
       /\ \A r \in Routers : DriverResults[r] \subseteq
             {"OK", "DECLINE", "PASS", "DEFER", "FAIL", "DISCARD", "REROUTED"}

Aff == INSTANCE RouteAffixes

\* Mutant: nextr not advanced past the current router.
NextRouter_stay(r) == r

\* nextr = r->drinst.next (route.c 1637); 0 is the end of the chain.
NextRouter(r) == IF r < NR THEN r + 1 ELSE 0

Resolved == {"routed", "redirected", "rerouted", "failed", "deferred",
             "discarded", "invented"}

-----------------------------------------------------------------------------
VARIABLES
  items,      \* the address items: [addr, parent, router, start, status]
  cur,        \* the item route_address is routing (0: none)
  rt,         \* the router the loop is at
  routedBy,   \* ghost: <<item, router>> pairs a router's driver accepted
  visits,     \* ghost: iterations of the router loop in the current call
  child,      \* the queryprogram router's command (QueryProgram)
  qpCalls     \* ghost: [item, child, buf, res] of each queryprogram call

vars == <<items, cur, rt, routedBy, visits, child, qpCalls>>

QP == INSTANCE QueryProgram

\* The ancestors of item i, nearest first (addr->parent chain).
RECURSIVE Ancestors(_, _)
Ancestors(its, i) ==
  IF its[i].parent = 0 THEN <<>>
  ELSE <<its[i].parent>> \o Ancestors(its, its[i].parent)

\* Mutant: the ancestor check never skips.
LoopCheck_none(its, i, r) ==
  LET RECURSIVE Scan(_, _)
      Scan(ps, k) == IF ps = <<>> THEN "go"
                     ELSE IF k > LongStop THEN "defer"
                     ELSE Scan(Tail(ps), k + 1)
  IN Scan(Ancestors(its, i), 0)

(***************************************************************************)
(* Loop protection (route.c 1651-1689): the first ancestor routed by r    *)
(* makes r be skipped, unless repeat_use is set and its address differs;  *)
(* past LongStop ancestors the address is deferred.                        *)
(***************************************************************************)
LoopCheck(its, i, r) ==
  LET RECURSIVE Scan(_, _)
      Scan(ps, k) ==
        IF ps = <<>> THEN "go"
        ELSE LET j == Head(ps)
             IN IF its[j].router = r
                   /\ (~RepeatUse[r] \/ its[j].addr = its[i].addr)
                THEN "skip"
                ELSE IF k > LongStop THEN "defer"
                ELSE Scan(Tail(ps), k + 1)
  IN Scan(Ancestors(its, i), 0)

NewItem(a, parent, start) ==
  [addr |-> a, parent |-> parent, router |-> 0, start |-> start,
   status |-> "new"]

\* What a redirect router r finds for the local part lp.
AliasesOf(r, lp) == IF lp \in DOMAIN Aliases[r] THEN Aliases[r][lp] ELSE {}

\* The children a redirect router generates for local part lp, in some
\* order.
Children(r, lp) ==
  CHOOSE s \in [1..Cardinality(AliasesOf(r, lp)) -> AliasesOf(r, lp)] : Range(s) = AliasesOf(r, lp)

\* What the driver of router r answers for local part lp.
Answers(r, lp) ==
  IF Redirect[r]
  THEN IF AliasesOf(r, lp) = {} THEN {"DECLINE"} ELSE {"OK", "DEFER"}
  ELSE DriverResults[r]

(***************************************************************************)
(* check_router_conditions (route.c 906-1129) for the delivery of an       *)
(* address (verify == v_none) whose local part, affixes stripped, is lp:   *)
(* the first check that does not give OK decides.  domains, then           *)
(* local_parts, then check_local_user, then router_home_directory,         *)
(* senders, require_files and condition, which give CondResults.          *)
(***************************************************************************)
Preconditions(r, lp) ==
  UNION {CASE d # "OK" -> {d}
           [] LocalParts[r] # {} /\ lp \notin LocalParts[r] -> {"SKIP"}
           [] CheckLocalUser[r] /\ lp \notin LocalUsers -> {"SKIP"}
           [] OTHER -> CondResults[r]
         : d \in DomainResults[r]}

\* The prefix and suffix of router r stripped from local part lp.
Affixes(r, lp) == Aff!Strip(lp, Prefix[r], PrefixOptional[r], Suffix[r], SuffixOptional[r])

(***************************************************************************)
(* route_unseen (route.c 1402-1472): an invented parent copied from the    *)
(* routed item replaces it as the parent of the item and of a clone that  *)
(* starts at the next router.                                              *)
(***************************************************************************)
RouteUnseen(its, i, r) ==
  LET p == Len(its) + 1
      invented == [its[i] EXCEPT !.status = "invented"]
  IN [its EXCEPT ![i].parent = p]
       \o <<invented, NewItem(its[i].addr, p, NextRouter(r))>>

-----------------------------------------------------------------------------
\* Mutant: the result of the call not recorded on the item.
Finish_noStatus(its, i, st) ==
  /\ items' = its
  /\ cur' = 0 /\ rt' = 0 /\ visits' = 0

\* The call ends: item i gets status st, the items list becomes its.
Finish(its, i, st) ==
  /\ items' = [its EXCEPT ![i].status = st]
  /\ cur' = 0 /\ rt' = 0 /\ visits' = 0

\* The loop goes on at router n, or runs out of routers: "Unrouteable".
GoOn(its, i, n) ==
  IF n = 0 THEN Finish([its EXCEPT ![i].router = 0], i, "failed")
  ELSE /\ items' = its /\ rt' = n
       /\ visits' = visits + 1
       /\ UNCHANGED cur

\* Take the next address from addr_new and call route_address for it.
PickAddress(i) ==
  /\ cur = 0 /\ items[i].status = "new"
  /\ cur' = i /\ rt' = items[i].start
  /\ items' = [items EXCEPT ![i].status = "routing"]
  /\ UNCHANGED <<routedBy, visits, child, qpCalls>>

(***************************************************************************)
(* What route_address does with the yield res of router rt's driver for   *)
(* item i, which generated the addresses kids; nx is the next router.     *)
(* On acceptance, the code after the router loop (route.c 1946-2114) runs. *)
(***************************************************************************)
ApplyResult(its, i, nx, res, kids) ==
    CASE res = "FAIL" ->
           /\ Len(its) + Len(kids) <= MaxItems
           /\ Finish(its \o kids, i, "failed") /\ UNCHANGED routedBy
      [] res = "DEFER" ->
           Finish(its, i, "deferred") /\ UNCHANGED routedBy
      [] res = "DISCARD" ->
           Finish(its, i, "discarded") /\ UNCHANGED routedBy
      [] res = "PASS" ->
           /\ GoOn(its, i, IF PassRouter[rt] # 0
                           THEN PassRouter[rt] ELSE nx)
           /\ UNCHANGED routedBy
      [] res = "DECLINE" ->
           /\ IF More[rt] THEN GoOn(its, i, nx)
              ELSE Finish([its EXCEPT ![i].router = 0], i,
                          "failed")
           /\ UNCHANGED routedBy
      [] res = "REROUTED" ->
           /\ Len(its) < MaxItems
           /\ Finish(Append(its, NewItem(Widen[its[i].addr], i, 1)),
                     i, "rerouted")
           /\ routedBy' = routedBy \cup {<<i, rt>>}
      [] OTHER ->
           LET its2 == IF Unseen[rt] /\ nx # 0
                       THEN RouteUnseen(its, i, rt) ELSE its
           IN /\ Len(its2) + Len(kids) <= MaxItems
              /\ Finish(its2 \o kids, i,
                        IF kids = <<>> THEN "routed" ELSE "redirected")
              /\ routedBy' = routedBy \cup {<<i, rt>>}

\* The driver of a redirect or other router answers for item i, whose
\* local part the router sees as lp.
DriverStep(its, i, nx, lp) ==
  /\ \E res \in Answers(rt, lp) :
       ApplyResult(its, i, nx, res,
                   IF Redirect[rt] /\ res = "OK"
                   THEN [k \in DOMAIN Children(rt, lp) |->
                           NewItem(Children(rt, lp)[k], i, 1)]
                   ELSE <<>>)
  /\ UNCHANGED <<child, qpCalls>>

(***************************************************************************)
(* queryprogram_router_entry up to child_open_uid (queryprogram.c         *)
(* 232-314): the errors address, header changes, uid and gid and the      *)
(* command are set up, each of which may defer (QpSetupFails), and the    *)
(* command is started for local part lp, to write one of Replies[lp].     *)
(***************************************************************************)
QpStart(its, i, lp) ==
  \/ /\ QpSetupFails
     /\ Finish(its, i, "deferred")
     /\ UNCHANGED <<routedBy, child, qpCalls>>
  \/ /\ \E reply \in Replies[lp] : child' = QP!Spawn(reply)
     /\ items' = its
     /\ UNCHANGED <<cur, rt, routedBy, visits, qpCalls>>

\* The router's reading of every reply the command may write, evaluated once.
QpYields == [r \in UNION {Replies[x] : x \in DOMAIN Replies} |-> QP!ReplyYield(r)]

\* The command has exited or been killed: the router yields and
\* add_generated (queryprogram.c 123-151) puts the addresses it generated
\* on addr_new, to be routed from the first router (no redirect_router).
QpReap ==
  /\ child.st \in {"exited", "killed"}
  /\ \E o \in QP!Outcome(child, QpYields[child.reply]) :
       /\ ApplyResult(items, cur, NextRouter(rt), o.rc,
                      [k \in DOMAIN o.gen |-> NewItem(o.gen[k], cur, 1)])
       /\ qpCalls' = Append(qpCalls, [item |-> cur, child |-> child, res |-> o])
  /\ child' = QP!NoChild

\* The command runs and the timeout of child_close races it.
QpChild == (QP!ChildWrite \/ QP!ChildExit)
             /\ UNCHANGED <<items, cur, rt, routedBy, visits, qpCalls>>
QpTimeout == QP!Timeout /\ UNCHANGED <<items, cur, rt, routedBy, visits, qpCalls>>

(***************************************************************************)
(* One iteration of the router loop of route_address (route.c 1610-1945) *)
(* and, when the driver accepts, the code after the loop (1946-2114).     *)
(* The loop moves to a later router each time (pass_router is a later     *)
(* one), so a call makes at most NR iterations: the bound on visits never  *)
(* stops a call of this code.                                              *)
(***************************************************************************)
RouterStep ==
  /\ cur # 0 /\ rt # 0 /\ visits < NR /\ child.st = "none"
  /\ LET i   == cur
         its == [items EXCEPT ![i].router = rt]
         lc  == LoopCheck(items, i, rt)
         nx  == NextRouter(rt)
     IN CASE lc = "skip"  -> GoOn(its, i, nx) /\ UNCHANGED <<routedBy, child, qpCalls>>
          [] lc = "defer" -> Finish(its, i, "deferred") /\ UNCHANGED <<routedBy, child, qpCalls>>
          [] Affixes(rt, items[i].addr).skip -> GoOn(its, i, nx) /\ UNCHANGED <<routedBy, child, qpCalls>>
          [] OTHER ->
             \E c \in Preconditions(rt, Affixes(rt, items[i].addr).lp) :
               CASE c = "SKIP"  -> GoOn(its, i, nx) /\ UNCHANGED <<routedBy, child, qpCalls>>
                 [] c = "DEFER" -> Finish(its, i, "deferred") /\ UNCHANGED <<routedBy, child, qpCalls>>
                 [] Query[rt] ->
                   QpStart(its, i, Affixes(rt, items[i].addr).lp)
                 [] OTHER ->
                   DriverStep(its, i, nx, Affixes(rt, items[i].addr).lp)

Init ==
  /\ items = LET s == CHOOSE s \in [1..Cardinality(Recipients) -> Recipients] :
                                Range(s) = Recipients
              IN [k \in DOMAIN s |-> NewItem(s[k], 0, 1)]
  /\ cur = 0 /\ rt = 0
  /\ routedBy = {}
  /\ visits = 0
  /\ child = QP!NoChild
  /\ qpCalls = <<>>

Next ==
  \/ \E i \in DOMAIN items : PickAddress(i)
  \/ RouterStep
  \/ QpChild
  \/ QpTimeout
  \/ QpReap

(***************************************************************************)
(* The delivery process routes addresses until addr_new is empty, and     *)
(* route_address runs its loop to the end: both are weakly fair.  The     *)
(* command is a process of its own, and child_close's alarm goes off once *)
(* the timeout has passed: both are weakly fair too.  Nothing else makes  *)
(* a command end, so a command that never exits is ended by the timeout.  *)
(***************************************************************************)
Spec == Init /\ [][Next]_vars
          /\ WF_vars(\E i \in DOMAIN items : PickAddress(i)) /\ WF_vars(RouterStep)
          /\ WF_vars(QpChild) /\ WF_vars(QpTimeout) /\ WF_vars(QpReap)

-----------------------------------------------------------------------------
Statuses == Resolved \cup {"new", "routing"}

TypeOK ==
  /\ items \in Seq([addr : Addrs, parent : Nat, router : 0..NR,
                     start : 0..NR, status : Statuses])
  /\ Len(items) <= MaxItems
  /\ cur \in 0..Len(items) /\ rt \in 0..NR /\ visits \in 0..NR
  /\ \A i \in DOMAIN items : items[i].status = "routing" <=> i = cur
  /\ child.st \in {"none", "running", "exited", "killed"}
  /\ child.written \in 0..Len(child.reply)
  /\ child.st # "none" => cur # 0 /\ Query[rt]

(***************************************************************************)
(* Loop protection (route.c 1651-1689): no router accepts an address when *)
(* one of its ancestors was accepted by the same router, unless the       *)
(* router has repeat_use and the ancestor's address is a different one.   *)
(* It relates the routing of a child to that of every ancestor, across    *)
(* redirections, re-routings and the invented parents of "unseen".         *)
(***************************************************************************)
LoopFree ==
  \A p, q \in routedBy :
    q[2] = p[2] /\ q[1] \in Range(Ancestors(items, p[1]))
      => RepeatUse[p[2]] /\ items[q[1]].addr # items[p[1]].addr

\* The characters of the addresses and affixes, and the local parts of up
\* to MaxLocalPart of them.
AffixChars ==
  (UNION {Range(x) : x \in Addrs}
     \cup UNION {Range(f) : f \in UNION {Range(Prefix[r]) \cup Range(Suffix[r]) : r \in Routers}})
  \ {"*"}
TestLocalParts == UNION {[1..k -> AffixChars] : k \in 1..MaxLocalPart}

Shape(m) == [len |-> m.len, v |-> m.v]

(***************************************************************************)
(* Whenever the router loop is at a router, route_check_prefix and       *)
(* route_check_suffix find on its affix lists what their comments say,   *)
(* for every local part of up to                                          *)
(* MaxLocalPart characters: the first affix of the list that matches, a   *)
(* wildcard taking the longest piece of the local part that ends (prefix) *)
(* or begins (suffix) with its fixed part, and a fixed suffix never the   *)
(* whole local part; the wildcard part's length is what is left.  It      *)
(* pins down the pointer loops and their bounds, which differ between the *)
(* two functions.                                                          *)
(***************************************************************************)
AffixesAsDocumented ==
  \A r \in Routers, lp \in TestLocalParts : rt = r =>
    /\ Shape(Aff!CheckPrefix(lp, Prefix[r])) = Aff!RefAffix(lp, Prefix[r], TRUE)
    /\ Shape(Aff!CheckSuffix(lp, Suffix[r])) = Aff!RefAffix(lp, Suffix[r], FALSE)

(***************************************************************************)
(* Routing ends: every address of the message and every address generated *)
(* from it is eventually routed, redirected, failed, deferred or          *)
(* discarded, whatever the aliases, pass_router, "more" and "unseen".     *)
(***************************************************************************)
AllResolved == <>(\A i \in DOMAIN items : items[i].status \in Resolved)


(***************************************************************************)
(* The reference reading of a queryprogram command's reply, as the        *)
(* router's documentation has it: the command's output, of which the     *)
(* router keeps BufSize - 1 octets, is a yield word in any case followed  *)
(* by data; a command that failed or timed out defers the address.        *)
(***************************************************************************)
RefRead(c) == SubSeq(c.reply, 1, IF Len(c.reply) < BufSize THEN Len(c.reply) ELSE BufSize - 1)
RefNonSpace(r) == {k \in DOMAIN r : r[k] \notin QP!WS}
\* Where the first word of r ends (the first white space after it), or 0.
RefWordEnd(r) ==
  LET sp == {k \in DOMAIN r : r[k] \in QP!WS /\ \E j \in RefNonSpace(r) : j < k}
  IN IF sp = {} THEN 0 ELSE Min(sp)
RefWord(r) ==
  IF RefNonSpace(r) = {} THEN <<>>
  ELSE SubSeq(r, Min(RefNonSpace(r)), IF RefWordEnd(r) = 0 THEN Len(r) ELSE RefWordEnd(r) - 1)
RefData(r) ==
  IF RefWordEnd(r) = 0 THEN <<>> ELSE SubSeq(r, RefWordEnd(r) + 1, Max(RefNonSpace(r)))
RefIs(r, kw) == [k \in DOMAIN RefWord(r) |-> QP!Upper(RefWord(r)[k])] = kw
\* The yields an ACCEPT with data d may give: its fields are found as
\* expand_getkeyed finds them.
RefAccept(d) ==
  LET t == QP!Keyed(QP!TRANSPORT, d)
      h == QP!Keyed(QP!HOSTS, d)
      l == QP!Keyed(QP!LOOKUP, d)
  IN UNION {CASE ~f -> {QP!Defer}
              [] h = <<>> -> {QP!Res("OK", <<>>)}
              [] l = <<>> \/ l \in QP!LookupTypes -> {QP!Res(x, <<>>) : x \in HostResults}
              [] OTHER -> {QP!Defer}
            : f \in IF t = <<>> THEN QP!GetTransport(RouterTransport) ELSE {t \in Transports}}
RefOutcome(c) ==
  LET r == RefRead(c) IN
  CASE c.st = "killed" \/ c.status # 0 -> {QP!Defer}
    [] RefIs(r, QP!REDIRECT) -> {QP!RedirectYield(RefData(r))}
    [] RefIs(r, QP!ACCEPT)   -> RefAccept(RefData(r))
    [] RefIs(r, QP!DECLINE)  -> {QP!Res("DECLINE", <<>>)}
    [] RefIs(r, QP!PASS)     -> {QP!Res("PASS", <<>>)}
    [] RefIs(r, QP!FAIL)     -> {QP!Res("FAIL", <<>>)}
    [] OTHER                 -> {QP!Defer}

(***************************************************************************)
(* Every queryprogram call yields what the command's reply says, read by  *)
(* the reference above: the yield word in any case, the data after it     *)
(* without the trailing newline, the transport and hosts fields of an     *)
(* ACCEPT; a command killed by the timeout of child_close defers even     *)
(* when it had written its whole reply, and the addresses a REDIRECT      *)
(* generates are the ones that are routed next, from the first router.     *)
(* It takes the command, the pipe, the timeout, the one read of           *)
(* queryprogram_router_entry and the parse of the reply together.         *)
(***************************************************************************)
QpResultAsReply ==
  \A k \in DOMAIN qpCalls :
    LET c == qpCalls[k] IN
    /\ c.res \in RefOutcome(c.child)
    /\ c.res.rc = "OK" =>
         \A g \in DOMAIN c.res.gen :
           \E j \in DOMAIN items : items[j].parent = c.item /\ items[j].addr = c.res.gen[g] /\ items[j].start = 1

=============================================================================
