--------------------------- MODULE MCRouteAddress ---------------------------
(***************************************************************************)
(* Five routers, for the recipient a:                                     *)
(*   1 system_aliases  redirect, repeat_use: a -> b, b -> a and c-x;       *)
(*                     local_part_prefix = *- (optional); domains may     *)
(*                     defer                                               *)
(*   2 userforward     redirect, no_repeat_use: c -> c (a .forward that    *)
(*                     keeps a copy); local_part_suffix = -* (optional);   *)
(*                     local_parts = c                                     *)
(*   3 dnslookup       accepts, declines, passes to 5, defers or re-routes *)
(*                     (b widened to c); unseen; local_part_prefix = x- :  *)
(*                     *x (optional)                                       *)
(*   4 query           queryprogram, transport = t; its command's replies *)
(*                     are MCReplies; set-up may defer                     *)
(*   5 local_user      accepts or fails; no_more; check_local_user (a and *)
(*                     c are users); local_part_suffix = -x : -* (not      *)
(*                     optional)                                           *)
(***************************************************************************)
EXTENDS RouteAddress

a == <<"a">>
b == <<"b">>
c == <<"c">>
cx == <<"c", "-", "x">>

MCAddrs == {a, b, c, cx}
MCRecipients == {a}
MCRedirect == [r \in 1..5 |-> r \in {1, 2}]
MCAliases ==
  [r \in 1..5 |-> [x \in MCAddrs |->
     CASE r = 1 /\ x = a -> {b}
       [] r = 1 /\ x = b -> {a, cx}
       [] r = 2 /\ x = c -> {c}
       [] OTHER -> {}]]
MCDriverResults ==
  [r \in 1..5 |-> CASE r = 3 -> {"OK", "DECLINE", "PASS", "DEFER", "REROUTED"}
                    [] r = 5 -> {"OK", "FAIL", "DISCARD"}
                    [] OTHER -> {}]
MCDomainResults == [r \in 1..5 |-> IF r = 1 THEN {"OK", "DEFER"} ELSE {"OK"}]
MCCondResults == [r \in 1..5 |-> IF r = 2 THEN {"OK", "SKIP"} ELSE {"OK"}]
MCRepeatUse == [r \in 1..5 |-> r # 2]
MCMore == [r \in 1..5 |-> r # 5]
MCUnseen == [r \in 1..5 |-> r = 3]
MCPassRouter == [r \in 1..5 |-> IF r = 3 THEN 5 ELSE 0]
MCWiden == [x \in MCAddrs |-> IF x = b THEN c ELSE x]
MCPrefix ==
  [r \in 1..5 |-> CASE r = 1 -> <<<<"*", "-">>>>
                    [] r = 3 -> <<<<"x", "-">>, <<"*", "x">>>>
                    [] OTHER -> <<>>]
MCPrefixOptional == [r \in 1..5 |-> TRUE]
MCSuffix ==
  [r \in 1..5 |-> CASE r = 2 -> <<<<"-", "*">>>>
                    [] r = 5 -> <<<<"-", "x">>, <<"-", "*">>>>
                    [] OTHER -> <<>>]
MCSuffixOptional == [r \in 1..5 |-> r # 5]
MCLocalParts == [r \in 1..5 |-> IF r = 2 THEN {c} ELSE {}]
MCCheckLocalUser == [r \in 1..5 |-> r = 5]
MCLocalUsers == {a, c}
MCQuery == [r \in 1..5 |-> r = 4]

\* The queryprogram command's replies, built from the yield words and keys.
SP == <<" ">>
NL == <<"\n">>
Eq(k, v) == k \o <<"=">> \o v
MCReplies ==
  [x \in MCAddrs |->
     CASE x = a -> {<<"d", "e", "c", "l", "i", "n", "e">> \o NL,
                    QP!REDIRECT \o SP \o c \o NL,
                    QP!ACCEPT \o SP \o Eq(QP!LOOKUP, <<"x", "x">>) \o SP \o Eq(QP!HOSTS, <<"h">>)}
       [] x = c -> {QP!ACCEPT \o SP \o Eq(QP!TRANSPORT, <<"u">>),
                    QP!ACCEPT \o SP \o Eq(QP!HOSTS, <<"h">>) \o SP \o Eq(QP!LOOKUP, <<"x">>),
                    QP!ACCEPT \o SP \o Eq(QP!HOSTS, <<"h">>) \o SP
                      \o Eq(QP!LOOKUP, <<"b", "y", "d", "n", "s">>) \o SP \o Eq(<<"d", "a", "t", "a">>, <<"1">>)}
       [] OTHER -> {<<"F", "R", "E", "E", "Z", "E">>,
                    SP \o SP \o <<"p", "a", "s", "s">>,
                    QP!ACCEPT \o SP \o Eq(QP!HOSTS, <<"h">>)}]
MCTransports == {<<"t">>}
MCRouterTransport == [name |-> <<"t">>, expansions |-> {}]
MCRdaResults == (c :> [rc |-> "FF_DELIVERED", gen |-> <<c>>])
=============================================================================
