------------------------------- MODULE MCScan -------------------------------
(***************************************************************************)
(* A small scan for TLC.  The seeder starts it; the crawler feeds itself   *)
(* and the scanner, which feeds the crawler back: two loops, both through  *)
(* the crawler, the only agent with a cyclic limit.                        *)
(***************************************************************************)
EXTENDS Scan

CONSTANTS seeder, crawler, scanner

AllAgents == {seeder, crawler, scanner}
Seeder == {seeder}

AllWords == {"v3", "link", "deep", "domain", "service"}

Domain == <<"v3", "domain">>
Link == <<"v3", "link">>
DeepLink == <<"v3", "link", "deep">>
Service == <<"v3", "service">>
AllSelectors == {Domain, Link, DeepLink, Service}

StartDomain == {Domain}

PerAgent(d, c, s) ==
  [a \in AllAgents |-> IF a = seeder THEN d ELSE IF a = crawler THEN c ELSE s]

(* The crawler's binding v3.link.# also brings it the deep links, which    *)
(* its descriptor set does not resolve.                                    *)
WebInputs == PerAgent({Domain}, {Link}, {Service})
WebOutputs == PerAgent({Link, Service}, {Link, Service}, {DeepLink, Link})
WebKnown ==
  PerAgent(AllSelectors, {Domain, Link, Service}, AllSelectors)
WebCyclic == PerAgent(0, 2, 0)

(* The scanner takes services from the crawler only, three hops deep.      *)
WebDepth == PerAgent(0, 0, 3)
WebAccepted == PerAgent({}, {}, {crawler})
=============================================================================
