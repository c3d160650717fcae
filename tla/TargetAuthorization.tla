-------------------------- MODULE TargetAuthorization --------------------------
(***************************************************************************)
(* CampaignService._is_authorized_target                                   *)
(* (app/services/campaign_service.py): may a tenant with this list of      *)
(* authorized targets register a campaign against this URL?                *)
(*                                                                         *)
(* The URL has been through pydantic's HttpUrl, the entries of the list    *)
(* are whatever strings an operator typed.  Of both only what urlsplit     *)
(* finds matters: scheme, host name (in lower case) and port.              *)
(***************************************************************************)
EXTENDS Naturals, Sequences

CONSTANTS
  Schemes, Hosts, Ports,
  Loopback,      \* loopback_hosts
  DefaultPort,   \* the port a URL of each scheme means when it names none
  NoHost,        \* the entry names no host, or no scheme
  NoPort,        \* the URL names no port: urlsplit's None
  BadPort,       \* the entry's port is no number up to 65535: reading it raises
  Unparsable     \* urlsplit itself raises, for instance for an open bracket

ASSUME UrlAssumption ==
  /\ Loopback \subseteq Hosts
  /\ NoHost \notin Hosts
  /\ Unparsable \notin Hosts
  /\ NoPort # BadPort
  /\ NoPort \notin Ports
  /\ BadPort \notin Ports
  /\ DefaultPort \in [Schemes -> Ports]

\* What HttpUrl lets through.  It drops a port that is the scheme's default.
TargetUrl ==
  {u \in [scheme : Schemes, host : Hosts, port : Ports \cup {NoPort}] :
     u.port # DefaultPort[u.scheme]}

Entry == [scheme : Schemes,
          host : Hosts \cup {NoHost, Unparsable},
          port : Ports \cup {NoPort, BadPort}]

-----------------------------------------------------------------------------
(* The code.                                                                *)

SameSite(e, target) == e.scheme = target.scheme /\ e.host = target.host

\* Slip: loopback hosts are excepted everywhere.
Admits_AlwaysLoopback(e, target, development) ==
  e.host \in Loopback \/ e.port = target.port

\* On a developer's machine any port of a loopback host will do.
Admits(e, target, development) ==
  (development /\ e.host \in Loopback) \/ e.port = target.port

\* One turn of the loop: accept, raise, or go on.  Only an entry of the right scheme
\* and host gets as far as its port.
Judge(e, target, development) ==
  LET accepts == SameSite(e, target) /\ Admits(e, target, development)
  IN CASE accepts -> "yes"
       [] ~accepts /\ (e.host = Unparsable \/ (SameSite(e, target) /\ e.port = BadPort)) -> "raise"
       [] OTHER -> "next"

\* The entries that end the loop.
Decisive(list, target, development) ==
  {i \in DOMAIN list : Judge(list[i], target, development) # "next"}

First(S) == CHOOSE i \in S : \A j \in S : i <= j

\* The loop: the first decisive entry has the last word.
IsAuthorizedTarget(list, target, development) ==
  LET decisive == Decisive(list, target, development) IN
  IF decisive = {} THEN "no" ELSE Judge(list[First(decisive)], target, development)

-----------------------------------------------------------------------------
(* What it should mean.                                                     *)

PortOf(u) == IF u.port = NoPort THEN DefaultPort[u.scheme] ELSE u.port

\* The entry authorizes the target: they are of the same origin, or it is a service on
\* the developer's own machine.
Covers(e, target, development) ==
  /\ SameSite(e, target)
  /\ (development /\ e.host \in Loopback) \/ PortOf(e) = PortOf(target)

\* An entry that makes the check raise when the loop gets to it.
Malformed(e) == e.host = Unparsable \/ e.port = BadPort

\* An entry that names the port its scheme has anyway.  No target does, so that it
\* matches none.
SpellsDefault(e) == e.port = DefaultPort[e.scheme]
=============================================================================
