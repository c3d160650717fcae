------------------------------- MODULE MCTenancy -------------------------------
(***************************************************************************)
(* What TLC needs to check Tenancy: a few URLs of each kind the target     *)
(* check tells apart.                                                      *)
(***************************************************************************)
EXTENDS Tenancy

Url(scheme, host, port) == [scheme |-> scheme, host |-> host, port |-> port]

Local    == Url("http", "localhost", 8001)
Owned    == Url("https", "owned", NoPort)
OwnedAlt == Url("https", "owned", 8443)
Spelled  == Url("https", "owned", 443)
NotAPort == Url("https", "owned", BadPort)

MCDefaultPort == [http |-> 80, https |-> 443]

\* "https://owned", ":443", ":70000", ":8443": NotAPort comes before OwnedAlt.
InOrder == <<Local, Owned, Spelled, NotAPort, OwnedAlt>>
MCEntries == {Local, Owned, Spelled, NotAPort, OwnedAlt}
MCSorted == [S \in SUBSET MCEntries |-> SelectSeq(InOrder, LAMBDA e : e \in S)]
MCLocalTargets == {Local}

MCTargetLists == {{}, {Owned, NotAPort}, {Spelled, OwnedAlt}}
MCTargets == {Url("http", "localhost", 9999), Owned, OwnedAlt}

MCConfiguredName == <<"configured-tenant-1", "configured-tenant-2">>

\* A second key put first, the key of a tenant that was created by a request, and
\* a key listed twice.
MCConfigurations == {<<"k1">>, <<"k2", "k1">>, <<"k1", "g1">>, <<"k1", "k1">>}

\* A key and the one that is put in front of it.
MCRotation == {<<"k1">>, <<"k2", "k1">>}
=============================================================================
