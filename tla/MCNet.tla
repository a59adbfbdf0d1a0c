-------------------------------- MODULE MCNet -------------------------------
(***************************************************************************)
(* An instance of Ip, Dns and DnsName for TLC. The three share no state:   *)
(* part says which of them runs, the others stay at their beginning.       *)
(***************************************************************************)
EXTENDS Ip, Dns, DnsName

CONSTANTS s1, s2

MCGoogle  == <<s1, s2>>
MCSetting == {<<s1, s2>>, <<s2, 0>>}

VARIABLE part

MCInit == part \in {"ip", "dns", "name"} /\ IpInit /\ DnsInit /\ NameInit

MCNext ==
  /\ UNCHANGED part
  /\ \/ part = "ip" /\ IpNext /\ UNCHANGED <<dnsVars, nameVars>>
     \/ part = "dns" /\ DnsNext /\ UNCHANGED <<ipVars, nameVars>>
     \/ part = "name" /\ NameNext /\ UNCHANGED <<ipVars, dnsVars>>

MCSpec == MCInit /\ [][MCNext]_<<part, ipVars, dnsVars, nameVars>>

\* Host and Name are given the same values: only one of them matters in a part.
Symmetry == Permutations(Proc) \cup Permutations(Name)
=============================================================================
