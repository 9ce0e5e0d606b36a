----------------------------- MODULE Multicast ------------------------------
(***************************************************************************)
(* libsocket: the multicast groups of a SockFD.  What a call does depends  *)
(* on an address of the object - orig, or dest when orig is not set - that *)
(* the program may replace while the socket is in a group.                 *)
(***************************************************************************)
EXTENDS Naturals, Sequences, SequencesExt

CONSTANTS
  Groups,
  Ifaces, Default,      \* interfaces; the one that the routes choose
  Addressless,          \* interfaces that have no IPv4 address
  MaxMemberships

VARIABLES
  init_flag_,
  family,               \* of the socket
  orig, dest,           \* addresses: domain_ and multicast_flag_
  joined,               \* the kernel's list of memberships, latest first
  out,                  \* outgoing interface of each domain
  ttl, loop,            \* of each domain: whether it was given; whether data echo
  replaced              \* an address was replaced since a group was joined

options == <<out, ttl, loop>>
vars == <<init_flag_, family, orig, dest, joined, options, replaced>>

Domains == {"INET", "INET6"}
NoAddr == [domain_ |-> "none", multicast_flag_ |-> FALSE]
Addrs == [domain_ : Domains, multicast_flag_ : BOOLEAN]

AddrCheck(addr) == addr # NoAddr
paddr == IF AddrCheck(orig) THEN orig ELSE dest
isMulitcastFD == paddr.multicast_flag_

\* An IPv4 socket refuses the options of IPv6.
Supported == init_flag_ /\ isMulitcastFD /\ (paddr.domain_ = "INET6" => family = "INET6")

Each(value) == [d \in Domains |-> value]
Fresh == out = Each(Default) /\ ttl = Each("default") /\ loop = Each(TRUE)

Init ==
  /\ init_flag_ = TRUE /\ family \in Domains
  /\ orig \in Addrs \cup {NoAddr} /\ dest \in Addrs \cup {NoAddr}
  /\ joined = <<>> /\ Fresh /\ replaced = FALSE

\* The interface is asked for its address, on IPv4 only.
Known(iface) == paddr.domain_ = "INET" => iface \notin Addressless

Membership(group, iface) == [domain_ |-> paddr.domain_, group |-> group, iface |-> iface]

Enter(group, iface) ==
  /\ Len(joined) < MaxMemberships
  /\ Membership(group, iface) \notin ToSet(joined)
  /\ joined' = <<Membership(group, iface)>> \o joined
  /\ replaced' = (replaced /\ joined # <<>>)
  /\ UNCHANGED <<init_flag_, family, orig, dest, options>>

SetMcastJoin(group) == Supported /\ Enter(group, Default)

SetMcastJoinOn(group, iface) == Supported /\ Known(iface) /\ Enter(group, iface)

\* No interface is named: the kernel drops the latest membership.
SetMcastLeave(group) ==
  /\ Supported
  /\ LET Is(m) == m.domain_ = paddr.domain_ /\ m.group = group
         i == SelectInSeq(joined, Is)
     IN i > 0 /\ joined' = RemoveAt(joined, i)
  /\ UNCHANGED <<init_flag_, family, orig, dest, options, replaced>>

SetMcastInterface(iface) ==
  /\ Supported /\ Known(iface)
  /\ out' = [out EXCEPT ![paddr.domain_] = iface]
  /\ UNCHANGED <<init_flag_, family, orig, dest, joined, ttl, loop, replaced>>

SetMcastTTL ==
  /\ Supported /\ ttl' = [ttl EXCEPT ![paddr.domain_] = "given"]
  /\ UNCHANGED <<init_flag_, family, orig, dest, joined, out, loop, replaced>>

SetMcastloop(flag) ==
  /\ Supported /\ loop' = [loop EXCEPT ![paddr.domain_] = flag]
  /\ UNCHANGED <<init_flag_, family, orig, dest, joined, out, ttl, replaced>>

SetAddress ==
  /\ \E addr \in Addrs \cup {NoAddr} :
       \/ orig' = addr /\ UNCHANGED dest
       \/ dest' = addr /\ UNCHANGED orig
  /\ replaced' = (joined # <<>>)
  /\ UNCHANGED <<init_flag_, family, joined, options>>

\* The kernel leaves every group.
Close ==
  /\ init_flag_ /\ init_flag_' = FALSE
  /\ joined' = <<>> /\ out' = Each(Default) /\ ttl' = Each("default") /\ loop' = Each(TRUE)
  /\ replaced' = FALSE
  /\ UNCHANGED <<family, orig, dest>>

SetFD ==
  /\ ~init_flag_ /\ init_flag_' = TRUE
  /\ family' \in Domains
  /\ UNCHANGED <<orig, dest, joined, options, replaced>>

Next ==
  \/ \E group \in Groups :
       \/ SetMcastJoin(group) \/ SetMcastLeave(group)
       \/ \E iface \in Ifaces : SetMcastJoinOn(group, iface)
  \/ \E iface \in Ifaces : SetMcastInterface(iface)
  \/ SetMcastTTL \/ \E flag \in BOOLEAN : SetMcastloop(flag)
  \/ SetAddress \/ Close \/ SetFD

Spec == Init /\ [][Next]_vars

-----------------------------------------------------------------------------
TypeOK ==
  /\ init_flag_ \in BOOLEAN /\ replaced \in BOOLEAN /\ family \in Domains
  /\ {orig, dest} \subseteq Addrs \cup {NoAddr}
  /\ joined \in Seq([domain_ : Domains, group : Groups, iface : Ifaces])
  /\ out \in [Domains -> Ifaces] /\ loop \in [Domains -> BOOLEAN]

\* A socket can leave every group that it is in, unless its addresses were
\* replaced meanwhile; no group is joined twice on one interface; a closed
\* socket is in none and a new one has the defaults, whatever the old one had,
\* as an IPv4 one keeps those of IPv6.
CanLeave ==
  /\ \A m \in ToSet(joined) :
       replaced \/ (paddr.multicast_flag_ /\ m.domain_ = paddr.domain_)
  /\ IsInjective(joined)
  /\ init_flag_ \/ (joined = <<>> /\ Fresh)
  /\ family = "INET" => ttl["INET6"] = "default" /\ loop["INET6"]
=============================================================================
