----------------------------- MODULE DhcpPool -----------------------------
(***************************************************************************)
(* The address arithmetic of src/dhcp/DhcpServer.cpp: which addresses the  *)
(* configured range holds, which ones the walk of selectIp() visits, and   *)
(* the lease-table cap applyLeaseLimit() derives from the range.           *)
(*                                                                         *)
(* The code keeps an address as a uint32_t in NETWORK byte order on a      *)
(* little-endian CPU.  Here an address is its host-order value, limited to *)
(* the two low octets (the upper two are the same for every address of the *)
(* subnet), and NetOrder is the number the CPU compares when the code      *)
(* compares two network-order words without ntohl().                       *)
(***************************************************************************)
EXTENDS Integers

CONSTANTS Octet,             \* values of one octet (256 in the code)
          RangeStart,        \* rangeStart_, host order
          RangeEnd,          \* rangeEnd_, host order
          ServerIp,          \* serverIp_, host order
          MinLeaseEntries,   \* DHCP_MIN_LEASE_ENTRIES (8)
          MaxLeaseEntries    \* DHCP_MAX_LEASE_ENTRIES (512)

Word == Octet * Octet        \* addresses of the two modelled octets

ASSUME PoolAssumption ==
    /\ Octet \in Nat /\ Octet >= 2
    /\ RangeStart \in 1 .. Word - 1
    /\ RangeEnd \in 1 .. Word - 1
    /\ ServerIp \in 1 .. Word - 1
    /\ MinLeaseEntries \in Nat /\ MaxLeaseEntries \in Nat
    /\ 1 <= MinLeaseEntries /\ MinLeaseEntries <= MaxLeaseEntries

\* The value of a network-order word read by a little-endian CPU: the last
\* octet of the address is the most significant one.
NetOrder(a) == (a % Octet) * Octet + a \div Octet

\* DhcpServer::isIpInRange: both ends and the address go through ntohl().
isIpInRange(ip) == ip # ServerIp /\ RangeStart <= ip /\ ip <= RangeEnd

\* The loop test of selectIp(), `ip <= rangeEnd_` on network-order words.
WalkContinues(ip) == NetOrder(ip) <= NetOrder(RangeEnd)

\* The addresses that loop visits, in increasing host order from rangeStart_.
Walk == { ip \in RangeStart .. Word - 1 :
              \A j \in RangeStart .. ip : WalkContinues(j) }

\* The pool size applyLeaseLimit() works with; the guard compares
\* network-order words, the subtraction is done on uint32_t.
PoolSize == IF NetOrder(RangeEnd) > NetOrder(RangeStart)
            THEN (RangeEnd - RangeStart + 1) % Word
            ELSE 0

\* The bounds applyLeaseLimit() puts on the cap.
Clamp(n) == IF n < MinLeaseEntries THEN MinLeaseEntries
            ELSE IF n > MaxLeaseEntries THEN MaxLeaseEntries ELSE n

\* DhcpServer::applyLeaseLimit: 0 asks for twice the pool.
EffectiveLimit(configured) ==
    Clamp(IF configured = 0 THEN (PoolSize * 2) % Word ELSE configured)

-----------------------------------------------------------------------------
\* What the range means, independent of the byte order.
ConfiguredRange == { ip \in RangeStart .. RangeEnd : ip # ServerIp }
===========================================================================
