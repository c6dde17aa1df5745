----------------------------- MODULE AllowTable -----------------------------
(***************************************************************************)
(* The allow-list of the DHCP server (dhcp/DhcpAllowedList.cpp): a hash      *)
(* table with linear probing, kept twice.  A page fills the inactive copy    *)
(* and makes it active with one store; the DHCP task walks the copy that was *)
(* active when its walk began, slot by slot, with no lock.                   *)
(*                                                                         *)
(* Pages follow one another here.  Whether a client is served at all is in   *)
(* DhcpServer.                                                               *)
(***************************************************************************)
EXTENDS Naturals, Sequences, FiniteSets

CONSTANTS
    Mac, NoMac,
    Slots,              \* kSlots
    MaxListed,          \* kMaxEntries
    hashMac,            \* FNV-1a, reduced to a slot
    ListsOf             \* the lists of [mac, enabled] an operator saves

ASSUME AllowAssumption ==
    /\ Slots \in Nat \ {0} /\ MaxListed \in Nat /\ MaxListed < Slots
    /\ NoMac \notin Mac
    /\ hashMac \in [Mac -> 0..Slots - 1]
    /\ \A list \in ListsOf : list \in Seq([mac : Mac, enabled : BOOLEAN])

VARIABLES
    table,              \* slots_: the two copies
    activeCopy,         \* active_
    filling,            \* where rebuild() stands: the list and the entry
    walk                \* where contains() stands

allowVars == <<table, activeCopy, filling, walk>>

Empty == [i \in 0..Slots - 1 |-> NoMac]
NotFilling == [list |-> <<>>, at |-> 0, inserted |-> 0]
NoWalk == [mac |-> NoMac, copy |-> 0, at |-> 0, seen |-> 0, answer |-> "none",
           held |-> {}, flips |-> 0, wiped |-> FALSE]

Held(t) == {t[i] : i \in 0..Slots - 1} \ {NoMac}

AllowTypeOK ==
    /\ table \in [{0, 1} -> [0..Slots - 1 -> Mac \cup {NoMac}]]
    /\ activeCopy \in {0, 1}
    /\ filling.list \in ListsOf \cup {<<>>} /\ filling.inserted \in 0..MaxListed
    /\ walk.seen \in 0..Slots

AllowInit ==
    /\ table = [c \in {0, 1} |-> Empty]
    /\ activeCopy = 0
    /\ filling = NotFilling
    /\ walk = NoWalk

-----------------------------------------------------------------------------
inactive == 1 - activeCopy

\* rebuild: the inactive copy is cleared.  A walk that is still on it, from
\* before the last flip, loses it.
rebuild(list) ==
    /\ filling.at = 0
    /\ table' = [table EXCEPT ![inactive] = Empty]
    /\ filling' = [list |-> list, at |-> 1, inserted |-> 0]
    /\ walk' = [walk EXCEPT !.wiped = @ \/ (walk.answer = "walking" /\ walk.flips > 0)]
    /\ UNCHANGED activeCopy

\* The first free slot of the chain, or none for a duplicate.
freeSlot(t, mac) ==
    LET slot(i) == (hashMac[mac] + i) % Slots
        stops == {i \in 0..Slots - 1 : t[slot(i)] \in {NoMac, mac}}
        first == CHOOSE i \in stops : \A j \in stops : i <= j
    IN IF stops = {} \/ t[slot(first)] = mac THEN Slots ELSE slot(first)

\* One entry: a disabled one allows nothing, one too many is dropped.
rebuild_Insert ==
    /\ filling.at \in 1..Len(filling.list)
    /\ LET entry == filling.list[filling.at]
           slot == freeSlot(table[inactive], entry.mac)
           fits == entry.enabled /\ filling.inserted < MaxListed /\ slot < Slots
       IN /\ table' = IF fits THEN [table EXCEPT ![inactive][slot] = entry.mac] ELSE table
          /\ filling' = [filling EXCEPT !.at = @ + 1, !.inserted = IF fits THEN @ + 1 ELSE @]
    /\ UNCHANGED <<activeCopy, walk>>

rebuild_Flip ==
    /\ filling.at = Len(filling.list) + 1 /\ filling.at > 0
    /\ activeCopy' = 1 - activeCopy
    /\ filling' = NotFilling
    /\ walk' = [walk EXCEPT !.flips = IF walk.answer = "walking" THEN 1 ELSE @]
    /\ UNCHANGED table

-----------------------------------------------------------------------------
\* contains: the copy is chosen once.
contains(mac) ==
    /\ walk.answer # "walking"
    /\ walk' = [mac |-> mac, copy |-> activeCopy, at |-> hashMac[mac], seen |-> 0,
                answer |-> "walking", held |-> Held(table[activeCopy]), flips |-> 0, wiped |-> FALSE]
    /\ UNCHANGED <<table, activeCopy, filling>>

\* As if: the copy were chosen again for every slot.
contains_Probe_Rechosen ==
    /\ walk.answer = "walking"
    /\ LET slot == table[activeCopy][walk.at] IN
        walk' = [walk EXCEPT
            !.answer = IF slot = walk.mac THEN "yes"
                       ELSE IF slot = NoMac \/ walk.seen = Slots - 1 THEN "no" ELSE @,
            !.at = (@ + 1) % Slots,
            !.seen = @ + 1]
    /\ UNCHANGED <<table, activeCopy, filling>>

contains_Probe ==
    /\ walk.answer = "walking"
    /\ LET slot == table[walk.copy][walk.at] IN
        walk' = [walk EXCEPT
            !.answer = IF slot = walk.mac THEN "yes"
                       ELSE IF slot = NoMac \/ walk.seen = Slots - 1 THEN "no" ELSE @,
            !.at = (@ + 1) % Slots,
            !.seen = @ + 1]
    /\ UNCHANGED <<table, activeCopy, filling>>

\* isClientAllowed and the bindings follow; the walk is over.
isClientAllowed ==
    /\ walk.answer \in {"yes", "no"}
    /\ walk' = NoWalk
    /\ UNCHANGED <<table, activeCopy, filling>>

allowStep == rebuild_Insert \/ rebuild_Flip \/ contains_Probe

AllowNext ==
    \/ \E list \in ListsOf : rebuild(list)
    \/ \E mac \in Mac : contains(mac)
    \/ isClientAllowed \/ allowStep

-----------------------------------------------------------------------------
\* The clients a list allows: the enabled ones, the first MaxListed of them.
Allows(list) ==
    LET On(n) == {list[i].mac : i \in {j \in 1..n : list[j].enabled}}
    IN UNION {On(n) : n \in {k \in 0..Len(list) : Cardinality(On(k)) <= MaxListed}}

\* A walk answers for the list that was in force when it began, however much of
\* the next one is written meanwhile.  Two copies are enough for one rebuild: a
\* second that begins before the walk is over wipes the copy under it.
WalkIsTrue ==
    walk.answer \in {"yes", "no"} /\ ~walk.wiped => (walk.answer = "yes" <=> walk.mac \in walk.held)

\* Once the copy is in force it holds exactly the clients the list allows, wherever
\* their chains begin, meet and wrap round.
TableIsList ==
    filling.at > 0 /\ filling'.at = 0 => Held(table'[activeCopy']) = Allows(filling.list)
=============================================================================
