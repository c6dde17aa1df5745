------------------------------ MODULE CacheMap ------------------------------
(***************************************************************************)
(* What the built-in DNS cache promises: a map of at most `Capacity`       *)
(* records that forgets the record nobody asks for when it is full, and a  *)
(* record past its lifetime when it is asked for.  A record is its age, as *)
(* the 32-bit millisecond clock shows it, and how often it was used.       *)
(***************************************************************************)
EXTENDS Naturals, FiniteSets

CONSTANTS Key, Capacity, Ttl(_), MaxUses, ClockMod

VARIABLES on, map, forgetting

mapVars == <<on, map, forgetting>>

Empty == [k \in {} |-> 0]
Has(k) == k \in DOMAIN map
Without(m, k) == [j \in DOMAIN m \ {k} |-> m[j]]
With(m, k, r) == [j \in DOMAIN m \cup {k} |-> IF j = k THEN r ELSE m[j]]
Used(u) == IF u < MaxUses THEN u + 1 ELSE u
Fresh(u) == [age |-> 0, uses |-> u]

Elapsed(k) == map[k].age
Expired(k) == forgetting /\ Ttl(k) # 0 /\ Elapsed(k) >= Ttl(k)

\* The least used, and of these the one that seems the oldest.
Dispensable(k) ==
    \A j \in DOMAIN map :
        \/ map[k].uses < map[j].uses
        \/ map[k].uses = map[j].uses /\ Elapsed(k) >= Elapsed(j)

MapInit == on = FALSE /\ map = Empty /\ forgetting \in BOOLEAN

\* Each operation as the map `new` it makes of the old one.
Switch(new) == new = Empty
Put(k, r, new) ==
    /\ on
    /\ \/ (Has(k) \/ Cardinality(DOMAIN map) < Capacity) /\ new = With(map, k, r)
       \/ /\ ~Has(k) /\ Cardinality(DOMAIN map) = Capacity
          /\ \E victim \in DOMAIN map :
                Dispensable(victim) /\ new = With(Without(map, victim), k, r)
Learn(k, new) == Put(k, Fresh(Used(IF Has(k) THEN map[k].uses ELSE 0)), new)
Restore(k, u, new) == Put(k, Fresh(u), new)
Hit(k, new) == Has(k) /\ ~Expired(k) /\ new = [map EXCEPT ![k].uses = Used(@)]
Forget(k, new) == Has(k) /\ new = Without(map, k)
\* A millisecond passes; an age beyond the range of the clock begins anew.
Pass(new) == new = [k \in DOMAIN map |-> [map[k] EXCEPT !.age = (@ + 1) % ClockMod]]

MapNext ==
    \/ on' # on /\ Switch(map') /\ UNCHANGED forgetting
    \/ forgetting' # forgetting /\ UNCHANGED <<on, map>>
    \/ /\ UNCHANGED <<on, forgetting>>
       /\ \E new \in {map'} :
             /\ DOMAIN new \subseteq Key
             /\ \/ Switch(new) \/ Pass(new)
                \/ \E k \in DOMAIN new :
                      Learn(k, new) \/ Hit(k, new) \/ \E u \in 0 .. MaxUses : Restore(k, u, new)
                \/ \E k \in DOMAIN map : Forget(k, new)

MapSpec == MapInit /\ [][MapNext]_mapVars
=============================================================================
