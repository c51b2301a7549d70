------------------------------ MODULE TtlWindow ------------------------------
(***************************************************************************)
(* The sliding window of core/ttl_window.py: an OrderedDict from keys to   *)
(* the time they were stored, as the sequence of its items.  Eviction      *)
(* looks at the head only, so an item that is older than TTL stays as long *)
(* as a younger one is in front of it.                                     *)
(***************************************************************************)
EXTENDS Naturals, Sequences

CONSTANT TTL \* seconds

ASSUME TtlAssumption == TTL \in Nat

\* Mutant of Fresh: an item of exactly TTL seconds is evicted.
FreshStrictly(e, now) == e.at + TTL > now

\* The item is not older than the deadline of evict().
Fresh(e, now) == e.at + TTL >= now

\* The first item evict() does not pop; one past the end when it pops them all.
FirstKept(w, now) ==
    CHOOSE i \in 1..(Len(w) + 1) :
        /\ \A j \in 1..(i - 1) : ~Fresh(w[j], now)
        /\ i <= Len(w) => Fresh(w[i], now)

\* Mutant of Evict: popitem() with the default last=True never gets past the head.
EvictTail(w, now) ==
    IF w # <<>> /\ ~Fresh(w[1], now) THEN SubSeq(w, 1, Len(w) - 1) ELSE w

\* evict
Evict(w, now) == SubSeq(w, FirstKept(w, now), Len(w))

\* `key in self._store`
Has(w, k) == \E i \in DOMAIN w : w[i].key = k

Position(w, k) == CHOOSE i \in DOMAIN w : w[i].key = k

\* The window without the item at position p.
Drop(w, p) == [i \in 1..(Len(w) - 1) |-> IF i < p THEN w[i] ELSE w[i + 1]]

\* add_if_absent: a key that is there keeps its time and moves to the end.
AddIfAbsent(w, k, now) ==
    LET kept == Evict(w, now) IN
    IF Has(kept, k)
    THEN Append(Drop(kept, Position(kept, k)), kept[Position(kept, k)])
    ELSE Append(kept, [key |-> k, at |-> now])

\* Mutant of Add: the assignment leaves a known key where it was.
AddInPlace(w, k, now) ==
    LET kept == Evict(w, now) IN
    IF Has(kept, k)
    THEN [kept EXCEPT ![Position(kept, k)].at = now]
    ELSE Append(kept, [key |-> k, at |-> now])

\* add: a key that is there gets the new time and moves to the end.
Add(w, k, now) ==
    LET kept == Evict(w, now)
        rest == IF Has(kept, k) THEN Drop(kept, Position(kept, k)) ELSE kept
    IN Append(rest, [key |-> k, at |-> now])
=============================================================================
