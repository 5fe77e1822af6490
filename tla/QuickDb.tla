------------------------------ MODULE QuickDb ------------------------------
(***************************************************************************)
(* The registry of Bloom filters of a Service: creation within a budget,   *)
(* insertion, known deletion, growth, snapshots and readiness.             *)
(* src/engine/crates/route-engine/src/quickdb.rs                           *)
(*                                                                         *)
(* Every operation holds the registry's lock from end to end and is one    *)
(* step.  A hash is the sequence of positions it yields, a constant of the *)
(* layer and the value, as are the layer's capacity and size.  Statistics  *)
(* are left out.                                                           *)
(***************************************************************************)
EXTENDS Naturals, Sequences, FiniteSets, FiniteSetsExt
Seqs == INSTANCE SequencesExt

CONSTANTS Names, Values, Slots,
          Hash,        \* Hash[layer][value], a sequence of positions
          Snapshots,   \* the lists of values that callers pass
          CounterMax,  \* what four bits hold
          Capacity,    \* Capacity[layer]: the additions a layer takes
          LayerBytes,  \* LayerBytes[layer]: what it allocates
          CountingBytes,   \* what the counters of a counting filter allocate
          MaxFilters, MaxBytes, MaxLayers

VARIABLES
  filters,   \* the registry: name to filter
  known      \* history: how often the database has what the caller reported

vars == <<filters, known>>

Kinds == {"bloom", "counting", "scalable"}
Empty == [s \in Slots |-> 0]
Nothing == [v \in Values |-> 0]

Init == filters = <<>> /\ known = [n \in Names |-> Nothing]
-----------------------------------------------------------------------------
(* Filters. *)

\* How often a value's hash meets a position.
Times(l, v, s) == Cardinality({i \in DOMAIN Hash[l][v] : Hash[l][v][i] = s})

Touches(l, v) == {Hash[l][v][i] : i \in DOMAIN Hash[l][v]}

\* A check of every position on its own.
FitsOnce(count, v) == \A s \in Touches(1, v) : count[s] < CounterMax

\* CountingBloomFilter::add; 15u8.saturating_sub(increments).
Fits(count, v) ==
  \A s \in Touches(1, v) :
    count[s] <= IF Times(1, v, s) > CounterMax THEN 0 ELSE CounterMax - Times(1, v, s)

\* set_counter keeps four bits.
Counted(count, v) ==
  [s \in Slots |-> (count[s] + Times(1, v, s)) % (CounterMax + 1)]

\* BloomFilter::add.
Marked(layer, l, v) == [s \in Slots |-> IF s \in Touches(l, v) THEN 1 ELSE layer[s]]

\* stats().allocated_bytes of a filter.
Bytes(f) ==
  IF f.kind = "counting" THEN CountingBytes
  ELSE MapThenSumSet(LAMBDA l : LayerBytes[l], DOMAIN f.layers)

RegistryBytes == MapThenSumSet(LAMBDA n : Bytes(filters[n]), DOMAIN filters)

\* remaining_filter_budget.
Limit(n) == MaxBytes - (RegistryBytes - Bytes(filters[n]))

\* add_bounded: the last layer is full.
NeedsLayer(f) == f.kind = "scalable" /\ f.writes >= Capacity[Len(f.layers)]
MayGrow(f, limit) ==
  /\ Len(f.layers) < MaxLayers
  /\ Bytes(f) + LayerBytes[Len(f.layers) + 1] <= limit

Grown(f) == IF NeedsLayer(f) THEN [f EXCEPT !.layers = Append(@, Empty), !.writes = 0] ELSE f

\* Filter::add can take the value.
Accepts(f, v, limit) ==
  CASE f.kind = "bloom" -> TRUE
    [] f.kind = "counting" -> Fits(f.layers[1], v)
    [] f.kind = "scalable" -> NeedsLayer(f) => MayGrow(f, limit)

Inserted(f, v) ==
  LET g == Grown(f)
      l == Len(g.layers)
  IN CASE f.kind = "counting" -> [f EXCEPT !.layers[1] = Counted(@, v)]
       [] f.kind = "bloom" -> [f EXCEPT !.layers[1] = Marked(@, 1, v)]
       [] f.kind = "scalable" -> [g EXCEPT !.layers[l] = Marked(@, l, v), !.writes = @ + 1]

\* What a failed addition leaves.
Failed(f) == [f EXCEPT !.ready = FALSE, !.poisoned = TRUE]

\* Additions one after the other, up to the first that fails.
AddOne(f, v, limit) == IF Accepts(f, v, limit) THEN Inserted(f, v) ELSE Failed(f)

AddAll(f, values, limit) ==
  Seqs!FoldLeft(LAMBDA r, v :
                  IF ~r.ok THEN r
                  ELSE [f |-> AddOne(r.f, v, limit), ok |-> Accepts(r.f, v, limit)],
                [f |-> f, ok |-> TRUE], values)

Contains(f, v) ==
  \E l \in DOMAIN f.layers : \A s \in Touches(l, v) : f.layers[l][s] # 0

\* Filter::clear keeps the first layer only.
Cleared(f) ==
  [f EXCEPT !.layers = <<Empty>>, !.writes = 0, !.ready = FALSE, !.poisoned = FALSE]
-----------------------------------------------------------------------------
(* The operations of the registry. *)

Create(n, k) ==
  /\ n \notin DOMAIN filters /\ Cardinality(DOMAIN filters) < MaxFilters
  /\ LET f == [kind |-> k, layers |-> <<Empty>>, writes |-> 0, ready |-> FALSE,
               poisoned |-> FALSE]
     IN /\ RegistryBytes + Bytes(f) <= MaxBytes
        /\ filters' = [m \in DOMAIN filters \cup {n} |-> IF m = n THEN f ELSE filters[m]]
  /\ known' = [known EXCEPT ![n] = Nothing]

\* The database has the values, whatever becomes of the filter.  Only known
\* deletions need the number.
Reported(n, bag, values) ==
  [v \in Values |->
     Min({bag[v] + Cardinality({i \in DOMAIN values : values[i] = v}),
          IF filters[n].kind = "counting" THEN CounterMax ELSE 1})]

\* add and add_many.
Add(n, values) ==
  /\ filters' = [filters EXCEPT ![n] = AddAll(@, values, Limit(n)).f]
  /\ known' = [known EXCEPT ![n] = Reported(n, @, values)]

Ready(result) == IF result.ok THEN [result.f EXCEPT !.ready = TRUE] ELSE result.f

LoadSnapshot(n, values) ==
  /\ ~filters[n].ready /\ ~filters[n].poisoned
  /\ filters' = [filters EXCEPT ![n] = Ready(AddAll(@, values, Limit(n)))]
  /\ known' = [known EXCEPT ![n] = Reported(n, @, values)]

RebuildSnapshot(n, values) ==
  /\ filters' = [filters EXCEPT ![n] = Ready(AddAll(Cleared(@), values, Limit(n)))]
  /\ known' = [known EXCEPT ![n] = Reported(n, Nothing, values)]

\* removeKnown, called for values that the database had and has deleted.
Remove(n, v) ==
  /\ filters[n].ready /\ filters[n].kind = "counting" /\ known[n][v] > 0
  /\ LET count == filters[n].layers[1] IN
       IF \A s \in Touches(1, v) : count[s] >= Times(1, v, s)
       THEN filters' = [filters EXCEPT ![n].layers[1] =
                          [s \in Slots |-> count[s] - Times(1, v, s)]]
       ELSE UNCHANGED filters
  /\ known' = [known EXCEPT ![n][v] = @ - 1]

\* The caller clears a filter to fill it again.
Clear(n) ==
  /\ filters' = [filters EXCEPT ![n] = Cleared(@)]
  /\ known' = [known EXCEPT ![n] = Nothing]

DropFilter(n) ==
  /\ filters' = [m \in DOMAIN filters \ {n} |-> filters[m]]
  /\ known' = [known EXCEPT ![n] = Nothing]

Seal(n) ==
  /\ ~filters[n].poisoned
  /\ filters' = [filters EXCEPT ![n].ready = TRUE] /\ UNCHANGED known

Next ==
  \/ \E n \in Names : \E k \in Kinds : Create(n, k)
  \/ \E n \in DOMAIN filters :
       \/ \E values \in Snapshots :
            Add(n, values) \/ LoadSnapshot(n, values) \/ RebuildSnapshot(n, values)
       \/ \E v \in Values : Remove(n, v)
       \/ Clear(n) \/ DropFilter(n) \/ Seal(n)

Spec == Init /\ [][Next]_vars
-----------------------------------------------------------------------------
TypeOK ==
  /\ DOMAIN filters \subseteq Names /\ known \in [Names -> [Values -> 0 .. CounterMax]]
  /\ \A n \in DOMAIN filters :
       /\ filters[n].kind \in Kinds /\ filters[n].writes \in Nat
       /\ filters[n].ready \in BOOLEAN /\ filters[n].poisoned \in BOOLEAN
       /\ \A l \in DOMAIN filters[n].layers :
            filters[n].layers[l] \in [Slots -> 0 .. CounterMax]

\* A counter can count the value.
Countable(v) == \A s \in Slots : Times(1, v, s) <= CounterMax

(***************************************************************************)
(* A filter that answers membership questions has every value the caller   *)
(* reported and did not delete: `missing(value) == true` "means the        *)
(* synchronized filter can say the value is definitely absent"             *)
(* (doc/quickdb.md).  Counters that are full, an addition that fails in    *)
(* the middle of a list, growth that is refused, deletions and rebuilds    *)
(* included.  The exception: a counting filter lets in a value that meets  *)
(* a position more often than a counter counts (there are up to 32 hash    *)
(* functions), and its counter wraps; such a value may be missing, what    *)
(* else is in the filter may not.                                          *)
(***************************************************************************)
MissingIsMissing ==
  \A n \in DOMAIN filters : filters[n].ready =>
    \A v \in Values :
      known[n][v] > 0 /\ (filters[n].kind = "counting" => Countable(v)) => Contains(filters[n], v)

(***************************************************************************)
(* All filters together stay within the budget, whichever of them grows,   *)
(* and no filter is ready that a failed addition has left incomplete.      *)
(***************************************************************************)
BudgetKept ==
  /\ RegistryBytes <= MaxBytes
  /\ \A n \in DOMAIN filters : ~(filters[n].ready /\ filters[n].poisoned)
=============================================================================
