------------------------------ MODULE WsFilters ------------------------------
(***************************************************************************)
(* The query-cost model of the WebSocket engine: isNarrowing() and         *)
(* checkFilters() of core/njs/shield_ws.js, applied to the filters of a    *)
(* REQ, a COUNT or a NEG-OPEN.                                             *)
(*                                                                         *)
(* A JSON value in filter position is [obj |-> is it an object, f |-> its  *)
(* fields, a function from field names to values].  A value is             *)
(*   [kind |-> "array",  lens |-> the length of each element that is a     *)
(*                               string, 0 for any other element]          *)
(*   [kind |-> "string", lens |-> <<its length>>]                          *)
(*   [kind |-> "number", num |-> n]                                        *)
(*   [kind |-> "other"].                                                   *)
(***************************************************************************)
EXTENDS Integers, Sequences, SequencesExt

CONSTANTS maxFilters,       \* ws_max_filters
          maxFilterItems,   \* ws_max_filter_items
          maxLimit,         \* ws_max_limit
          maxFilterValue,   \* ws_max_filter_value
          requireNarrowing, \* ws_require_narrowing # 'false'
          Narrowing         \* field names that select events, "#x" included

ASSUME FilterAssumption ==
    /\ maxFilters \in Nat /\ maxFilterItems \in Nat
    /\ maxLimit \in Nat /\ maxFilterValue \in Nat
    /\ requireNarrowing \in BOOLEAN

isNarrowing(ks) == \E k \in ks : k \in Narrowing

(* The values and the filters JSON.parse() can return. *)
IsValue(v) == \/ v.kind \in {"array", "string"} /\ v.lens \in Seq(Nat)
              \/ v.kind = "number" /\ v.num \in Int
              \/ v.kind = "other"
IsFilter(f) == IsFiniteSet(DOMAIN f.f) /\ \A k \in DOMAIN f.f : IsValue(f.f[k])

(* A number no greater than the cap, or not a number, is no limit at all. *)
LimitExceeded(f) ==
    /\ "limit" \in DOMAIN f.f
    /\ f.f["limit"].kind = "number"
    /\ f.f["limit"].num > maxLimit

StringTooLong(v) ==
    /\ v.kind \in {"array", "string"}
    /\ \E j \in DOMAIN v.lens : v.lens[j] > maxFilterValue

(* What one field adds to the item count: itself and its array elements. *)
FieldItems(v) == 1 + (IF v.kind = "array" THEN Len(v.lens) ELSE 0)

(* What the loop body says of one filter: the first check that fails. *)
FilterFault(f) ==
    IF ~f.obj THEN "bad-filter"
    ELSE IF requireNarrowing /\ ~isNarrowing(DOMAIN f.f) THEN "unbounded-filter"
    ELSE IF LimitExceeded(f) THEN "limit"
    ELSE IF \E k \in DOMAIN f.f : StringTooLong(f.f[k]) THEN "value-len"
    ELSE "none"

FilterItems(f) ==
    FoldFunction(LAMBDA v, n : n + FieldItems(v), 0, f.f)

(* A slip of the loop body: the count restarts with every filter. *)
ScanFilter_last_only(acc, f) ==
    IF acc.fault # "none" THEN acc
    ELSE [fault |-> FilterFault(f),
          items |-> IF FilterFault(f) = "none" THEN FilterItems(f) ELSE acc.items]

(* The loop over the filters: the count so far and the first fault met,    *)
(* after which nothing more is looked at.                                  *)
ScanFilter(acc, f) ==
    IF acc.fault # "none" THEN acc
    ELSE [fault |-> FilterFault(f),
          items |-> IF FilterFault(f) = "none"
                    THEN acc.items + FilterItems(f) ELSE acc.items]

(* What the loop has made of the filters when it is through with them. *)
ScanFilters(filters) ==
    LET after[i \in 0 .. Len(filters)] ==
            IF i = 0 THEN [fault |-> "none", items |-> 0]
            ELSE ScanFilter(after[i - 1], filters[i])
    IN  after[Len(filters)]

(* The fault for which checkFilters() closes the session, or "none". *)
checkFilters(filters) ==
    IF Len(filters) < 1 THEN "no-filter"
    ELSE IF Len(filters) > maxFilters THEN "filters"
    ELSE LET scan == ScanFilters(filters)
         IN  IF scan.fault # "none" THEN scan.fault
             ELSE IF scan.items > maxFilterItems THEN "items" ELSE "none"

(* The rule the verdict names for a fault. *)
FaultRule(fault) ==
    IF fault = "bad-filter" THEN "malformed" ELSE "filter-complexity"
------------------------------------------------------------------------------
(* The budget of a query, stated over all its filters at once.  An item is *)
(* a field, at place 0, or an element of an array, at its own place.       *)
Places(v) == IF v.kind = "array" THEN 0 .. Len(v.lens) ELSE {0}
ItemsOf(i, g, names) == UNION {{<<i, k, j>> : j \in Places(g[k])} : k \in names}
Items(fs) == UNION {ItemsOf(i, fs[i].f, DOMAIN fs[i].f) : i \in DOMAIN fs}

Sound(f) ==
    /\ f.obj
    /\ requireNarrowing => DOMAIN f.f \cap Narrowing # {}
    /\ \A k \in DOMAIN f.f :
          /\ k = "limit" /\ f.f[k].kind = "number" => f.f[k].num <= maxLimit
          /\ f.f[k].kind \in {"array", "string"} =>
                \A j \in DOMAIN f.f[k].lens : f.f[k].lens[j] <= maxFilterValue

WithinBudget(fs) ==
    /\ Len(fs) \in 1 .. maxFilters
    /\ \A i \in DOMAIN fs : Sound(fs[i])
    /\ Cardinality(Items(fs)) <= maxFilterItems
==============================================================================
