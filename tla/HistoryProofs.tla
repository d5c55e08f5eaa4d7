----------------------------- MODULE HistoryProofs -----------------------------
(***************************************************************************)
(* Proofs about History and StatusViews for every set of monitors, every   *)
(* set of bucket widths, every retention and every bound: the stored       *)
(* buckets are exactly those that the raw checks make, the evidence of an  *)
(* incident event is its own check, and what the read-only endpoints make  *)
(* of the tables agrees with itself and with the raw checks.               *)
(*                                                                         *)
(* RollupsExact says of each stored bucket what it must contain.  What is  *)
(* inductive is an equation: the table is the function Exact(results).     *)
(* Each operation refreshes some buckets, and the argument is always that  *)
(* the checks of all other buckets are the same before and after.          *)
(*                                                                         *)
(* The views need a second invariant, ViewInv: the checks are a finite     *)
(* table with a primary key, nothing in it is of the future, and each      *)
(* state row is that of the latest result.  The rest is about sums over    *)
(* buckets, the loop over the monitors and the pages, by the inductions of *)
(* DataLemmas.                                                             *)
(***************************************************************************)
EXTENDS StatusViews, DataLemmas, SequenceTheorems

\* The table that a recomputation from the raw checks would give.
Exact(rs) == [k \in Grouped(rs) |-> Summary(CoveredBy(rs, k))]

IsBucket(k) == k \in Monitors \X Widths \X Int /\ Aligned(k)

-------------------------------------------------------------------------------
(* Buckets *)

\* A bucket start is aligned, and the bucket holds the time it was made from.
LEMMA BucketHolds ==
    ASSUME NEW t \in Int, NEW w \in Nat \ {0}
    PROVE  LET b == BucketStartFor(t, w) IN
           b \in Int /\ b % w = 0 /\ b =< t /\ t < b + w
<1>1. t % w \in 0..(w - 1)
  OBVIOUS
<1>2. t = (w * (t \div w)) + (t % w)
  OBVIOUS
<1>3. t \div w \in Int
  OBVIOUS
<1>4. BucketStartFor(t, w) = w * (t \div w)
  BY <1>1, <1>2, <1>3 DEF BucketStartFor
<1>5. (w * (t \div w)) % w = 0
  BY <1>3
<1> QED
  BY <1>1, <1>2, <1>3, <1>4, <1>5

\* Aligned buckets do not overlap.
LEMMA BucketsApart ==
    ASSUME NEW w \in Nat \ {0}, NEW a \in Int, NEW b \in Int,
           a % w = 0, b % w = 0, a < b
    PROVE  a + w =< b
<1>1. a = (w * (a \div w)) + (a % w) /\ b = (w * (b \div w)) + (b % w)
  OBVIOUS
<1>2. a \div w \in Int /\ b \div w \in Int
  OBVIOUS
<1>3. a = w * (a \div w) /\ b = w * (b \div w)
  BY <1>1, <1>2
<1> DEFINE p == a \div w
           q == b \div w
<1>4. p \in Int /\ q \in Int /\ a = w * p /\ b = w * q
  BY <1>2, <1>3
<1> HIDE DEF p, q
<1>5. p < q
  BY <1>4
<1>6. (w * p) + w =< w * q
  BY <1>4, <1>5
<1> QED
  BY <1>4, <1>6

\* A time is in one aligned bucket only.
LEMMA OneBucket ==
    ASSUME NEW t \in Int, NEW w \in Nat \ {0}, NEW b \in Int,
           b % w = 0, b =< t, t < b + w
    PROVE  b = BucketStartFor(t, w)
<1> DEFINE a == BucketStartFor(t, w)
<1>1. a \in Int /\ a % w = 0 /\ a =< t /\ t < a + w
  BY BucketHolds
<1> HIDE DEF a
<1>2. ~(a < b)
  <2> SUFFICES ASSUME a < b PROVE FALSE
    OBVIOUS
  <2>1. a + w =< b
    BY <1>1, BucketsApart
  <2> QED
    BY <1>1, <2>1
<1>3. ~(b < a)
  <2> SUFFICES ASSUME b < a PROVE FALSE
    OBVIOUS
  <2>1. b + w =< a
    BY <1>1, BucketsApart
  <2> QED
    BY <1>1, <2>1
<1>4. a = b
  BY <1>1, <1>2, <1>3
<1> QED
  BY <1>4 DEF a

\* What the proofs need of a check's type.
LEMMA CheckFields ==
    ASSUME NEW r \in CheckResult
    PROVE  r.monitor \in Monitors /\ r.at \in Nat \ {0} /\ r.id \in Nat \ {0} /\ r.state \in States
BY DEF CheckResult

\* The buckets refreshed for a check are aligned and hold it, and no other does.
LEMMA BucketsOfCheck ==
    ASSUME NEW m \in Monitors, NEW t \in Int, NEW k \in Monitors \X Widths \X Int
    PROVE  k \in RollupsFor(m, t) <=> Aligned(k) /\ k[1] = m /\ k[3] =< t /\ t < k[3] + k[2]
<1> DEFINE w == k[2]
<1>1. w \in Widths /\ w \in Nat \ {0} /\ k[3] \in Int /\ k = <<k[1], k[2], k[3]>>
  <2>1. PICK a \in Monitors, b \in Widths, c \in Int : k = <<a, b, c>>
    OBVIOUS
  <2>2. b \in Nat \ {0}
    BY HistoryAssumption
  <2> QED
    BY <2>1, <2>2
<1>2. ASSUME k \in RollupsFor(m, t)
      PROVE  Aligned(k) /\ k[1] = m /\ k[3] =< t /\ t < k[3] + k[2]
  <2>1. PICK x \in Widths : k = <<m, x, BucketStartFor(t, x)>>
    BY <1>2 DEF RollupsFor
  <2>2. x = k[2] /\ k[1] = m /\ k[3] = BucketStartFor(t, k[2])
    BY <2>1
  <2> QED
    BY <2>2, <1>1, BucketHolds DEF Aligned
<1>3. ASSUME Aligned(k), k[1] = m, k[3] =< t, t < k[3] + k[2]
      PROVE  k \in RollupsFor(m, t)
  <2>1. k[3] = BucketStartFor(t, k[2])
    BY <1>1, <1>3, OneBucket DEF Aligned
  <2> QED
    BY <1>1, <1>3, <2>1 DEF RollupsFor
<1> QED
  BY <1>2, <1>3

\* The buckets refreshed for a check are of its monitor and a known width.
LEMMA BucketsTyped ==
    ASSUME NEW m \in Monitors, NEW t \in Int
    PROVE  RollupsFor(m, t) \subseteq Monitors \X Widths \X Int
<1> SUFFICES ASSUME NEW w \in Widths PROVE BucketStartFor(t, w) \in Int
  BY DEF RollupsFor
<1> QED
  BY BucketHolds, HistoryAssumption

\* The buckets some check makes are the aligned ones that cover a completed check.
LEMMA GroupedAreCovered ==
    ASSUME NEW rs \in SUBSET CheckResult, NEW k
    PROVE  k \in Grouped(rs) <=> IsBucket(k) /\ CoveredBy(rs, k) # {}
<1>1. ASSUME k \in Grouped(rs) PROVE IsBucket(k) /\ CoveredBy(rs, k) # {}
  <2>1. PICK r \in rs : Counts(r) /\ k \in RollupsFor(r.monitor, r.at)
    BY <1>1 DEF Grouped
  <2>2. k \in Monitors \X Widths \X Int
    BY <2>1, CheckFields, BucketsTyped
  <2>3. Aligned(k) /\ k[1] = r.monitor /\ k[3] =< r.at /\ r.at < k[3] + k[2]
    BY <2>1, <2>2, CheckFields, BucketsOfCheck
  <2> QED
    BY <2>1, <2>2, <2>3 DEF IsBucket, CoveredBy, Covered
<1>2. ASSUME IsBucket(k), CoveredBy(rs, k) # {} PROVE k \in Grouped(rs)
  <2>1. PICK r \in rs : Counts(r) /\ r.monitor = k[1] /\ k[3] =< r.at /\ r.at < k[3] + k[2]
    BY <1>2 DEF CoveredBy, Covered
  <2>2. k \in RollupsFor(r.monitor, r.at)
    BY <1>2, <2>1, CheckFields, BucketsOfCheck DEF IsBucket
  <2> QED
    BY <2>1, <2>2 DEF Grouped
<1> QED
  BY <1>1, <1>2

-------------------------------------------------------------------------------
(* The table stays exact *)

\* Refreshing some buckets makes the table exact when every other bucket covers
\* what it covered when it was exact before.
LEMMA RefreshKeepsExact ==
    ASSUME NEW old \in SUBSET CheckResult, NEW new \in SUBSET CheckResult,
           NEW table, NEW keys,
           \A k \in keys : IsBucket(k),
           table = [k \in DOMAIN table |-> table[k]],
           \A k \in DOMAIN table : k \in Grouped(old) /\ table[k] = Summary(CoveredBy(old, k)),
           \A k \in DOMAIN table \ keys : CoveredBy(new, k) = CoveredBy(old, k),
           \A k \in Grouped(new) : k \in DOMAIN table \cup keys
    PROVE  Refreshed(table, new, keys) = Exact(new)
<1> DEFINE dom == (DOMAIN table \ keys) \cup {k \in keys : CoveredBy(new, k) # {}}
<1>1. ASSUME NEW k \in dom PROVE k \in Grouped(new)
  BY GroupedAreCovered
<1>2. ASSUME NEW k \in Grouped(new) PROVE k \in dom
  BY <1>2, GroupedAreCovered
<1>3. dom = Grouped(new)
  BY <1>1, <1>2
<1>4. ASSUME NEW k \in dom
      PROVE  (IF k \in keys THEN Summary(CoveredBy(new, k)) ELSE table[k]) = Summary(CoveredBy(new, k))
  OBVIOUS
<1> HIDE DEF dom
<1>5. Refreshed(table, new, keys) =
        [k \in dom |-> IF k \in keys THEN Summary(CoveredBy(new, k)) ELSE table[k]]
  BY DEF Refreshed, dom
<1> QED
  BY <1>3, <1>4, <1>5 DEF Exact

\* rebuildRollups starts from the raw checks alone.
LEMMA RebuildIsExact ==
    ASSUME NEW rs \in SUBSET CheckResult
    PROVE  Rebuilt(rs) = Exact(rs)
<1> DEFINE counted == [k \in Grouped(rs) |-> [Summary(CoveredBy(rs, k)) EXCEPT !.p50 = NULL, !.p95 = NULL]]
           keys == {k \in DOMAIN counted : counted[k].p95 = NULL}
<1>1. Rebuilt(rs) = Refreshed(counted, rs, keys)
  BY DEF Rebuilt
<1>2. DOMAIN counted = Grouped(rs)
  OBVIOUS
<1>3. ASSUME NEW k \in Grouped(rs) PROVE counted[k].p95 = NULL
  BY DEF Summary
<1>4. keys = Grouped(rs)
  BY <1>2, <1>3
<1> HIDE DEF counted, keys
<1>5. (DOMAIN counted \ keys) \cup {k \in keys : CoveredBy(rs, k) # {}} = Grouped(rs)
  BY <1>2, <1>4, GroupedAreCovered
<1> QED
  BY <1>1, <1>4, <1>5 DEF Refreshed, Exact

\* The table as it is after each operation, when it was exact before.
LEMMA RecordKeepsExact ==
    ASSUME NEW rs \in SUBSET CheckResult, NEW r \in CheckResult
    PROVE  /\ Counts(r) => Refreshed(Exact(rs), rs \cup {r}, RollupsFor(r.monitor, r.at)) = Exact(rs \cup {r})
           /\ ~Counts(r) => /\ Exact(rs \cup {r}) = Exact(rs)
                            /\ Refreshed(Exact(rs), rs \cup {r}, RollupsFor(r.monitor, r.at)) = Exact(rs \cup {r})
<1> DEFINE new == rs \cup {r}
           keys == RollupsFor(r.monitor, r.at)
<1>1. new \in SUBSET CheckResult
  OBVIOUS
<1>2. keys \subseteq Monitors \X Widths \X Int
  BY BucketsTyped, CheckFields
<1>3. \A k \in keys : IsBucket(k)
  BY <1>2, CheckFields, BucketsOfCheck DEF IsBucket
<1>4. ASSUME NEW k, IsBucket(k), k \notin keys PROVE CoveredBy(new, k) = CoveredBy(rs, k)
  <2>1. ~(r.monitor = k[1] /\ k[3] =< r.at /\ r.at < k[3] + k[2])
    BY <1>4, CheckFields, BucketsOfCheck DEF IsBucket
  <2> QED
    BY <2>1 DEF CoveredBy, Covered
<1>5. DOMAIN Exact(rs) = Grouped(rs) /\ Exact(rs) = [k \in DOMAIN Exact(rs) |-> Exact(rs)[k]]
  BY DEF Exact
<1>6. \A k \in DOMAIN Exact(rs) : k \in Grouped(rs) /\ Exact(rs)[k] = Summary(CoveredBy(rs, k))
  BY DEF Exact
<1>7. \A k \in DOMAIN Exact(rs) \ keys : CoveredBy(new, k) = CoveredBy(rs, k)
  BY <1>4, <1>5, GroupedAreCovered
<1>8. \A k \in Grouped(new) : k \in DOMAIN Exact(rs) \cup keys
  <2> SUFFICES ASSUME NEW k \in Grouped(new), k \notin keys PROVE k \in Grouped(rs)
    BY <1>5
  <2>1. IsBucket(k) /\ CoveredBy(new, k) # {}
    BY <1>1, GroupedAreCovered
  <2> QED
    BY <2>1, <1>4, GroupedAreCovered
<1> HIDE DEF new, keys
<1>9. Refreshed(Exact(rs), new, keys) = Exact(new)
  BY <1>1, <1>3, <1>5, <1>6, <1>7, <1>8, RefreshKeepsExact
<1>10. ASSUME ~Counts(r) PROVE Exact(new) = Exact(rs)
  <2>1. \A k : CoveredBy(new, k) = CoveredBy(rs, k)
    BY <1>10 DEF CoveredBy, Covered, new
  <2>2. Grouped(new) = Grouped(rs)
    BY <1>10 DEF Grouped, new
  <2> QED
    BY <2>1, <2>2 DEF Exact
<1> QED
  BY <1>9, <1>10 DEF new, keys

\* Buckets before the straddling one lose all their checks, later ones none.
LEMMA PruneKeepsExact ==
    ASSUME NEW cutoff \in Int, results \in SUBSET CheckResult, rollups = Exact(results)
    PROVE  LET kept == results \ {r \in results : r.at < cutoff} IN
           PrunedRollups(cutoff, kept) = Exact(kept)
<1> DEFINE kept == results \ {r \in results : r.at < cutoff}
           dom == {k \in DOMAIN rollups : k[3] >= BucketStartFor(cutoff, k[2])}
           table == [k \in dom |-> rollups[k]]
           keys == {k \in DOMAIN rollups : k[3] = BucketStartFor(cutoff, k[2])}
<1>1. kept \in SUBSET CheckResult
  OBVIOUS
<1>2. DOMAIN rollups = Grouped(results)
      /\ \A k \in Grouped(results) : rollups[k] = Summary(CoveredBy(results, k))
  BY DEF Exact
<1>3. \A k \in DOMAIN rollups : IsBucket(k)
  BY <1>2, GroupedAreCovered
<1>4. ASSUME NEW k, IsBucket(k)
      PROVE  /\ k[2] \in Nat \ {0} /\ k[3] \in Int /\ k[3] % k[2] = 0
             /\ BucketStartFor(cutoff, k[2]) \in Int
             /\ BucketStartFor(cutoff, k[2]) % k[2] = 0
             /\ BucketStartFor(cutoff, k[2]) =< cutoff
             /\ cutoff < BucketStartFor(cutoff, k[2]) + k[2]
  <2>1. k[2] \in Widths /\ k[3] \in Int /\ k[3] % k[2] = 0
    BY <1>4 DEF IsBucket, Aligned
  <2>2. k[2] \in Nat \ {0}
    BY <2>1, HistoryAssumption
  <2> QED
    BY <2>1, <2>2, BucketHolds
<1>5. ASSUME NEW k \in dom, k \notin keys PROVE CoveredBy(kept, k) = CoveredBy(results, k)
  <2>1. IsBucket(k)
    BY <1>3
  <2>2. BucketStartFor(cutoff, k[2]) < k[3]
    BY <1>4, <1>5, <2>1
  <2>3. BucketStartFor(cutoff, k[2]) + k[2] =< k[3]
    BY <1>4, <2>1, <2>2, BucketsApart
  <2>4. cutoff < k[3]
    BY <1>4, <2>1, <2>3
  <2>5. ASSUME NEW r \in results, k[3] =< r.at PROVE ~(r.at < cutoff)
    BY <2>4, <2>5, <1>4, <2>1, CheckFields
  <2> QED
    BY <2>5 DEF CoveredBy, Covered
<1>6. ASSUME NEW k \in Grouped(kept) PROVE k \in dom
  <2>1. IsBucket(k) /\ CoveredBy(kept, k) # {}
    BY <1>1, GroupedAreCovered
  <2>2. PICK r \in kept : Counts(r) /\ r.monitor = k[1] /\ k[3] =< r.at /\ r.at < k[3] + k[2]
    BY <2>1 DEF CoveredBy, Covered
  <2>3. r \in CoveredBy(results, k)
    BY <2>2 DEF CoveredBy, Covered
  <2>4. k \in DOMAIN rollups
    BY <1>2, <2>1, <2>3, GroupedAreCovered
  <2>5. r.at \in Int /\ cutoff =< r.at
    BY CheckFields
  <2>6. ~(k[3] < BucketStartFor(cutoff, k[2]))
    <3> SUFFICES ASSUME k[3] < BucketStartFor(cutoff, k[2]) PROVE FALSE
      OBVIOUS
    <3>1. k[3] + k[2] =< BucketStartFor(cutoff, k[2])
      BY <1>4, <2>1, BucketsApart
    <3> QED
      BY <1>4, <2>1, <2>2, <2>5, <3>1
  <2> QED
    BY <1>4, <2>1, <2>4, <2>6
<1>7. \A k \in keys : IsBucket(k)
  BY <1>3
<1>8. DOMAIN table = dom /\ \A k \in dom : table[k] = rollups[k]
  OBVIOUS
<1>9. table = [k \in DOMAIN table |-> table[k]]
  OBVIOUS
<1>10. dom \subseteq DOMAIN rollups
  OBVIOUS
<1>11. PrunedRollups(cutoff, kept) = Refreshed(table, kept, keys)
  BY DEF PrunedRollups
<1> HIDE DEF kept, dom, table, keys
<1>12. \A k \in DOMAIN table : k \in Grouped(results) /\ table[k] = Summary(CoveredBy(results, k))
  BY <1>2, <1>8, <1>10
<1>13. \A k \in DOMAIN table \ keys : CoveredBy(kept, k) = CoveredBy(results, k)
  BY <1>5, <1>8
<1>14. \A k \in Grouped(kept) : k \in DOMAIN table \cup keys
  BY <1>6, <1>8
<1>15. Refreshed(table, kept, keys) = Exact(kept)
  BY <1>1, <1>7, <1>9, <1>12, <1>13, <1>14, RefreshKeepsExact
<1> QED
  BY <1>11, <1>15 DEF kept

\* The checks of a bucket are all of one monitor, so they go or stay together.
LEMMA ResetKeepsExact ==
    ASSUME NEW S, results \in SUBSET CheckResult, rollups = Exact(results)
    PROVE  [k \in {k \in DOMAIN rollups : k[1] \notin S} |-> rollups[k]]
               = Exact({r \in results : r.monitor \notin S})
<1> DEFINE kept == {r \in results : r.monitor \notin S}
<1>1. kept \in SUBSET CheckResult
  OBVIOUS
<1>2. ASSUME NEW k, k[1] \notin S PROVE CoveredBy(kept, k) = CoveredBy(results, k)
  BY <1>2 DEF CoveredBy, Covered
<1>3. ASSUME NEW k, k[1] \in S PROVE CoveredBy(kept, k) = {}
  BY <1>3 DEF CoveredBy, Covered
<1>4. DOMAIN rollups = Grouped(results)
      /\ \A k \in Grouped(results) : rollups[k] = Summary(CoveredBy(results, k))
  BY DEF Exact
<1>5. ASSUME NEW k PROVE k \in Grouped(kept) <=> k \in Grouped(results) /\ k[1] \notin S
  BY <1>1, <1>2, <1>3, GroupedAreCovered
<1>6. {k \in DOMAIN rollups : k[1] \notin S} = Grouped(kept)
  BY <1>4, <1>5
<1>7. ASSUME NEW k \in Grouped(kept) PROVE rollups[k] = Summary(CoveredBy(kept, k))
  BY <1>2, <1>4, <1>5
<1> HIDE DEF kept
<1>8. [k \in Grouped(kept) |-> rollups[k]] = Exact(kept)
  BY <1>7 DEF Exact
<1> QED
  BY <1>6, <1>8 DEF kept

-------------------------------------------------------------------------------
(* Types *)

\* The state row a result starts from is typed, inserted or found.
LEMMA StatesTyped ==
    ASSUME TypeOK, NEW m \in Monitors
    PROVE  /\ StateFor(m).current \in Failures \cup {Healthy}
           /\ StateFor(m).lastRaw \in States
           /\ StateFor(m).lastCheck \in Nat
BY DEF TypeOK, StateFor, States, NULL

\* "unknown" is never a verdict.
LEMMA VerdictsTyped ==
    ASSUME NEW current \in Failures \cup {Healthy}, NEW state \in States
    PROVE  Verdicts(current, state) \subseteq Failures \cup {Healthy}
BY DEF Verdicts, States

\* A record is a step with a typed result that the table does not have.
LEMMA RecordIsTyped ==
    ASSUME TypeOK, NEW m \in Monitors, Record(m)
    PROVE  \E r \in CheckResult : r.at =< now /\ RecordResult(r)
<1>1. PICK id \in NextIds, o \in Outcomes, at \in {t \in (now - MaxLag)..now : t > 0} :
         RecordResult([id |-> id, monitor |-> m, source |-> o.source, state |-> o.state,
                       duration |-> o.duration, at |-> at])
  BY DEF Record
<1>2. id \in Nat \ {0}
  BY DEF NextIds, TypeOK, CheckResult
<1>3. at \in Nat \ {0} /\ at =< now
  BY HistoryAssumption DEF TypeOK
<1>4. o \in Outcome
  BY HistoryAssumption
<1>5. [id |-> id, monitor |-> m, source |-> o.source, state |-> o.state,
       duration |-> o.duration, at |-> at] \in CheckResult
  BY <1>2, <1>3, <1>4 DEF Outcome, CheckResult
<1> QED
  BY <1>1, <1>3, <1>5

\* The table of a database, whatever its release, has rows of real buckets only.
LEMMA StoredTyped ==
    ASSUME NEW version, NEW rs \in SUBSET CheckResult
    PROVE  \A k \in DOMAIN StoredRollups(version, rs) : k \in Monitors \X Widths \X Int
<1>1. DOMAIN StoredRollups(version, rs) \subseteq Grouped(rs)
  BY DEF StoredRollups
<1> QED
  BY <1>1, GroupedAreCovered DEF IsBucket

\* A database taken over is typed.
LEMMA InitTyped == Init => TypeOK
<1> SUFFICES ASSUME Init PROVE TypeOK
  OBVIOUS
<1>1. results \in SUBSET CheckResult
  BY HistoryAssumption DEF Init
<1>2. \A k \in DOMAIN rollups : k \in Monitors \X Widths \X Int
  BY <1>1, StoredTyped DEF Init
<1>3. /\ DOMAIN states \subseteq Monitors
      /\ \A m \in DOMAIN states :
            states[m] \in [current : Failures \cup {Healthy}, lastRaw : States, lastCheck : Nat]
  <2>1. DOMAIN states = {r.monitor : r \in Latest}
    BY DEF Init
  <2>2. Latest \subseteq CheckResult
    BY <1>1 DEF Latest
  <2>3. ASSUME NEW m \in DOMAIN states
        PROVE  states[m] \in [current : Failures \cup {Healthy}, lastRaw : States, lastCheck : Nat]
    <3> DEFINE r == CHOOSE r \in Latest : r.monitor = m
    <3>1. r \in Latest
      BY <2>1
    <3>2. states[m] = [current |-> Healthy, lastRaw |-> r.state, lastCheck |-> r.at]
      BY <2>1 DEF Init
    <3> HIDE DEF r
    <3> QED
      BY <3>1, <3>2, <2>2, CheckFields
  <2> QED
    BY <2>1, <2>2, <2>3, CheckFields
<1>4. now \in Nat /\ 0 \in 0..MaxRecorded
  BY HistoryAssumption DEF Init
<1> QED
  BY <1>1, <1>2, <1>3, <1>4 DEF Init, TypeOK, CurrentSchema

\* The invariant: while the schema is the current one, which it is while the
\* process runs, the table of buckets is a function of the raw checks.
IInv == /\ TypeOK
        /\ running => schema = CurrentSchema
        /\ schema = CurrentSchema => rollups = Exact(results)

\* The invariant holds when a database is taken over.
LEMMA InitInv == Init => IInv
<1> SUFFICES ASSUME Init PROVE IInv
  OBVIOUS
<1>1. schema = CurrentSchema => rollups = Exact(results)
  BY DEF Init, StoredRollups, Exact, CurrentSchema
<1> QED
  BY <1>1, InitTyped DEF Init, IInv

\* A new typed state row and a new typed event keep the tables typed.
LEMMA RecordStep ==
    ASSUME IInv, NEW r \in CheckResult, RecordResult(r)
    PROVE  IInv'
<1> USE DEF IInv
<1>1. /\ results' = results \cup {r} /\ recorded' = recorded + 1 /\ recorded < MaxRecorded
      /\ running /\ schema = CurrentSchema
      /\ UNCHANGED <<schema, running, startedAt, now>>
  BY DEF RecordResult
<1>2. rollups = Exact(results) /\ results \in SUBSET CheckResult
  BY <1>1 DEF TypeOK
<1>3. results' \subseteq CheckResult /\ recorded' \in 0..MaxRecorded
  BY <1>1, HistoryAssumption DEF TypeOK
<1>4. CASE r.source = "authenticated" /\ RecordAuthenticated(r)
  <2>1. PICK verdict \in Verdicts(StateFor(r.monitor).current, r.state) :
          /\ rollups' = Refreshed(rollups, results \cup {r}, RollupsFor(r.monitor, r.at))
          /\ states' = [m \in DOMAIN states \cup {r.monitor} |->
                           IF m = r.monitor
                           THEN [current |-> verdict, lastRaw |-> r.state, lastCheck |-> r.at]
                           ELSE states[m]]
          /\ events' = IF verdict = StateFor(r.monitor).current THEN events
                       ELSE events \cup {[monitor |-> r.monitor, state |-> verdict,
                                          at |-> r.at, check |-> r.id]}
    BY <1>4 DEF RecordAuthenticated
  <2>2. verdict \in Failures \cup {Healthy}
    BY CheckFields, StatesTyped, VerdictsTyped
  <2>3. rollups' = Exact(results')
    BY <1>1, <1>2, <2>1, RecordKeepsExact
  <2>4. /\ DOMAIN states' \subseteq Monitors
        /\ \A m \in DOMAIN states' :
              states'[m] \in [current : Failures \cup {Healthy}, lastRaw : States, lastCheck : Nat]
    BY <2>1, <2>2, CheckFields DEF TypeOK
  <2>5. events' \subseteq [monitor : Monitors, state : Failures \cup {Healthy}, at : Nat, check : Nat]
    BY <2>1, <2>2, CheckFields DEF TypeOK
  <2>6. \A k \in DOMAIN rollups' : k \in Monitors \X Widths \X Int
    BY <1>1, <1>2, <2>3, GroupedAreCovered DEF Exact, IsBucket
  <2> QED
    BY <1>1, <1>2, <1>3, <2>3, <2>4, <2>5, <2>6 DEF TypeOK
<1>5. CASE r.source = "public" /\ UNCHANGED <<rollups, states, events>>
  <2>1. ~Counts(r)
    BY <1>5 DEF Counts
  <2>2. rollups' = Exact(results')
    BY <1>1, <1>2, <1>5, <2>1, RecordKeepsExact
  <2>3. \A k \in DOMAIN rollups' : k \in Monitors \X Widths \X Int
    BY <1>5 DEF TypeOK
  <2> QED
    BY <1>1, <1>2, <1>3, <1>5, <2>2, <2>3 DEF TypeOK
<1> QED
  BY <1>4, <1>5 DEF RecordResult

\* pruneHistory keeps the invariant.
LEMMA PruneStep ==
    ASSUME IInv, Prune
    PROVE  IInv'
<1> DEFINE gone == {r \in results : r.at < now - Retention}
<1>1. /\ results' = results \ gone
      /\ events' = Detached(gone)
      /\ rollups' = PrunedRollups(now - Retention, results \ gone)
      /\ running /\ UNCHANGED <<states, schema, running, startedAt, now, recorded>>
  BY DEF Prune
<1>2. results \in SUBSET CheckResult /\ schema = CurrentSchema /\ rollups = Exact(results)
  BY <1>1 DEF IInv, TypeOK
<1>3. now - Retention \in Int
  BY HistoryAssumption DEF IInv, TypeOK
<1>4. rollups' = Exact(results')
  BY <1>1, <1>2, <1>3, PruneKeepsExact
<1>5. events' \subseteq [monitor : Monitors, state : Failures \cup {Healthy}, at : Nat, check : Nat]
  <2> SUFFICES ASSUME NEW e \in events
               PROVE  [e EXCEPT !.check = IF \E r \in gone : r.id = @ THEN NULL ELSE @]
                        \in [monitor : Monitors, state : Failures \cup {Healthy}, at : Nat, check : Nat]
    BY <1>1 DEF Detached
  <2>1. e \in [monitor : Monitors, state : Failures \cup {Healthy}, at : Nat, check : Nat]
    BY DEF IInv, TypeOK
  <2> HIDE DEF gone
  <2> QED
    BY <2>1 DEF NULL
<1>6. \A k \in DOMAIN rollups' : k \in Monitors \X Widths \X Int
  BY <1>1, <1>2, <1>4, GroupedAreCovered DEF Exact, IsBucket
<1> QED
  BY <1>1, <1>2, <1>4, <1>5, <1>6 DEF IInv, TypeOK

\* resetHistory keeps the invariant, for one monitor and for all.
LEMMA ResetStep ==
    ASSUME IInv, NEW S \in SUBSET Monitors, ResetHistory(S)
    PROVE  IInv'
<1>1. /\ results' = {r \in results : r.monitor \notin S}
      /\ rollups' = [k \in {k \in DOMAIN rollups : k[1] \notin S} |-> rollups[k]]
      /\ states' = [m \in DOMAIN states \ S |-> states[m]]
      /\ events' = {e \in events : e.monitor \notin S}
      /\ running /\ UNCHANGED <<schema, running, startedAt, now, recorded>>
  BY DEF ResetHistory
<1>2. results \in SUBSET CheckResult /\ schema = CurrentSchema /\ rollups = Exact(results)
  BY <1>1 DEF IInv, TypeOK
<1>3. rollups' = Exact(results')
  BY <1>1, <1>2, ResetKeepsExact
<1> QED
  BY <1>1, <1>2, <1>3 DEF IInv, TypeOK

\* A start keeps it: the migrations rebuild what is not of this release.
LEMMA StartStep ==
    ASSUME IInv, Start
    PROVE  IInv'
<1>1. results \in SUBSET CheckResult
  BY DEF IInv, TypeOK
<1>2. rollups' = Exact(results')
  <2>1. CASE schema < CurrentSchema
    BY <1>1, <2>1, RebuildIsExact DEF Start, Migrated
  <2>2. CASE ~(schema < CurrentSchema)
    <3>1. schema = CurrentSchema
      BY <2>2 DEF IInv, TypeOK, CurrentSchema
    <3> QED
      BY <2>2, <3>1 DEF IInv, Start, Migrated
  <2> QED
    BY <2>1, <2>2
<1>3. results' \in SUBSET CheckResult
  BY <1>1 DEF Start
<1>4. \A k \in DOMAIN rollups' : k \in Monitors \X Widths \X Int
  BY <1>2, <1>3, GroupedAreCovered DEF Exact, IsBucket
<1> QED
  BY <1>2, <1>4 DEF IInv, TypeOK, Start, CurrentSchema

\* Every step keeps it.
LEMMA NextInv ==
    ASSUME IInv, [Next]_vars
    PROVE  IInv'
<1>1. ASSUME NEW m \in Monitors, Record(m) PROVE IInv'
  BY <1>1, RecordIsTyped, RecordStep DEF IInv
<1>2. ASSUME NEW m \in Monitors, ResetHistory({m}) PROVE IInv'
  BY <1>2, ResetStep
<1>3. ASSUME ResetHistory(Monitors) PROVE IInv'
  BY <1>3, ResetStep
<1>4. CASE Stop
  BY <1>4 DEF Stop, tableVars, IInv, TypeOK
<1>5. CASE Elapse
  BY <1>5 DEF Elapse, tableVars, IInv, TypeOK
<1>6. CASE UNCHANGED vars
  BY <1>6 DEF vars, tableVars, IInv, TypeOK
<1> QED
  BY <1>1, <1>2, <1>3, <1>4, <1>5, <1>6, PruneStep, StartStep DEF Next

\* The invariant holds for ever.
LEMMA Invariance == Spec => []IInv
BY InitInv, NextInv, PTL DEF Spec

-------------------------------------------------------------------------------
(* Theorems *)

\* Every table keeps its shape: no bucket of a monitor or a width that does not
\* exist, no verdict "unknown", no event without a monitor.
THEOREM TypeSafety == Spec => []TypeOK
<1>1. IInv => TypeOK
  BY DEF IInv
<1> QED
  BY <1>1, Invariance, PTL

\* For every set of widths, every retention and every history of checks: while
\* the process runs each stored bucket is the summary of its checks and no bucket
\* is missing.
THEOREM RollupsStayExact == Spec => []RollupsExact
<1>1. IInv => RollupsExact
  <2> SUFFICES ASSUME IInv, running PROVE RollupsExact
    BY DEF RollupsExact
  <2>1. rollups = Exact(results) /\ results \in SUBSET CheckResult
    BY DEF IInv, TypeOK
  <2>2. DOMAIN rollups = Grouped(results)
    BY <2>1 DEF Exact
  <2>3. ASSUME NEW k \in DOMAIN rollups
        PROVE  /\ Aligned(k) /\ CoveredBy(results, k) # {}
               /\ rollups[k] = Summary(CoveredBy(results, k))
    BY <2>1, <2>2, GroupedAreCovered DEF Exact, IsBucket
  <2> QED
    BY <2>2, <2>3 DEF RollupsExact
<1> QED
  BY <1>1, Invariance, PTL

\* The evidence survives every operation: a row keeps its id while an event refers
\* to it, and the reference is dropped in the step that deletes the row.
THEOREM EvidenceStaysOwn == Spec => []EvidenceIsOwn
<1>1. Init => EvidenceIsOwn
  BY DEF Init, EvidenceIsOwn
<1>2. ASSUME IInv, EvidenceIsOwn, [Next]_vars PROVE EvidenceIsOwn'
  <2>1. ASSUME NEW m \in Monitors, Record(m) PROVE EvidenceIsOwn'
    <3>1. PICK r \in CheckResult : RecordResult(r)
      BY <1>2, <2>1, RecordIsTyped DEF IInv
    <3>2. results' = results \cup {r}
      BY <3>1 DEF RecordResult
    <3>3. CASE r.source = "authenticated" /\ RecordAuthenticated(r)
      <4>1. PICK verdict \in Verdicts(StateFor(r.monitor).current, r.state) :
              events' = IF verdict = StateFor(r.monitor).current THEN events
                        ELSE events \cup {[monitor |-> r.monitor, state |-> verdict,
                                           at |-> r.at, check |-> r.id]}
        BY <3>3 DEF RecordAuthenticated
      <4>2. verdict # StateFor(r.monitor).current => verdict = r.state
        BY DEF Verdicts
      <4> QED
        BY <1>2, <3>2, <4>1, <4>2 DEF EvidenceIsOwn
    <3>4. CASE UNCHANGED events
      BY <1>2, <3>2, <3>4 DEF EvidenceIsOwn
    <3> QED
      BY <3>1, <3>3, <3>4 DEF RecordResult
  <2>2. ASSUME NEW S, ResetHistory(S) PROVE EvidenceIsOwn'
    BY <1>2, <2>2 DEF ResetHistory, EvidenceIsOwn
  <2>3. CASE Prune
    <3> DEFINE gone == {r \in results : r.at < now - Retention}
    <3>1. results' = results \ gone /\ events' = Detached(gone)
      BY <2>3 DEF Prune
    <3> HIDE DEF gone
    <3> SUFFICES ASSUME NEW e \in events',  e.check # NULL
                 PROVE  \E r \in results' : r.id = e.check /\ r.monitor = e.monitor
                                           /\ r.state = e.state /\ r.at = e.at
      BY DEF EvidenceIsOwn
    <3>2. PICK old \in events :
            e = [old EXCEPT !.check = IF \E r \in gone : r.id = @ THEN NULL ELSE @]
      BY <3>1 DEF Detached
    <3>3. old \in [monitor : Monitors, state : Failures \cup {Healthy}, at : Nat, check : Nat]
      BY <1>2 DEF IInv, TypeOK
    <3>4. e.check = old.check /\ e.monitor = old.monitor /\ e.state = old.state /\ e.at = old.at
          /\ ~ \E r \in gone : r.id = old.check
      BY <3>2, <3>3
    <3>5. PICK r \in results : /\ r.id = old.check /\ r.monitor = old.monitor
                               /\ r.state = old.state /\ r.at = old.at
      BY <1>2, <3>4 DEF EvidenceIsOwn
    <3> QED
      BY <3>1, <3>4, <3>5
  <2>4. CASE UNCHANGED <<results, events>>
    BY <1>2, <2>4 DEF EvidenceIsOwn
  <2> QED
    BY <1>2, <2>1, <2>2, <2>3, <2>4 DEF Next, Start, Stop, Elapse, tableVars, vars
<1> QED
  BY <1>1, <1>2, Invariance, PTL DEF Spec

-------------------------------------------------------------------------------
(* The state rows follow the results *)

\* What the views rely on: a table with a primary key and finitely many rows, no
\* time in the future, and state rows that are those of the latest results.
IdsUnique == \A r, other \in results : r.id = other.id => r = other
NotLater == /\ \A r \in results : r.at =< now
            /\ \A m \in DOMAIN states : states[m].lastCheck =< now
RowsFollowResults ==
    /\ \A r \in results : r.source = "authenticated" =>
          r.monitor \in DOMAIN states /\ r.at =< states[r.monitor].lastCheck
    /\ \A r \in Latest : states[r.monitor].lastRaw = r.state /\ states[r.monitor].lastCheck = r.at

ViewInv == IsFiniteSet(results) /\ IdsUnique /\ NotLater /\ RowsFollowResults

\* The order of the results by time and id.
Earlier(S) == [r \in S |-> {s \in S : s.at < r.at \/ (s.at = r.at /\ s.id < r.id)}]

LEMMA EarlierIsOrder ==
    ASSUME NEW S \in SUBSET CheckResult, \A r, s \in S : r.id = s.id => r = s
    PROVE  IsOrder(S, Earlier(S))
<1> DEFINE before == Earlier(S)
<1>1. ASSUME NEW r \in S
      PROVE  before[r] = {s \in S : s.at < r.at \/ (s.at = r.at /\ s.id < r.id)}
  BY DEF Earlier
<1>2. \A r \in S : r.at \in Nat /\ r.id \in Nat
  BY DEF CheckResult
<1> HIDE DEF before
<1>3. \A r \in S : before[r] \in SUBSET S /\ r \notin before[r]
  BY <1>1, <1>2
<1>4. ASSUME NEW r \in S, NEW s \in before[r], NEW t \in before[s] PROVE t \in before[r]
  BY <1>1, <1>2, <1>3
<1>5. \A r, s \in S : r = s \/ r \in before[s] \/ s \in before[r]
  BY <1>1, <1>2
<1> QED
  BY <1>3, <1>4, <1>5 DEF IsOrder, before

\* A monitor with an authenticated result has one latest result.
LEMMA LatestExists ==
    ASSUME results \in SUBSET CheckResult, IsFiniteSet(results), IdsUnique,
           NEW r \in results, r.source = "authenticated"
    PROVE  \E last \in Latest : last.monitor = r.monitor /\ r.at =< last.at
<1> DEFINE S == {s \in results : s.source = "authenticated" /\ s.monitor = r.monitor}
<1>1. S \in SUBSET CheckResult /\ IsFiniteSet(S) /\ S # {}
  BY FS_Subset
<1>2. IsOrder(S, Earlier(S))
  BY <1>1, EarlierIsOrder DEF IdsUnique
<1>3. PICK last \in S : \A s \in S : s = last \/ s \in Earlier(S)[last]
  <2> HIDE DEF S
  <2> QED
    BY <1>1, <1>2, LastExists
<1>4. \A s \in S : s = last \/ s.at < last.at \/ (s.at = last.at /\ s.id < last.id)
  BY <1>3 DEF Earlier
<1>5. \A s \in S : s.at \in Nat /\ s.id \in Nat
  BY <1>1 DEF CheckResult
<1>6. last \in Latest
  BY <1>4, <1>5 DEF Latest
<1> QED
  BY <1>4, <1>5, <1>6

LEMMA LatestUnique ==
    ASSUME results \in SUBSET CheckResult, IdsUnique,
           NEW r \in Latest, NEW s \in Latest, r.monitor = s.monitor
    PROVE  r = s
<1>1. r \in results /\ s \in results /\ r.at \in Nat /\ s.at \in Nat /\ r.id \in Nat /\ s.id \in Nat
  BY DEF Latest, CheckResult
<1>2. r.at =< s.at /\ s.at =< r.at /\ r.id = s.id
  BY <1>1 DEF Latest
<1> QED
  BY <1>1, <1>2 DEF IdsUnique

\* The database taken over is one: migration 2 made a state row for each monitor.
LEMMA InitViews == Init => ViewInv
<1> SUFFICES ASSUME Init PROVE ViewInv
  OBVIOUS
<1>1. results \in SUBSET CheckResult /\ IsFiniteSet(results) /\ IdsUnique
  BY HistoryAssumption DEF Init, IdsUnique
<1>2. \A r \in results : r.at =< now
  BY DEF Init
<1>3. ASSUME NEW r \in Latest
      PROVE  /\ r.monitor \in DOMAIN states
             /\ states[r.monitor].lastRaw = r.state /\ states[r.monitor].lastCheck = r.at
  <2> DEFINE last == CHOOSE s \in Latest : s.monitor = r.monitor
  <2>1. last \in Latest /\ last.monitor = r.monitor
    OBVIOUS
  <2>2. last = r
    BY <1>1, <2>1, LatestUnique
  <2>3. r.monitor \in DOMAIN states
        /\ states[r.monitor] = [current |-> Healthy, lastRaw |-> last.state, lastCheck |-> last.at]
    BY DEF Init
  <2> HIDE DEF last
  <2> QED
    BY <2>2, <2>3
<1>4. ASSUME NEW r \in results, r.source = "authenticated"
      PROVE  r.monitor \in DOMAIN states /\ r.at =< states[r.monitor].lastCheck
  BY <1>1, <1>3, <1>4, LatestExists
<1>5. ASSUME NEW m \in DOMAIN states PROVE states[m].lastCheck =< now
  <2>1. PICK r \in Latest : r.monitor = m
    BY DEF Init
  <2>2. r \in results
    BY DEF Latest
  <2> QED
    BY <1>2, <1>3, <2>1, <2>2
<1> QED
  BY <1>1, <1>2, <1>3, <1>4, <1>5 DEF ViewInv, NotLater, RowsFollowResults

\* A new result has the largest id and is not older than its monitor's last check,
\* so it is the latest one.
LEMMA RecordViews ==
    ASSUME TypeOK, ViewInv, NEW r \in CheckResult, r.at =< now, RecordResult(r)
    PROVE  ViewInv'
<1>1. /\ results' = results \cup {r} /\ now' = now /\ r.id \in NextIds
      /\ StateFor(r.monitor).lastCheck =< r.at
  BY DEF RecordResult
<1>2. \A s \in results : s.id < r.id /\ s.at \in Nat /\ s.id \in Nat
  BY <1>1 DEF NextIds, TypeOK, CheckResult
<1>3. r.id \in Nat /\ r.at \in Nat
  BY DEF CheckResult
<1>4. IsFiniteSet(results')
  BY <1>1, FS_AddElement DEF ViewInv
<1>5. IdsUnique'
  <2> SUFFICES ASSUME NEW a \in results', NEW b \in results', a.id = b.id PROVE a = b
    BY DEF IdsUnique
  <2> QED
    BY <1>1, <1>2, <1>3 DEF ViewInv, IdsUnique
<1>6. \A s \in results' : s.at =< now'
  BY <1>1 DEF ViewInv, NotLater
<1>7. CASE r.source = "public" /\ UNCHANGED <<rollups, states, events>>
  <2>1. Latest' = Latest
    <3>1. \A s : s \in Latest' <=> s \in Latest
      BY <1>1, <1>7 DEF Latest
    <3> QED
      BY <3>1
  <2>2. RowsFollowResults'
    BY <1>1, <1>7, <2>1 DEF ViewInv, RowsFollowResults
  <2>3. NotLater'
    BY <1>1, <1>6, <1>7 DEF ViewInv, NotLater
  <2> QED
    BY <1>4, <1>5, <2>2, <2>3 DEF ViewInv
<1>8. CASE r.source = "authenticated" /\ RecordAuthenticated(r)
  <2>1. PICK verdict :
          states' = [m \in DOMAIN states \cup {r.monitor} |->
                       IF m = r.monitor
                       THEN [current |-> verdict, lastRaw |-> r.state, lastCheck |-> r.at]
                       ELSE states[m]]
    BY <1>8 DEF RecordAuthenticated
  <2>2. /\ states'[r.monitor].lastRaw = r.state /\ states'[r.monitor].lastCheck = r.at
        /\ DOMAIN states' = DOMAIN states \cup {r.monitor}
        /\ \A m \in DOMAIN states \ {r.monitor} : states'[m] = states[m]
    BY <2>1
  <2>3. ASSUME NEW s \in results, s.source = "authenticated", s.monitor = r.monitor
        PROVE  s.at =< r.at
    <3>1. s.monitor \in DOMAIN states /\ s.at =< states[s.monitor].lastCheck
      BY <2>3 DEF ViewInv, RowsFollowResults
    <3>2. states[r.monitor].lastCheck =< r.at /\ states[r.monitor].lastCheck \in Nat
      BY <1>1, <2>3, <3>1 DEF StateFor, TypeOK
    <3> QED
      BY <1>2, <1>3, <2>3, <3>1, <3>2
  <2>4. ASSUME NEW s \in results', s.source = "authenticated"
        PROVE  s.monitor \in DOMAIN states' /\ s.at =< states'[s.monitor].lastCheck
    <3>1. CASE s.monitor = r.monitor
      BY <1>1, <1>3, <2>2, <2>3, <2>4, <3>1
    <3>2. CASE s.monitor # r.monitor
      <4>1. s \in results
        BY <1>1, <3>2
      <4>2. s.monitor \in DOMAIN states /\ s.at =< states[s.monitor].lastCheck
        BY <2>4, <4>1 DEF ViewInv, RowsFollowResults
      <4> QED
        BY <2>2, <3>2, <4>2
    <3> QED
      BY <3>1, <3>2
  <2>5. ASSUME NEW s \in Latest'
        PROVE  states'[s.monitor].lastRaw = s.state /\ states'[s.monitor].lastCheck = s.at
    <3>1. /\ s \in results' /\ s.source = "authenticated"
          /\ \A other \in results' : other.source = "authenticated" /\ other.monitor = s.monitor =>
                other.at < s.at \/ (other.at = s.at /\ other.id =< s.id)
      BY DEF Latest
    <3>2. CASE s = r
      BY <2>2, <3>2
    <3>3. CASE s # r /\ s.monitor = r.monitor
      <4>1. s \in results /\ s.at =< r.at /\ s.id < r.id
        BY <1>1, <1>2, <2>3, <3>1, <3>3
      <4>2. r.at < s.at \/ (r.at = s.at /\ r.id =< s.id)
        BY <1>1, <1>8, <3>1, <3>3
      <4> QED
        BY <1>2, <1>3, <4>1, <4>2
    <3>4. CASE s.monitor # r.monitor
      <4>1. s \in results
        BY <1>1, <3>1, <3>4
      <4>2. s \in Latest
        BY <1>1, <3>1, <4>1 DEF Latest
      <4>3. s.monitor \in DOMAIN states /\ states[s.monitor].lastRaw = s.state
            /\ states[s.monitor].lastCheck = s.at
        BY <3>1, <4>1, <4>2 DEF ViewInv, RowsFollowResults
      <4> QED
        BY <2>2, <3>4, <4>3
    <3> QED
      BY <3>2, <3>3, <3>4
  <2>6. \A m \in DOMAIN states' : states'[m].lastCheck =< now'
    BY <1>1, <2>2 DEF ViewInv, NotLater
  <2> QED
    BY <1>4, <1>5, <1>6, <2>4, <2>5, <2>6 DEF ViewInv, NotLater, RowsFollowResults
<1> QED
  BY <1>7, <1>8 DEF RecordResult

\* Removing results keeps what is known of the others, when a monitor's latest
\* result goes only together with all its results, and a state row only when its
\* monitor's results go.
LEMMA RemovalViews ==
    ASSUME TypeOK, ViewInv, NEW gone \in SUBSET results,
           results' = results \ gone, now' = now,
           \A r \in gone : \A s \in results :
              s.monitor = r.monitor /\ (s.at =< r.at) => s \in gone,
           DOMAIN states' \subseteq DOMAIN states,
           \A m \in DOMAIN states' : states'[m] = states[m],
           \A r \in results' : r.monitor \in DOMAIN states => r.monitor \in DOMAIN states'
    PROVE  ViewInv'
<1>1. IsFiniteSet(results') /\ results' \subseteq results
  BY FS_Subset DEF ViewInv
<1>2. IdsUnique' /\ NotLater'
  BY <1>1 DEF ViewInv, IdsUnique, NotLater
<1>3. results \subseteq CheckResult
  BY DEF TypeOK
<1>4. ASSUME NEW r \in Latest' PROVE r \in Latest
  <2>1. /\ r \in results' /\ r.source = "authenticated"
        /\ \A s \in results' : s.source = "authenticated" /\ s.monitor = r.monitor =>
              s.at < r.at \/ (s.at = r.at /\ s.id =< r.id)
    BY DEF Latest
  <2>2. r \in results /\ r \notin gone
    BY <2>1
  <2>3. PICK last \in Latest : last.monitor = r.monitor /\ r.at =< last.at
    BY <1>3, <2>1, <2>2, LatestExists DEF ViewInv
  <2>4. last \in results /\ last.source = "authenticated"
    BY DEF Latest
  <2>5. last \notin gone
    BY <2>2, <2>3
  <2>6. last.at < r.at \/ (last.at = r.at /\ last.id =< r.id)
    BY <2>1, <2>3, <2>4, <2>5
  <2>7. r.at < last.at \/ (r.at = last.at /\ r.id =< last.id)
    BY <2>1, <2>2, <2>3 DEF Latest
  <2>8. r.at \in Nat /\ last.at \in Nat /\ r.id \in Nat /\ last.id \in Nat
    BY <1>3, <2>2, <2>4 DEF CheckResult
  <2>9. last.id = r.id
    BY <2>6, <2>7, <2>8
  <2> QED
    BY <2>2, <2>3, <2>4, <2>9 DEF ViewInv, IdsUnique
<1>5. ASSUME NEW r \in results', r.source = "authenticated"
      PROVE  /\ r.monitor \in DOMAIN states' /\ states'[r.monitor] = states[r.monitor]
             /\ r.at =< states'[r.monitor].lastCheck
  <2>1. r.monitor \in DOMAIN states /\ r.at =< states[r.monitor].lastCheck
    BY <1>1, <1>5 DEF ViewInv, RowsFollowResults
  <2> QED
    BY <2>1
<1>6. ASSUME NEW r \in Latest'
      PROVE  states'[r.monitor].lastRaw = r.state /\ states'[r.monitor].lastCheck = r.at
  <2>1. r \in results' /\ r.source = "authenticated"
    BY DEF Latest
  <2>2. states[r.monitor].lastRaw = r.state /\ states[r.monitor].lastCheck = r.at
    BY <1>4, <1>6 DEF ViewInv, RowsFollowResults
  <2> QED
    BY <1>5, <2>1, <2>2
<1> QED
  BY <1>1, <1>2, <1>5, <1>6 DEF ViewInv, RowsFollowResults

\* Every step keeps it.
LEMMA NextViews ==
    ASSUME IInv, ViewInv, [Next]_vars
    PROVE  ViewInv'
<1>1. TypeOK /\ results \subseteq CheckResult
  BY DEF IInv, TypeOK
<1>2. ASSUME NEW m \in Monitors, Record(m) PROVE ViewInv'
  <2>1. \E r \in CheckResult : r.at =< now /\ RecordResult(r)
    BY <1>1, <1>2, RecordIsTyped
  <2> QED
    BY <1>1, <2>1, RecordViews
<1>3. ASSUME NEW S \in SUBSET Monitors, ResetHistory(S) PROVE ViewInv'
  <2> DEFINE gone == {r \in results : r.monitor \in S}
  <2>1. /\ results' = {r \in results : r.monitor \notin S} /\ now' = now
        /\ states' = [m \in DOMAIN states \ S |-> states[m]]
    BY <1>3 DEF ResetHistory
  <2>2. results' = results \ gone /\ gone \in SUBSET results
    BY <2>1
  <2>3. \A r \in gone : \A s \in results : s.monitor = r.monitor /\ (s.at =< r.at) => s \in gone
    OBVIOUS
  <2>4. \A r \in results' : r.monitor \in DOMAIN states => r.monitor \in DOMAIN states'
    BY <2>1
  <2>5. DOMAIN states' \subseteq DOMAIN states /\ \A m \in DOMAIN states' : states'[m] = states[m]
    BY <2>1
  <2> HIDE DEF gone
  <2> QED
    BY <1>1, <2>1, <2>2, <2>3, <2>4, <2>5, RemovalViews
<1>4. CASE Prune
  <2> DEFINE gone == {r \in results : r.at < now - Retention}
  <2>1. results' = results \ gone /\ now' = now /\ states' = states /\ gone \in SUBSET results
    BY <1>4 DEF Prune
  <2>2. \A r \in gone : \A s \in results : s.monitor = r.monitor /\ (s.at =< r.at) => s \in gone
    <3>1. now - Retention \in Int
      BY <1>1, HistoryAssumption DEF TypeOK
    <3>2. \A r \in results : r.at \in Int
      BY <1>1 DEF CheckResult
    <3> QED
      BY <3>1, <3>2
  <2> HIDE DEF gone
  <2> QED
    BY <1>1, <2>1, <2>2, RemovalViews
<1>5. CASE UNCHANGED <<results, states>> /\ now' \in Nat /\ now =< now'
  <2>1. Latest' = Latest
    BY <1>5 DEF Latest
  <2>2. \A r \in results : r.at \in Nat
    BY <1>1 DEF CheckResult
  <2>3. \A m \in DOMAIN states : states[m].lastCheck \in Nat
    BY <1>1 DEF TypeOK
  <2>4. now \in Nat
    BY <1>1 DEF TypeOK
  <2>5. NotLater'
    BY <1>5, <2>2, <2>3, <2>4 DEF ViewInv, NotLater
  <2> QED
    BY <1>5, <2>1, <2>5 DEF ViewInv, IdsUnique, RowsFollowResults
<1>6. Start \/ Stop \/ Elapse \/ UNCHANGED vars =>
         UNCHANGED <<results, states>> /\ now' \in Nat /\ now =< now'
  BY <1>1 DEF Start, Stop, Elapse, vars, tableVars, TypeOK
<1> QED
  BY <1>2, <1>3, <1>4, <1>5, <1>6 DEF Next

\* It holds for ever.
LEMMA ViewInvariance == Spec => []ViewInv
BY InitViews, NextViews, Invariance, PTL DEF Spec

-------------------------------------------------------------------------------
(* Theorems about the views *)

\* What the views say of a monitor with a retained authenticated result.
LEMMA LatestShown ==
    ASSUME TypeOK, ViewInv, NEW m, HasResult(m)
    PROVE  \E r \in Latest :
             /\ r = (CHOOSE s \in Latest : s.monitor = m)
             /\ m \in DOMAIN states /\ states[m].lastRaw = r.state /\ states[m].lastCheck = r.at
             /\ r.state \in States /\ r.at \in Nat \ {0} /\ r.at =< now
             /\ states[m].current \in Failures \cup {Healthy}
<1> DEFINE r == CHOOSE s \in Latest : s.monitor = m
<1>1. r \in Latest /\ r.monitor = m
  BY DEF HasResult
<1>2. r \in results /\ r.source = "authenticated" /\ r \in CheckResult
  BY <1>1 DEF Latest, TypeOK
<1>3. m \in DOMAIN states /\ states[m].lastRaw = r.state /\ states[m].lastCheck = r.at
  BY <1>1, <1>2 DEF ViewInv, RowsFollowResults
<1>4. r.at =< now /\ states[m].current \in Failures \cup {Healthy}
  BY <1>2, <1>3 DEF ViewInv, NotLater, TypeOK
<1> HIDE DEF r
<1>5. r.state \in States /\ r.at \in Nat \ {0}
  BY <1>2 DEF CheckResult
<1> QED
  BY <1>1, <1>3, <1>4, <1>5 DEF r

LEMMA MonitorViewsAgree ==
    ASSUME TypeOK, ViewInv, NEW m \in DOMAIN states, HasResult(m)
    PROVE  LET dashboard == DashboardState(m)  status == CurrentState(m) IN
            /\ dashboard = Unknown <=> status = Unknown
            /\ dashboard = Healthy <=> status \in {Healthy, "slow"} /\ ~ActiveIncident(m)
            /\ dashboard \in Failures <=> status # Unknown /\ ActiveIncident(m)
            /\ Health({m}, Monitors) = Healthy <=>
                  /\ dashboard \in {Healthy, "degraded"}
                  /\ now - states[m].lastCheck =< StaleAfter
<1>1. PICK r \in Latest :
         /\ r = (CHOOSE s \in Latest : s.monitor = m)
         /\ m \in DOMAIN states /\ states[m].lastRaw = r.state /\ states[m].lastCheck = r.at
         /\ r.state \in States /\ r.at \in Nat \ {0} /\ r.at =< now
         /\ states[m].current \in Failures \cup {Healthy}
  BY LatestShown
<1> DEFINE unseen == r.at < startedAt
           dashboard == DashboardState(m)
           status == CurrentState(m)
           fresh == now - r.at =< StaleAfter
           confirmed == states[m].current # Healthy
<1>2. Unseen(states[m].lastCheck) <=> unseen
  BY <1>1 DEF Unseen, NULL
<1>3. Healthy \notin Failures /\ Unknown \notin Failures /\ Healthy # Unknown
      /\ "degraded" \notin Failures /\ "slow" \notin Failures
      /\ "degraded" \notin {Healthy, Unknown} /\ "slow" \notin {Healthy, Unknown, "degraded"}
  BY HistoryAssumption, ViewsAssumption DEF Healthy, Unknown
<1>4. dashboard = IF unseen THEN Unknown ELSE DashboardDisplayState(states[m].current, r.state)
  BY <1>1, <1>2 DEF DashboardState
<1>5. status = IF unseen THEN Unknown ELSE CurrentDisplayState(r.state, r.duration)
  BY <1>1, <1>2 DEF CurrentState, Unseen, NULL
<1>6. ActiveIncident(m) <=> states[m].current # Healthy
  BY DEF ActiveIncident
<1>7. Health({m}, Monitors) = Healthy <=>
        ~NoCurrentResult(m) /\ states[m].current = Healthy
  <2>1. m \in Monitors
    BY DEF TypeOK
  <2>2. {m} \cap Monitors = {m} /\ {m} # {}
    BY <2>1
  <2> QED
    BY <2>2, <1>3 DEF Health, Healthy, Unknown
<1>8. NoCurrentResult(m) <=> unseen \/ now - r.at > StaleAfter \/ r.state = Unknown
  BY <1>1, <1>2 DEF NoCurrentResult, TypeOK
<1>9. dashboard = IF unseen \/ r.state = Unknown THEN Unknown
                  ELSE IF ~confirmed /\ r.state \in Failures THEN "degraded"
                  ELSE states[m].current
  BY <1>3, <1>4 DEF DashboardDisplayState
<1>10. status = IF unseen \/ r.state = Unknown THEN Unknown
                ELSE IF r.state = Healthy /\ r.duration >= SlowFrom THEN "slow" ELSE r.state
  BY <1>3, <1>5 DEF CurrentDisplayState
<1>11. Health({m}, Monitors) = Healthy <=> ~unseen /\ fresh /\ r.state # Unknown /\ ~confirmed
  <2>1. now - r.at > StaleAfter <=> ~fresh
    BY <1>1, ViewsAssumption DEF TypeOK
  <2> QED
    BY <1>7, <1>8, <2>1
<1>12. states[m].lastCheck = r.at
  BY <1>1
<1>13. r.state \in Failures \cup {Healthy, Unknown} /\ states[m].current \in Failures \cup {Healthy}
  BY <1>1 DEF States
<1> HIDE DEF unseen, dashboard, status, fresh, confirmed
<1>14. dashboard = Unknown <=> status = Unknown
  BY <1>3, <1>9, <1>10, <1>13 DEF confirmed
<1>15. dashboard = Healthy <=> status \in {Healthy, "slow"} /\ ~confirmed
  BY <1>3, <1>9, <1>10, <1>13 DEF confirmed
<1>16. dashboard \in Failures <=> status # Unknown /\ confirmed
  BY <1>3, <1>9, <1>10, <1>13 DEF confirmed
<1>17. ~unseen /\ r.state # Unknown /\ ~confirmed <=> dashboard \in {Healthy, "degraded"}
  BY <1>3, <1>9, <1>13 DEF confirmed
<1>18. /\ dashboard = Unknown <=> status = Unknown
       /\ dashboard = Healthy <=> status \in {Healthy, "slow"} /\ ~ActiveIncident(m)
       /\ dashboard \in Failures <=> status # Unknown /\ ActiveIncident(m)
       /\ Health({m}, Monitors) = Healthy <=>
             dashboard \in {Healthy, "degraded"} /\ now - states[m].lastCheck =< StaleAfter
  BY <1>6, <1>11, <1>12, <1>14, <1>15, <1>16, <1>17 DEF fresh, confirmed
<1> QED
  BY <1>18 DEF dashboard, status

\* The dashboard, the current status and the health endpoint agree on every monitor
\* whose latest result is retained, for any thresholds of staleness and slowness.
THEOREM StatusViewsAgree == Spec => []ViewsAgree
<1>1. TypeOK /\ ViewInv => ViewsAgree
  BY MonitorViewsAgree DEF ViewsAgree
<1> QED
  BY <1>1, TypeSafety, ViewInvariance, PTL

-------------------------------------------------------------------------------
(* The sums of the views *)

CountsIn(S) == {r \in S : Counts(r)}
BucketOf(r, w) == <<r.monitor, w, BucketStartFor(r.at, w)>>

\* The checks in some buckets of one width.
InBuckets(w, keys) == {r \in results : Counts(r) /\ BucketOf(r, w) \in keys}

LEMMA BucketOfIsInt ==
    ASSUME NEW r \in CheckResult, NEW w \in Widths
    PROVE  /\ BucketOf(r, w)[1] = r.monitor /\ BucketOf(r, w)[2] = w
           /\ BucketOf(r, w)[3] = BucketStartFor(r.at, w)
           /\ w \in Nat \ {0} /\ r.at \in Nat
           /\ BucketStartFor(r.at, w) \in Int /\ BucketStartFor(r.at, w) % w = 0
           /\ BucketStartFor(r.at, w) =< r.at /\ r.at < BucketStartFor(r.at, w) + w
           /\ BucketOf(r, w) \in Monitors \X Widths \X Int
<1>1. w \in Nat \ {0} /\ r.at \in Nat /\ r.at \in Int /\ r.monitor \in Monitors
  BY HistoryAssumption, CheckFields
<1>2. /\ BucketStartFor(r.at, w) \in Int /\ BucketStartFor(r.at, w) % w = 0
      /\ BucketStartFor(r.at, w) =< r.at /\ r.at < BucketStartFor(r.at, w) + w
  BY <1>1, BucketHolds
<1> QED
  BY <1>1, <1>2 DEF BucketOf

\* A stored bucket covers the completed checks that it is the bucket of.
LEMMA CoveredAreOf ==
    ASSUME results \in SUBSET CheckResult, NEW w \in Widths,
           NEW k \in Grouped(results), k[2] = w
    PROVE  CoveredBy(results, k) = {r \in results : Counts(r) /\ BucketOf(r, w) = k}
<1>1. k \in Monitors \X Widths \X Int /\ Aligned(k)
  BY GroupedAreCovered DEF IsBucket
<1>2. ASSUME NEW r \in results
      PROVE  r.monitor = k[1] /\ k[3] =< r.at /\ r.at < k[3] + k[2] <=> BucketOf(r, w) = k
  <2>1. k \in RollupsFor(r.monitor, r.at) <=> Aligned(k) /\ k[1] = r.monitor /\ k[3] =< r.at /\ r.at < k[3] + k[2]
    BY <1>1, CheckFields, BucketsOfCheck
  <2>2. k \in RollupsFor(r.monitor, r.at) <=> BucketOf(r, w) = k
    <3>1. k = <<k[1], k[2], k[3]>>
      BY <1>1
    <3> QED
      BY <3>1 DEF RollupsFor, BucketOf
  <2> QED
    BY <1>1, <2>1, <2>2
<1> QED
  BY <1>2 DEF CoveredBy, Covered

\* The stored buckets of one width are finitely many.
LEMMA FiniteBuckets ==
    ASSUME results \in SUBSET CheckResult, IsFiniteSet(results), NEW w \in Widths,
           NEW keys \in SUBSET Grouped(results), \A k \in keys : k[2] = w
    PROVE  IsFiniteSet(keys)
<1> DEFINE S == InBuckets(w, keys)
           f == [r \in S |-> BucketOf(r, w)]
<1>1. IsFiniteSet(S)
  BY FS_Subset DEF InBuckets
<1>2. ASSUME NEW k \in keys PROVE \E r \in S : f[r] = k
  <2>1. CoveredBy(results, k) = {r \in results : Counts(r) /\ BucketOf(r, w) = k}
    BY CoveredAreOf
  <2>2. CoveredBy(results, k) # {}
    BY GroupedAreCovered
  <2> QED
    BY <2>1, <2>2 DEF InBuckets
<1>3. f \in [S -> keys]
  BY DEF InBuckets
<1>4. f \in Surjection(S, keys)
  BY <1>2, <1>3 DEF Surjection
<1> HIDE DEF S, f
<1> QED
  BY <1>1, <1>4, FS_Surjection

\* A column that counts, in each of some buckets of one width, the checks of T.
CountsOf(column, w, keys, T) ==
    \A k \in keys : k[2] = w /\ column[k] = Cardinality(CoveredBy(results, k) \cap T)

\* What a column of the buckets adds up to: the checks that the column counts.
LEMMA ColumnAddsUp ==
    ASSUME results \in SUBSET CheckResult, IsFiniteSet(results), NEW w \in Widths,
           NEW keys \in SUBSET Grouped(results),
           NEW column, NEW T, CountsOf(column, w, keys, T)
    PROVE  SumFunctionOnSet(column, keys) = Cardinality(InBuckets(w, keys) \cap T)
<1> DEFINE C == [k \in keys |-> CoveredBy(results, k) \cap T]
<1>1. IsFiniteSet(keys)
  BY FiniteBuckets DEF CountsOf
<1>2. ASSUME NEW k \in keys
      PROVE  C[k] = {r \in results : Counts(r) /\ BucketOf(r, w) = k /\ r \in T}
  <2>1. CoveredBy(results, k) = {r \in results : Counts(r) /\ BucketOf(r, w) = k}
    BY CoveredAreOf DEF CountsOf
  <2> QED
    BY <2>1
<1>3. \A k \in keys : column[k] = Cardinality(C[k])
  BY DEF CountsOf
<1> HIDE DEF C
<1>4. \A k \in keys : IsFiniteSet(C[k])
  BY <1>2, FS_Subset
<1>5. \A k, j \in keys : k # j => C[k] \cap C[j] = {}
  BY <1>2
<1>6. SumFunctionOnSet(column, keys) = Cardinality(Together(C, keys))
  BY <1>1, <1>3, <1>4, <1>5, SumOfSizes
<1>7. Together(C, keys) = InBuckets(w, keys) \cap T
  BY <1>2 DEF InBuckets, Together
<1> QED
  BY <1>6, <1>7

HealthyOnes == {r \in results : r.state = Healthy}
EligibleOnes == {r \in results : r.state # "auth_failed"}

LEMMA SummaryCounts ==
    ASSUME NEW S
    PROVE  /\ Summary(S).total = Cardinality(S)
           /\ Summary(S).healthy = Cardinality({r \in S : r.state = Healthy})
           /\ Summary(S).eligible = Cardinality({r \in S : r.state # "auth_failed"})
BY DEF Summary

\* The three columns, in a table that is exact.
LEMMA ColumnsAddUp ==
    ASSUME results \in SUBSET CheckResult, IsFiniteSet(results), rollups = Exact(results),
           NEW w \in Widths, NEW keys \in SUBSET DOMAIN rollups, \A k \in keys : k[2] = w
    PROVE  /\ Totals(keys) = Cardinality(InBuckets(w, keys))
           /\ Healthies(keys) = Cardinality(InBuckets(w, keys) \cap HealthyOnes)
           /\ Eligibles(keys) = Cardinality(InBuckets(w, keys) \cap EligibleOnes)
<1>1. \A k \in keys : rollups[k] = Summary(CoveredBy(results, k))
  BY DEF Exact
<1>7. keys \in SUBSET Grouped(results)
  BY DEF Exact
<1>2. ASSUME NEW k \in keys
      PROVE  /\ rollups[k].total = Cardinality(CoveredBy(results, k) \cap results)
             /\ rollups[k].healthy = Cardinality(CoveredBy(results, k) \cap HealthyOnes)
             /\ rollups[k].eligible = Cardinality(CoveredBy(results, k) \cap EligibleOnes)
  <2>1. CoveredBy(results, k) \subseteq results
    BY DEF CoveredBy, Covered
  <2>2. CoveredBy(results, k) \cap results = CoveredBy(results, k)
    BY <2>1
  <2>3. CoveredBy(results, k) \cap HealthyOnes = {r \in CoveredBy(results, k) : r.state = Healthy}
    BY <2>1 DEF HealthyOnes
  <2>4. CoveredBy(results, k) \cap EligibleOnes = {r \in CoveredBy(results, k) : r.state # "auth_failed"}
    BY <2>1 DEF EligibleOnes
  <2> QED
    BY <1>1, <2>2, <2>3, <2>4, SummaryCounts
<1>3. InBuckets(w, keys) \cap results = InBuckets(w, keys)
  BY DEF InBuckets
<1>4. Totals(keys) = Cardinality(InBuckets(w, keys) \cap results)
  <2> DEFINE column == [k \in keys |-> rollups[k].total]
  <2>1. CountsOf(column, w, keys, results)
    BY <1>2 DEF CountsOf
  <2> HIDE DEF column
  <2>2. SumFunctionOnSet(column, keys) = Cardinality(InBuckets(w, keys) \cap results)
    BY <1>7, <2>1, ColumnAddsUp
  <2> QED
    BY <2>2 DEF Totals, column
<1>5. Healthies(keys) = Cardinality(InBuckets(w, keys) \cap HealthyOnes)
  <2> DEFINE column == [k \in keys |-> rollups[k].healthy]
  <2>1. CountsOf(column, w, keys, HealthyOnes)
    BY <1>2 DEF CountsOf
  <2> HIDE DEF column
  <2>2. SumFunctionOnSet(column, keys) = Cardinality(InBuckets(w, keys) \cap HealthyOnes)
    BY <1>7, <2>1, ColumnAddsUp
  <2> QED
    BY <2>2 DEF Healthies, column
<1>6. Eligibles(keys) = Cardinality(InBuckets(w, keys) \cap EligibleOnes)
  <2> DEFINE column == [k \in keys |-> rollups[k].eligible]
  <2>1. CountsOf(column, w, keys, EligibleOnes)
    BY <1>2 DEF CountsOf
  <2> HIDE DEF column
  <2>2. SumFunctionOnSet(column, keys) = Cardinality(InBuckets(w, keys) \cap EligibleOnes)
    BY <1>7, <2>1, ColumnAddsUp
  <2> QED
    BY <2>2 DEF Eligibles, column
<1> QED
  BY <1>3, <1>4, <1>5, <1>6

\* Comparing a time with aligned times is comparing its bucket with them.
LEMMA BucketCompare ==
    ASSUME NEW t \in Int, NEW w \in Nat \ {0}, NEW b \in Int, b % w = 0
    PROVE  /\ b =< BucketStartFor(t, w) <=> b =< t
           /\ BucketStartFor(t, w) =< b <=> t < b + w
<1> DEFINE a == BucketStartFor(t, w)
<1>1. a \in Int /\ a % w = 0 /\ a =< t /\ t < a + w
  BY BucketHolds
<1> HIDE DEF a
<1>2. ASSUME b =< t PROVE b =< a
  <2> SUFFICES ASSUME a < b PROVE FALSE
    BY <1>1
  <2>1. a + w =< b
    BY <1>1, BucketsApart
  <2> QED
    BY <1>1, <1>2, <2>1
<1>3. ASSUME t < b + w PROVE a =< b
  <2> SUFFICES ASSUME b < a PROVE FALSE
    BY <1>1
  <2>1. b + w =< a
    BY <1>1, BucketsApart
  <2> QED
    BY <1>1, <1>3, <2>1
<1>4. b =< a <=> b =< t
  BY <1>1, <1>2
<1>5. a =< b <=> t < b + w
  BY <1>1, <1>3
<1> QED
  BY <1>4, <1>5 DEF a

LEMMA AlignedShift ==
    ASSUME NEW w \in Nat \ {0}, NEW a \in Int, a % w = 0, NEW n \in Int
    PROVE  n * w \in Int /\ (a - n * w) % w = 0
<1> DEFINE p == a \div w
<1>1. p \in Int /\ a = (w * p) + (a % w)
  OBVIOUS
<1> HIDE DEF p
<1>2. a = w * p
  BY <1>1
<1>3. a - n * w = w * (p - n)
  BY <1>1, <1>2
<1>4. \A q \in Int : (w * q) % w = 0
  OBVIOUS
<1>5. p - n \in Int /\ n * w \in Int
  BY <1>1
<1> QED
  BY <1>3, <1>4, <1>5

LEMMA AlignedNext ==
    ASSUME NEW w \in Nat \ {0}, NEW a \in Int, a % w = 0
    PROVE  a + w \in Int /\ (a + w) % w = 0
<1> DEFINE p == a \div w
<1>1. p \in Int /\ a = (w * p) + (a % w)
  OBVIOUS
<1> HIDE DEF p
<1>2. a + w = w * (p + 1)
  BY <1>1
<1>3. \A q \in Int : (w * q) % w = 0
  OBVIOUS
<1>4. p + 1 \in Int
  BY <1>1
<1> QED
  BY <1>2, <1>3, <1>4

LEMMA AlignedAlso ==
    ASSUME NEW w \in Nat \ {0}, NEW d \in Nat \ {0}, d % w = 0, NEW a \in Int, a % d = 0
    PROVE  a % w = 0
<1> DEFINE p == a \div d
           q == d \div w
<1>1. p \in Int /\ a = (d * p) + (a % d) /\ q \in Int /\ d = (w * q) + (d % w)
  OBVIOUS
<1> HIDE DEF p, q
<1>2. a = d * p /\ d = w * q
  BY <1>1
<1>3. a = w * (q * p)
  BY <1>1, <1>2
<1>4. \A n \in Int : (w * n) % w = 0
  OBVIOUS
<1>5. q * p \in Int
  BY <1>1
<1> QED
  BY <1>3, <1>4, <1>5

\* Every completed check is in a stored bucket of every width.
LEMMA CheckIsStored ==
    ASSUME results \in SUBSET CheckResult, rollups = Exact(results),
           NEW r \in results, Counts(r), NEW w \in Widths
    PROVE  BucketOf(r, w) \in DOMAIN rollups
<1>1. BucketOf(r, w) \in RollupsFor(r.monitor, r.at)
  BY DEF BucketOf, RollupsFor
<1> QED
  BY <1>1 DEF Exact, Grouped

Tables == /\ results \in SUBSET CheckResult /\ IsFiniteSet(results)
          /\ rollups = Exact(results) /\ now \in Nat

AllOf(m, w) == {k \in DOMAIN rollups : k[1] = m /\ k[2] = w}
From(m, w, low) == {k \in DOMAIN rollups : k[1] = m /\ k[2] = w /\ k[3] >= low}
Between(m, w, low, high) ==
    {k \in DOMAIN rollups : k[1] = m /\ k[2] = w /\ low =< k[3] /\ k[3] =< high}

ChecksOf(m) == {r \in results : Counts(r) /\ r.monitor = m}
ChecksFrom(m, low) == {r \in results : Counts(r) /\ r.monitor = m /\ low =< r.at}
ChecksBetween(m, low, high) ==
    {r \in results : Counts(r) /\ r.monitor = m /\ low =< r.at /\ r.at < high}

\* The checks of the buckets that a bound on the start selects, of one monitor.
LEMMA BucketOfStored ==
    ASSUME Tables, NEW w \in Widths, NEW r \in results, Counts(r)
    PROVE  /\ BucketOf(r, w) \in DOMAIN rollups
           /\ BucketOf(r, w)[1] = r.monitor /\ BucketOf(r, w)[2] = w
           /\ BucketOf(r, w)[3] = BucketStartFor(r.at, w)
           /\ w \in Nat \ {0} /\ r.at \in Int /\ BucketStartFor(r.at, w) \in Int
<1>1. BucketOf(r, w) \in DOMAIN rollups
  BY CheckIsStored DEF Tables
<1> QED
  BY <1>1, BucketOfIsInt DEF Tables

LEMMA AllBuckets ==
    ASSUME Tables, NEW w \in Widths, NEW m
    PROVE  InBuckets(w, AllOf(m, w)) = ChecksOf(m)
BY BucketOfStored DEF InBuckets, AllOf, ChecksOf

LEMMA BucketsFrom ==
    ASSUME Tables, NEW w \in Widths, NEW m, NEW low \in Int, low % w = 0
    PROVE  InBuckets(w, From(m, w, low)) = ChecksFrom(m, low)
<1>1. ASSUME NEW r \in results, Counts(r)
      PROVE  BucketOf(r, w)[3] >= low <=> low =< r.at
  <2>1. low =< BucketStartFor(r.at, w) <=> low =< r.at
    BY <1>1, BucketOfStored, BucketCompare
  <2> QED
    BY <1>1, <2>1, BucketOfStored
<1> QED
  BY <1>1, BucketOfStored DEF InBuckets, From, ChecksFrom

LEMMA BucketsBetween ==
    ASSUME Tables, NEW w \in Widths, NEW m,
           NEW low \in Int, low % w = 0, NEW high \in Int, high % w = 0
    PROVE  InBuckets(w, Between(m, w, low, high)) = ChecksBetween(m, low, high + w)
<1>1. ASSUME NEW r \in results, Counts(r)
      PROVE  /\ low =< BucketOf(r, w)[3] <=> low =< r.at
             /\ BucketOf(r, w)[3] =< high <=> r.at < high + w
  BY <1>1, BucketOfStored, BucketCompare
<1> QED
  BY <1>1, BucketOfStored DEF InBuckets, Between, ChecksBetween

\* The overview's coverage.
LEMMA CoverageExact ==
    ASSUME Tables, NEW m \in Monitors
    PROVE  LET window == {r \in results : Counts(r) /\ r.monitor = m /\ r.at >= now - OverviewWindow} IN
           Coverage(m) = <<Cardinality({r \in window : r.state # "auth_failed"}), Cardinality(window)>>
<1> DEFINE w == WidestBucket
           cutoff == now - OverviewWindow
           boundary == BucketStartFor(cutoff, w)
           whole == {k \in DOMAIN rollups : k[1] = m /\ k[2] = w /\ k[3] >= boundary + w}
           part == Partial(m, cutoff, boundary)
           inside == InBuckets(w, whole)
           window == {r \in results : Counts(r) /\ r.monitor = m /\ r.at >= cutoff}
<1>1. w \in Widths /\ w \in Nat \ {0}
  <2>1. \E x \in Widths : \A other \in Widths : other =< x
    <3>1. Widths \in SUBSET Int
      BY HistoryAssumption
    <3> QED
      BY <3>1, ViewsAssumption, LargestInt
  <2>2. w \in Widths
    BY <2>1 DEF WidestBucket
  <2> QED
    BY <2>2, HistoryAssumption
<1>2. cutoff \in Int
  BY ViewsAssumption DEF Tables
<1> HIDE DEF w, cutoff
<1>3. boundary \in Int /\ boundary % w = 0 /\ boundary =< cutoff /\ cutoff < boundary + w
  BY <1>1, <1>2, BucketHolds
<1>4. (boundary + w) % w = 0 /\ boundary + w \in Int
  <2> HIDE DEF boundary
  <2> QED
    BY <1>1, <1>3, AlignedNext
<1> HIDE DEF boundary
<1>5. inside = {r \in results : Counts(r) /\ r.monitor = m /\ boundary + w =< r.at}
  <2>1. whole = From(m, w, boundary + w)
    BY DEF From
  <2>2. InBuckets(w, From(m, w, boundary + w)) = ChecksFrom(m, boundary + w)
    BY <1>1, <1>4, BucketsFrom
  <2> QED
    BY <2>1, <2>2 DEF ChecksFrom
<1>6. part = {r \in results : Counts(r) /\ r.monitor = m /\ cutoff =< r.at /\ r.at < boundary + w}
  BY DEF Partial, w
<1>7. /\ Totals(whole) = Cardinality(inside)
      /\ Eligibles(whole) = Cardinality(inside \cap EligibleOnes)
  <2>1. whole \in SUBSET DOMAIN rollups /\ \A k \in whole : k[2] = w
    OBVIOUS
  <2> HIDE DEF whole
  <2> QED
    BY <1>1, <2>1, ColumnsAddUp DEF Tables
<1>8. \A r \in results : r.at \in Int
  BY DEF Tables, CheckResult
<1>9. window = inside \cup part /\ inside \cap part = {}
  BY <1>1, <1>2, <1>3, <1>4, <1>5, <1>6, <1>8
<1>10. inside \subseteq results /\ part \subseteq results
  BY <1>5, <1>6
<1> HIDE DEF inside, part, whole, window
<1>11. {r \in part : r.state # "auth_failed"} = part \cap EligibleOnes
       /\ {r \in window : r.state # "auth_failed"} = window \cap EligibleOnes
  BY <1>9, <1>10 DEF EligibleOnes
<1>12. ASSUME NEW T PROVE Cardinality(window \cap T) = Cardinality(inside \cap T) + Cardinality(part \cap T)
  <2>1. IsFiniteSet(inside \cap T) /\ IsFiniteSet(part \cap T)
    <3>1. inside \cap T \in SUBSET results /\ part \cap T \in SUBSET results
      BY <1>10
    <3> QED
      BY <3>1, FS_Subset DEF Tables
  <2>2. Cardinality((inside \cap T) \cup (part \cap T))
          = Cardinality(inside \cap T) + Cardinality(part \cap T) - Cardinality((inside \cap T) \cap (part \cap T))
    BY <2>1, FS_Union
  <2>3. (inside \cap T) \cap (part \cap T) = {} /\ (inside \cap T) \cup (part \cap T) = window \cap T
    BY <1>9
  <2>4. Cardinality(inside \cap T) \in Nat /\ Cardinality(part \cap T) \in Nat
    BY <2>1, FS_CardinalityType
  <2>5. Cardinality({}) = 0
    BY FS_EmptySet
  <2>6. Cardinality(window \cap T) = Cardinality(inside \cap T) + Cardinality(part \cap T) - 0
    BY <2>2, <2>3, <2>5
  <2> QED
    BY <2>4, <2>6
<1>13. Cardinality(window) = Totals(whole) + Cardinality(part)
  <2>1. window \cap results = window /\ inside \cap results = inside /\ part \cap results = part
    BY <1>9, <1>10
  <2> QED
    BY <1>7, <1>12, <2>1
<1>14. Cardinality(window \cap EligibleOnes) = Eligibles(whole) + Cardinality(part \cap EligibleOnes)
  BY <1>7, <1>12
<1>15. Coverage(m) = <<Eligibles(whole) + Cardinality({r \in part : r.state # "auth_failed"}),
                       Totals(whole) + Cardinality(part)>>
  BY DEF Coverage, whole, part, boundary, cutoff, w
<1>16. Coverage(m) = <<Cardinality({r \in window : r.state # "auth_failed"}), Cardinality(window)>>
  BY <1>11, <1>13, <1>14, <1>15
<1> QED
  BY <1>16 DEF window, cutoff

\* The dashboard's range of one monitor, and all of its history.
LEMMA RangesExact ==
    ASSUME Tables, NEW m \in Monitors, NEW w \in Widths
    PROVE  LET mine == {r \in results : Counts(r) /\ r.monitor = m}
               seen == {r \in mine : FirstBucket(w) =< r.at /\ r.at < LastBucket(w) + w}
               all == {k \in DOMAIN rollups : k[1] = m /\ k[2] = w}
               line == ReportLine(m, 0)
           IN  /\ {r \in mine : FirstBucket(w) =< r.at /\ r.at < now} \subseteq seen
               /\ Totals(Points(m, w)) = Cardinality(seen)
               /\ Healthies(Points(m, w)) = Cardinality({r \in seen : r.state = Healthy})
               /\ Totals(all) = line.checks /\ Healthies(all) = line.healthy
<1> DEFINE mine == {r \in results : Counts(r) /\ r.monitor = m}
           first == FirstBucket(w)
           last == LastBucket(w)
           seen == {r \in mine : first =< r.at /\ r.at < last + w}
           all == {k \in DOMAIN rollups : k[1] = m /\ k[2] = w}
           points == Points(m, w)
<1>1. w \in Nat \ {0}
  BY HistoryAssumption
<1>2. last \in Int /\ last % w = 0 /\ now - 1 < last + w
  <2>1. now - 1 \in Int
    BY DEF Tables
  <2> QED
    BY <1>1, <2>1, BucketHolds DEF LastBucket
<1>3. first \in Int /\ first % w = 0
  <2> HIDE DEF last
  <2>1. MaxPoints[w] - 1 \in Int
    BY ViewsAssumption
  <2>2. (MaxPoints[w] - 1) * w \in Int /\ (last - (MaxPoints[w] - 1) * w) % w = 0
    BY <1>1, <1>2, <2>1, AlignedShift
  <2>3. first = last - (MaxPoints[w] - 1) * w
    BY DEF FirstBucket, last
  <2> QED
    BY <1>2, <2>2, <2>3
<1> HIDE DEF first, last
<1>4. \A r \in results : r.at \in Nat
  BY DEF Tables, CheckResult
<1>5. {r \in mine : first =< r.at /\ r.at < now} \subseteq seen
  BY <1>1, <1>2, <1>4 DEF Tables
<1>6. InBuckets(w, points) = seen
  <2>1. points = Between(m, w, first, last)
    BY DEF Points, Between, first, last
  <2>2. InBuckets(w, Between(m, w, first, last)) = ChecksBetween(m, first, last + w)
    BY <1>2, <1>3, BucketsBetween
  <2> QED
    BY <2>1, <2>2 DEF ChecksBetween
<1>7. InBuckets(w, all) = mine
  <2>1. all = AllOf(m, w)
    BY DEF AllOf
  <2>2. InBuckets(w, AllOf(m, w)) = ChecksOf(m)
    BY AllBuckets
  <2> QED
    BY <2>1, <2>2 DEF ChecksOf
<1>8. /\ Totals(points) = Cardinality(InBuckets(w, points))
      /\ Healthies(points) = Cardinality(InBuckets(w, points) \cap HealthyOnes)
  <2>1. points \in SUBSET DOMAIN rollups /\ \A k \in points : k[2] = w
    BY DEF Points
  <2> HIDE DEF points
  <2> QED
    BY <2>1, ColumnsAddUp DEF Tables
<1>9. /\ Totals(all) = Cardinality(InBuckets(w, all))
      /\ Healthies(all) = Cardinality(InBuckets(w, all) \cap HealthyOnes)
  <2>1. all \in SUBSET DOMAIN rollups /\ \A k \in all : k[2] = w
    OBVIOUS
  <2> HIDE DEF all
  <2> QED
    BY <2>1, ColumnsAddUp DEF Tables
<1>10. seen \cap HealthyOnes = {r \in seen : r.state = Healthy}
  BY DEF HealthyOnes
<1>11. ReportLine(m, 0).checks = Cardinality(mine)
       /\ ReportLine(m, 0).healthy = Cardinality(mine \cap HealthyOnes)
  <2> DEFINE rs == {r \in results : r.monitor = m /\ r.at >= 0}
  <2>1. /\ ReportLine(m, 0).checks = Cardinality({r \in rs : Counts(r)})
        /\ ReportLine(m, 0).healthy = Cardinality({r \in rs : Counts(r) /\ r.state = Healthy})
    BY DEF ReportLine
  <2>2. {r \in rs : Counts(r)} = mine
    BY <1>4
  <2>3. {r \in rs : Counts(r) /\ r.state = Healthy} = mine \cap HealthyOnes
    BY <1>4 DEF HealthyOnes
  <2> QED
    BY <2>1, <2>2, <2>3
<1>12. /\ Totals(points) = Cardinality(seen)
       /\ Healthies(points) = Cardinality({r \in seen : r.state = Healthy})
  BY <1>6, <1>8, <1>10
<1>13. Totals(all) = ReportLine(m, 0).checks /\ Healthies(all) = ReportLine(m, 0).healthy
  BY <1>7, <1>9, <1>11
<1> QED
  BY <1>5, <1>12, <1>13 DEF first, last

\* The checks of today, when the range is long enough to reach back to midnight.
LEMMA TodayExact ==
    ASSUME Tables, NEW w \in Widths, MaxPoints[w] * w >= Day
    PROVE  ChecksToday(w) = Cardinality({r \in results :
                                Counts(r) /\ Midnight =< r.at /\ r.at < LastBucket(w) + w})
<1> DEFINE first == FirstBucket(w)
           last == LastBucket(w)
           midnight == Midnight
           keys == UNION {{k \in Points(m, w) : k[3] >= midnight} : m \in Monitors}
<1>1. w \in Nat \ {0} /\ Day \in Nat \ {0} /\ Day % w = 0 /\ MaxPoints[w] \in Nat \ {0}
  BY HistoryAssumption, ViewsAssumption
<1>2. last \in Int /\ last % w = 0 /\ last =< now - 1
  <2>1. now - 1 \in Int
    BY DEF Tables
  <2> QED
    BY <1>1, <2>1, BucketHolds DEF LastBucket
<1>3. midnight \in Int /\ midnight % w = 0 /\ now < midnight + Day
  <2>1. midnight \in Int /\ midnight % Day = 0 /\ now < midnight + Day
    <3>1. now \in Int
      BY DEF Tables
    <3> QED
      BY <1>1, <3>1, BucketHolds DEF Midnight
  <2> HIDE DEF midnight
  <2> QED
    BY <1>1, <2>1, AlignedAlso
<1>4. first \in Int /\ first % w = 0 /\ first = last - MaxPoints[w] * w + w
  <2> HIDE DEF last
  <2>1. MaxPoints[w] - 1 \in Int
    BY <1>1
  <2>2. (MaxPoints[w] - 1) * w \in Int /\ (last - (MaxPoints[w] - 1) * w) % w = 0
    BY <1>1, <1>2, <2>1, AlignedShift
  <2>3. first = last - (MaxPoints[w] - 1) * w
    BY DEF FirstBucket, last
  <2>4. (MaxPoints[w] - 1) * w = MaxPoints[w] * w - w
    BY <1>1
  <2> QED
    BY <1>1, <1>2, <2>2, <2>3, <2>4
<1> HIDE DEF first, last, midnight
<1>5. first =< midnight
  <2> SUFFICES ASSUME midnight < first PROVE FALSE
    BY <1>3, <1>4
  <2>1. midnight + w =< first
    BY <1>1, <1>3, <1>4, BucketsApart
  <2>2. MaxPoints[w] * w \in Int /\ now \in Int
    BY <1>1 DEF Tables
  <2> QED
    BY <1>1, <1>2, <1>3, <1>4, <2>1, <2>2
<1>6. ASSUME NEW k
      PROVE  k \in keys <=> /\ k \in DOMAIN rollups /\ k[1] \in Monitors /\ k[2] = w
                            /\ first =< k[3] /\ k[3] =< last /\ k[3] >= midnight
  BY DEF Points, first, last
<1>7. keys \in SUBSET DOMAIN rollups /\ \A k \in keys : k[2] = w
  BY <1>6
<1> HIDE DEF keys
<1>8. Totals(keys) = Cardinality(InBuckets(w, keys))
  BY <1>7, ColumnsAddUp DEF Tables
<1>9. ASSUME NEW r \in results, Counts(r)
      PROVE  BucketOf(r, w) \in keys <=> midnight =< r.at /\ r.at < last + w
  <2>1. BucketOf(r, w) \in DOMAIN rollups
    BY <1>9, CheckIsStored DEF Tables
  <2>2. /\ BucketOf(r, w)[1] \in Monitors /\ BucketOf(r, w)[2] = w
        /\ BucketOf(r, w)[3] = BucketStartFor(r.at, w)
        /\ r.at \in Int /\ BucketStartFor(r.at, w) \in Int
    BY BucketOfIsInt, CheckFields DEF Tables
  <2>3. /\ midnight =< BucketStartFor(r.at, w) <=> midnight =< r.at
        /\ BucketStartFor(r.at, w) =< last <=> r.at < last + w
    BY <1>1, <1>2, <1>3, <2>2, BucketCompare
  <2>4. midnight =< BucketStartFor(r.at, w) => first =< BucketStartFor(r.at, w)
    BY <1>3, <1>4, <1>5, <2>2
  <2>5. BucketStartFor(r.at, w) >= midnight <=> midnight =< BucketStartFor(r.at, w)
    BY <1>3, <2>2
  <2> QED
    BY <1>6, <2>1, <2>2, <2>3, <2>4, <2>5
<1>10. InBuckets(w, keys) = {r \in results : Counts(r) /\ midnight =< r.at /\ r.at < last + w}
  BY <1>9 DEF InBuckets
<1>11. ChecksToday(w) = Totals(keys)
  BY DEF ChecksToday, keys, midnight
<1> QED
  BY <1>8, <1>10, <1>11 DEF last, midnight

\* For any widths, ranges and retention: what the views add up from the buckets is
\* what the raw checks say.
THEOREM SummariesAreExact == Spec => []SummariesMatchChecks
<1>1. ASSUME IInv, ViewInv PROVE SummariesMatchChecks
  <2> SUFFICES ASSUME running PROVE SummariesMatchChecks
    BY DEF SummariesMatchChecks
  <2>1. Tables
    BY <1>1 DEF IInv, ViewInv, TypeOK, Tables
  <2> QED
    BY <2>1, CoverageExact, RangesExact, TodayExact DEF SummariesMatchChecks
<1> QED
  BY <1>1, Invariance, ViewInvariance, PTL

-------------------------------------------------------------------------------
(* The one word for all monitors *)

\* ORDER BY m.id lists every monitor of a set.
LEMMA IdOrderLists ==
    ASSUME NEW S \in SUBSET Monitors
    PROVE  /\ DOMAIN InIdOrder(S) = 1..Cardinality(S) /\ IsFiniteSet(DOMAIN InIdOrder(S))
           /\ \A i \in DOMAIN InIdOrder(S) : InIdOrder(S)[i] \in S
           /\ \A m \in S : \E i \in DOMAIN InIdOrder(S) : InIdOrder(S)[i] = m
<1> DEFINE smaller == [m \in S |-> {n \in S : n < m}]
           seq == InIdOrder(S)
<1>1. IsFiniteSet(S)
  BY ViewsAssumption, FS_Subset
<1>2. S \subseteq Int
  BY HistoryAssumption
<1>3. ASSUME NEW m \in S PROVE smaller[m] = {n \in S : n < m}
  OBVIOUS
<1> HIDE DEF smaller
<1>4. IsOrder(S, smaller)
  <2>1. \A m \in S : smaller[m] \in SUBSET S /\ m \notin smaller[m]
    BY <1>2, <1>3
  <2>2. ASSUME NEW m \in S, NEW n \in smaller[m], NEW k \in smaller[n] PROVE k \in smaller[m]
    <3>1. n \in S /\ n < m
      BY <1>3
    <3>2. k \in S /\ k < n
      BY <1>3, <3>1
    <3>3. k < m
      BY <1>2, <3>1, <3>2
    <3> QED
      BY <1>3, <3>2, <3>3
  <2>3. \A m, n \in S : m = n \/ m \in smaller[n] \/ n \in smaller[m]
    BY <1>2, <1>3
  <2> QED
    BY <2>1, <2>2, <2>3 DEF IsOrder
<1>5. Cardinality(S) \in Nat
  BY <1>1, FS_CardinalityType
<1>6. DOMAIN seq = 1..Cardinality(S)
  BY DEF InIdOrder, InOrder
<1>7. ASSUME NEW i \in 1..Cardinality(S)
      PROVE  seq[i] \in S /\ Cardinality({n \in S : n < seq[i]}) = i - 1
  <2>1. i - 1 \in 0..(Cardinality(S) - 1)
    BY <1>5
  <2>2. \E m \in S : Cardinality(smaller[m]) = i - 1
    BY <1>1, <1>4, <2>1, Places
  <2>3. \E m \in S : Cardinality({n \in S : n < m}) = i - 1
    BY <1>3, <2>2
  <2>4. seq[i] = CHOOSE m \in S : Cardinality({n \in S : n < m}) = i - 1
    BY DEF InIdOrder, InOrder
  <2> QED
    BY <2>3, <2>4
<1>8. \A m \in S : \E i \in 1..Cardinality(S) : seq[i] = m
  <2> HIDE DEF seq
  <2>1. IsListing(S, smaller, seq)
    BY <1>3, <1>6, <1>7 DEF IsListing
  <2> QED
    BY <1>1, <1>4, <2>1, ListingProperties
<1>9. IsFiniteSet(1..Cardinality(S))
  BY <1>5, FS_Interval
<1> QED
  BY <1>6, <1>7, <1>8, <1>9

\* The provider loop, with the table that the fold recurses over made explicit.
OverallOf(seq, g, s) ==
    IF s = {} THEN Healthy ELSE OverallStep(g[s \ {Max(s)}], DashboardState(seq[Max(s)]))
OverallTable(seq) ==
    CHOOSE g : g = [s \in SUBSET DOMAIN seq |-> OverallOf(seq, g, s)]

LEMMA OverallIsTable ==
    ASSUME NEW enabled
    PROVE  DashboardOverall(enabled)
             = OverallTable(InIdOrder(enabled))[DOMAIN InIdOrder(enabled)]
BY DEF DashboardOverall, FoldLeft, MapThenFoldSet, OverallTable, OverallOf

Words == {Healthy, "degraded", "outage"}

LEMMA OverallTableExists ==
    ASSUME NEW seq, IsFiniteSet(DOMAIN seq), DOMAIN seq \subseteq Int
    PROVE  OverallTable(seq) = [s \in SUBSET DOMAIN seq |-> OverallOf(seq, OverallTable(seq), s)]
<1> DEFINE S == DOMAIN seq
           pick == [s \in SUBSET S |-> Max(s)]
           op == [i \in S |-> [v \in Words |-> OverallStep(v, DashboardState(seq[i]))]]
<1>1. Picks(pick, S)
  <2>1. ASSUME NEW s \in SUBSET S, s # {} PROVE Max(s) \in s
    <3>1. s \in SUBSET Int /\ IsFiniteSet(s)
      BY FS_Subset
    <3> QED
      BY <2>1, <3>1, MaxIsLargest
  <2> QED
    BY <2>1 DEF Picks
<1>2. \A i \in S, v \in Words : op[i][v] \in Words
  BY DEF Words, OverallStep
<1>3. PICK g \in [SUBSET S -> Words] : IsFold(g, S, Healthy, pick, op)
  <2>1. Healthy \in Words
    BY DEF Words
  <2> HIDE DEF pick, op, S
  <2>2. HasFold(S, Words, Healthy, pick, op)
    BY <1>1, <1>2, <2>1, FoldExists DEF S
  <2> QED
    BY <2>2 DEF HasFold
<1>4. ASSUME NEW s \in SUBSET S PROVE g[s] = OverallOf(seq, g, s)
  <2>1. CASE s = {}
    BY <1>3, <2>1 DEF IsFold, OverallOf
  <2>2. CASE s # {}
    <3>1. pick[s] \in s /\ pick[s] = Max(s)
      BY <1>1, <2>2 DEF Picks
    <3>2. g[s] = op[pick[s]][g[s \ {pick[s]}]]
      BY <1>3, <2>2 DEF IsFold
    <3>3. g[s \ {pick[s]}] \in Words
      OBVIOUS
    <3>4. g[s] = OverallStep(g[s \ {pick[s]}], DashboardState(seq[pick[s]]))
      BY <3>1, <3>2, <3>3
    <3> QED
      BY <2>2, <3>1, <3>4 DEF OverallOf
  <2> QED
    BY <2>1, <2>2
<1>5. g = [s \in SUBSET S |-> OverallOf(seq, g, s)]
  <2>1. g = [s \in SUBSET S |-> g[s]]
    OBVIOUS
  <2> QED
    BY <1>4, <2>1
<1> QED
  BY <1>5 DEF OverallTable

\* What the dashboard can show of one monitor.
LEMMA DashboardStates ==
    ASSUME TypeOK, NEW m
    PROVE  DashboardState(m) \in Failures \cup {Healthy, Unknown, "degraded"}
BY DEF TypeOK, DashboardState, DashboardDisplayState

\* One round of the loop: only a healthy state keeps the word healthy, a failure
\* makes it an outage, and nothing takes an outage back.
LEMMA OneStep ==
    ASSUME NEW overall \in Words, NEW state \in Failures \cup {Healthy, Unknown, "degraded"}
    PROVE  /\ OverallStep(overall, state) \in Words
           /\ OverallStep(overall, state) = Healthy <=> overall = Healthy /\ state = Healthy
           /\ state \in Failures \/ overall = "outage" => OverallStep(overall, state) = "outage"
<1>1. Healthy \notin Failures /\ Unknown \notin Failures /\ "degraded" \notin Failures
  BY HistoryAssumption, ViewsAssumption
<1> QED
  BY <1>1 DEF OverallStep, Words, Healthy, Unknown

LEMMA OverallShows ==
    ASSUME TypeOK, NEW enabled \in SUBSET Monitors
    PROVE  /\ (\E m \in enabled : DashboardState(m) \in Failures)
                => DashboardOverall(enabled) = "outage"
           /\ DashboardOverall(enabled) = Healthy
                <=> \A m \in enabled : DashboardState(m) = Healthy
<1> DEFINE seq == InIdOrder(enabled)
           S == DOMAIN seq
           pick == [s \in SUBSET S |-> Max(s)]
           g == OverallTable(seq)
           shown == [i \in S |-> DashboardState(seq[i])]
           F == {s \in SUBSET S : /\ g[s] \in Words
                                  /\ g[s] = Healthy <=> \A i \in s : shown[i] = Healthy
                                  /\ (\E i \in s : shown[i] \in Failures) => g[s] = "outage"}
<1>1. /\ IsFiniteSet(S) /\ S \subseteq Int
      /\ \A i \in S : seq[i] \in enabled
      /\ \A m \in enabled : \E i \in S : seq[i] = m
  <2>1. /\ S = 1..Cardinality(enabled) /\ IsFiniteSet(S)
        /\ \A i \in S : seq[i] \in enabled
        /\ \A m \in enabled : \E i \in S : seq[i] = m
    BY IdOrderLists
  <2> HIDE DEF S, seq
  <2>2. S \subseteq Int
    BY <2>1
  <2> QED
    BY <2>1, <2>2
<1>2. \A i \in S : shown[i] = DashboardState(seq[i])
  OBVIOUS
<1>3. \A i \in S : shown[i] \in Failures \cup {Healthy, Unknown, "degraded"}
  BY DashboardStates
<1>4. g = [s \in SUBSET S |-> OverallOf(seq, g, s)]
  <2> HIDE DEF seq
  <2> QED
    BY <1>1, OverallTableExists
<1>5. DashboardOverall(enabled) = g[S]
  BY OverallIsTable
<1> HIDE DEF g, seq, S
<1>6. Picks(pick, S)
  <2>1. ASSUME NEW s \in SUBSET S, s # {} PROVE Max(s) \in s
    <3>1. s \in SUBSET Int /\ IsFiniteSet(s)
      BY <1>1, FS_Subset
    <3> QED
      BY <2>1, <3>1, MaxIsLargest
  <2> QED
    BY <2>1 DEF Picks
<1>7. g[{}] = Healthy
  BY <1>4 DEF OverallOf
<1>8. ASSUME NEW s \in SUBSET S, s # {}
      PROVE  pick[s] \in s /\ g[s] = OverallStep(g[s \ {pick[s]}], shown[pick[s]])
  BY <1>2, <1>4, <1>6, <1>8 DEF OverallOf, Picks
<1> HIDE DEF pick, shown
<1>9. {} \in F
  BY <1>7 DEF Words
<1>10. ASSUME NEW s \in SUBSET S, s # {}, s \ {pick[s]} \in F PROVE s \in F
  <2> DEFINE i == pick[s]
             rest == s \ {i}
  <2>1. i \in s /\ i \in S /\ g[s] = OverallStep(g[rest], shown[i])
    BY <1>8, <1>10
  <2>2. /\ g[rest] \in Words
        /\ g[rest] = Healthy <=> \A j \in rest : shown[j] = Healthy
        /\ (\E j \in rest : shown[j] \in Failures) => g[rest] = "outage"
    BY <1>10
  <2>3. \A j \in s : j = i \/ j \in rest
    OBVIOUS
  <2>4. rest \subseteq s
    OBVIOUS
  <2> HIDE DEF i, rest
  <2>5. /\ g[s] \in Words
        /\ g[s] = Healthy <=> g[rest] = Healthy /\ shown[i] = Healthy
        /\ shown[i] \in Failures \/ g[rest] = "outage" => g[s] = "outage"
    BY <1>3, <2>1, <2>2, OneStep
  <2>6. g[s] = Healthy <=> \A j \in s : shown[j] = Healthy
    BY <2>1, <2>2, <2>3, <2>4, <2>5
  <2>7. (\E j \in s : shown[j] \in Failures) => g[s] = "outage"
    BY <2>2, <2>3, <2>5
  <2> QED
    BY <2>5, <2>6, <2>7
<1> HIDE DEF F
<1>11. S \in F
  <2>1. \A s \in SUBSET S : s # {} /\ s \ {pick[s]} \in F => s \in F
    BY <1>10
  <2>2. IsFiniteSet(S)
    BY <1>1
  <2>3. SUBSET S \subseteq F
    BY <1>6, <1>9, <2>1, <2>2, RestInduction
  <2> QED
    BY <2>3
<1>12. /\ g[S] = Healthy <=> \A i \in S : shown[i] = Healthy
       /\ (\E i \in S : shown[i] \in Failures) => g[S] = "outage"
  BY <1>11 DEF F
<1> QED
  BY <1>1, <1>2, <1>5, <1>12

\* Whichever monitors are enabled, the one word for all of them hides none.
THEOREM OverallHidesNothing == Spec => []OverallNeverHidesFailure
<1>1. ASSUME TypeOK, ViewInv, NEW enabled \in SUBSET Monitors,
             CurrentOverall(enabled) = Healthy, \A m \in enabled : ~ActiveIncident(m),
             \A m \in enabled : HasResult(m)
      PROVE  DashboardOverall(enabled) = Healthy
  <2>1. \A m \in enabled : CurrentState(m) = Healthy
    <3>1. {CurrentState(m) : m \in enabled} = {Healthy}
      BY <1>1 DEF CurrentOverall, Healthy, Unknown
    <3> QED
      BY <3>1
  <2>2. ASSUME NEW m \in enabled PROVE DashboardState(m) = Healthy
    <3>1. m \in DOMAIN states
      BY <1>1, LatestShown
    <3>2. DashboardState(m) = Healthy <=> CurrentState(m) \in {Healthy, "slow"} /\ ~ActiveIncident(m)
      BY <1>1, <3>1, MonitorViewsAgree
    <3> QED
      BY <1>1, <2>1, <3>2
  <2> QED
    BY <1>1, <2>2, OverallShows
<1>2. TypeOK /\ ViewInv => OverallNeverHidesFailure
  BY <1>1, OverallShows DEF OverallNeverHidesFailure
<1> QED
  BY <1>2, TypeSafety, ViewInvariance, PTL

-------------------------------------------------------------------------------
(* The paged list *)

\* Before a check in the list, and after it.
Newer(S) == [r \in S |-> {s \in S : r.at < s.at \/ (r.at = s.at /\ r.id < s.id)}]
Older(r, c) == r.at < c.at \/ (r.at = c.at /\ r.id < c.id)

\* A table, or a part of one: finitely many checks with ids that tell them apart.
IsTable(S) == /\ S \in SUBSET CheckResult /\ IsFiniteSet(S)
              /\ \A r, s \in S : r.id = s.id => r = s

LEMMA PartOfTable ==
    ASSUME NEW S, IsTable(S), NEW R \in SUBSET S
    PROVE  IsTable(R)
BY FS_Subset DEF IsTable

LEMMA NewerIsOrder ==
    ASSUME NEW S, IsTable(S)
    PROVE  IsOrder(S, Newer(S))
<1> DEFINE before == Newer(S)
<1>1. ASSUME NEW r \in S
      PROVE  before[r] = {s \in S : r.at < s.at \/ (r.at = s.at /\ r.id < s.id)}
  BY DEF Newer
<1>2. \A r \in S : r.at \in Nat /\ r.id \in Nat
  BY DEF IsTable, CheckResult
<1> HIDE DEF before
<1>3. \A r \in S : before[r] \in SUBSET S /\ r \notin before[r]
  BY <1>1, <1>2
<1>4. ASSUME NEW r \in S, NEW s \in before[r], NEW t \in before[s] PROVE t \in before[r]
  BY <1>1, <1>2, <1>3
<1>5. \A r, s \in S : r = s \/ r \in before[s] \/ s \in before[r]
  BY <1>1, <1>2 DEF IsTable
<1> QED
  BY <1>3, <1>4, <1>5 DEF IsOrder, before

\* ORDER BY checked_at DESC, id DESC lists every check of a table once.
LEMMA NewestFirstLists ==
    ASSUME NEW S, IsTable(S)
    PROVE  IsListing(S, Newer(S), NewestFirst(S))
<1> DEFINE before == Newer(S)
           seq == NewestFirst(S)
<1>1. ASSUME NEW r \in S
      PROVE  before[r] = {s \in S : r.at < s.at \/ (r.at = s.at /\ r.id < s.id)}
  BY DEF Newer
<1>2. IsOrder(S, before) /\ IsFiniteSet(S) /\ Cardinality(S) \in Nat
  BY NewerIsOrder, FS_CardinalityType DEF IsTable
<1> HIDE DEF before
<1>3. DOMAIN seq = 1..Cardinality(S)
  BY DEF NewestFirst, InOrder
<1>4. ASSUME NEW i \in 1..Cardinality(S)
      PROVE  seq[i] \in S /\ Cardinality(before[seq[i]]) = i - 1
  <2>1. i - 1 \in 0..(Cardinality(S) - 1)
    BY <1>2
  <2>2. \E r \in S : Cardinality(before[r]) = i - 1
    BY <1>2, <2>1, Places
  <2>3. \E r \in S : Cardinality({s \in S : r.at < s.at \/ (r.at = s.at /\ r.id < s.id)}) = i - 1
    BY <1>1, <2>2
  <2>4. seq[i] = CHOOSE r \in S :
                   Cardinality({s \in S : r.at < s.at \/ (r.at = s.at /\ r.id < s.id)}) = i - 1
    BY DEF NewestFirst, InOrder
  <2>5. seq[i] \in S
        /\ Cardinality({s \in S : seq[i].at < s.at \/ (seq[i].at = s.at /\ seq[i].id < s.id)}) = i - 1
    BY <2>3, <2>4
  <2> QED
    BY <1>1, <2>5
<1> HIDE DEF seq
<1>5. IsListing(S, before, seq)
  BY <1>3, <1>4 DEF IsListing
<1> QED
  BY <1>5 DEF before, seq

AtPlace(S, i) ==
    CHOOSE r \in S : Cardinality({s \in S : r.at < s.at \/ (r.at = s.at /\ r.id < s.id)}) = i - 1

\* The rows that a request asks for.
Asked(R, before) ==
    {r \in R : before = <<>> \/ r.at < before[1].at
                  \/ (r.at = before[1].at /\ r.id < before[1].id)}

\* What a page has of the rows X asked for: each at most once; all of them when
\* there is no next page, and else those that are not older than the cursor.
IsPage(page, X, limit) ==
    /\ page.rows \in Seq(X) /\ IsInjective(page.rows)
    /\ page.next = <<>> => X \subseteq ToSet(page.rows)
    /\ page.next # <<>> =>
          \E c \in X : /\ page.next = <<c>> /\ Len(page.rows) = limit
                       /\ \A r \in X : r \in ToSet(page.rows) <=> ~Older(r, c)

LEMMA PageFacts ==
    ASSUME NEW R, IsTable(R), NEW cursor, NEW limit \in Nat \ {0}
    PROVE  /\ IsPage(Page(R, cursor, limit), Asked(R, cursor), limit)
           /\ Page(R, cursor, limit) = [rows |-> Page(R, cursor, limit).rows,
                                        next |-> Page(R, cursor, limit).next]
<1> DEFINE X == Asked(R, cursor)
           n == Cardinality(X)
           list == NewestFirst(X)
           k == IF n > limit THEN limit ELSE n
           page == Page(R, cursor, limit)
<1>1. X \subseteq R /\ IsTable(X)
  BY PartOfTable DEF Asked
<1>2. n \in Nat
  BY <1>1, FS_CardinalityType DEF IsTable
<1>3. IsListing(X, Newer(X), list) /\ IsOrder(X, Newer(X)) /\ IsFiniteSet(X)
  BY <1>1, NewestFirstLists, NewerIsOrder DEF IsTable
<1>4. /\ DOMAIN list = 1..n /\ \A i \in 1..n : list[i] \in X
      /\ \A x \in X : \E i \in 1..n : list[i] = x
      /\ \A i, j \in 1..n : list[i] = list[j] => i = j
      /\ \A i, j \in 1..n : list[i] \in Newer(X)[list[j]] <=> i < j
  <2>1. DOMAIN list = 1..n /\ \A i \in 1..n : list[i] \in X
    BY <1>3 DEF IsListing
  <2> HIDE DEF X, list, n
  <2>2. /\ \A x \in X : \E i \in 1..Cardinality(X) : list[i] = x
        /\ \A i, j \in 1..Cardinality(X) : list[i] = list[j] => i = j
        /\ \A i, j \in 1..Cardinality(X) : list[i] \in Newer(X)[list[j]] <=> i < j
    BY <1>3, ListingProperties
  <2> QED
    BY <2>1, <2>2 DEF n
<1>5. Len(list) = n
  <2>1. list = [i \in 1..n |-> AtPlace(X, i)]
    BY DEF NewestFirst, InOrder, AtPlace
  <2> HIDE DEF list, n, X
  <2>2. list \in [1..n -> X]
    BY <1>4, <2>1
  <2>3. list \in Seq(X)
    BY <1>2, <2>2, SeqDef
  <2>4. Len(list) \in Nat /\ 1..n = 1..Len(list)
    BY <1>4, <2>3, LenProperties
  <2> QED
    BY <1>2, <2>4
<1>6. page = [rows |-> SubSeq(list, 1, k), next |-> IF n > limit THEN <<list[limit]>> ELSE <<>>]
  BY <1>5 DEF Page, Cursor, Asked
<1> HIDE DEF X, list, n, page
<1>7. k \in 0..n /\ k \in Nat /\ (n > limit => k = limit /\ limit \in 1..n) /\ (~(n > limit) => k = n)
  BY <1>2
<1> HIDE DEF k
<1>8. /\ page.rows \in Seq(X) /\ Len(page.rows) = k
      /\ \A i \in 1..k : page.rows[i] = list[i]
  <2>1. \A i \in 1..k : list[i] \in X
    BY <1>2, <1>4, <1>7
  <2>2. /\ SubSeq(list, 1, k) \in Seq(X)
        /\ Len(SubSeq(list, 1, k)) = IF 1 =< k THEN k - 1 + 1 ELSE 0
        /\ \A i \in 1..k - 1 + 1 : SubSeq(list, 1, k)[i] = list[1 + i - 1]
    BY <1>7, <2>1, SubSeqProperties
  <2>3. page.rows = SubSeq(list, 1, k)
    BY <1>6
  <2>4. k - 1 + 1 = k /\ (IF 1 =< k THEN k - 1 + 1 ELSE 0) = k /\ \A i \in 1..k : 1 + i - 1 = i
    BY <1>7
  <2> QED
    BY <2>2, <2>3, <2>4
<1>9. DOMAIN page.rows = 1..k
  BY <1>8, LenProperties
<1>10. IsInjective(page.rows)
  BY <1>4, <1>7, <1>8, <1>9, <1>2 DEF IsInjective
<1>11. ASSUME NEW x \in X, NEW i \in 1..n, list[i] = x
       PROVE  x \in ToSet(page.rows) <=> i =< k
  <2>1. x \in ToSet(page.rows) <=> \E j \in 1..k : page.rows[j] = x
    BY <1>9 DEF ToSet
  <2>2. x \in ToSet(page.rows) <=> \E j \in 1..k : list[j] = x
    BY <1>8, <2>1
  <2>3. \A j \in 1..k : j \in 1..n
    BY <1>2, <1>7
  <2> QED
    BY <1>2, <1>4, <1>7, <1>11, <2>2, <2>3
<1>12. ASSUME page.next = <<>> PROVE X \subseteq ToSet(page.rows)
  <2>1. k = n
    BY <1>6, <1>7, <1>12
  <2> QED
    BY <1>2, <1>4, <1>11, <2>1
<1>13. ASSUME page.next # <<>>
       PROVE  \E c \in X : /\ page.next = <<c>> /\ Len(page.rows) = limit
                           /\ \A r \in X : r \in ToSet(page.rows) <=> ~Older(r, c)
  <2> DEFINE c == list[limit]
  <2>1. n > limit /\ page.next = <<c>> /\ k = limit /\ limit \in 1..n
    BY <1>6, <1>7, <1>13
  <2>2. c \in X
    BY <1>4, <2>1
  <2>3. ASSUME NEW r \in X PROVE r \in ToSet(page.rows) <=> ~Older(r, c)
    <3>1. PICK i \in 1..n : list[i] = r
      BY <1>4
    <3>2. r \in ToSet(page.rows) <=> i =< limit
      BY <1>11, <2>1, <3>1
    <3>3. c \in Newer(X)[r] <=> limit < i
      BY <1>4, <2>1, <3>1
    <3>4. c \in Newer(X)[r] <=> Older(r, c)
      BY <2>2 DEF Newer, Older
    <3>5. i \in Int /\ limit \in Int
      BY <1>2
    <3> QED
      BY <3>2, <3>3, <3>4, <3>5
  <2> QED
    BY <1>8, <2>1, <2>2, <2>3
<1>14. IsPage(page, X, limit)
  BY <1>8, <1>10, <1>12, <1>13 DEF IsPage
<1>15. page = [rows |-> page.rows, next |-> page.next]
  BY <1>6
<1> QED
  BY <1>14, <1>15 DEF page, X

\* What a reader has after so many further requests: checks of the two tables, each
\* once, and of those in both of them every one that is not older than the cursor.
Progress(read, A, B, n) ==
    /\ read.rows \in Seq(A \cup B) /\ IsInjective(read.rows)
    /\ read.next = <<>> => A \cap B \subseteq ToSet(read.rows)
    /\ read.next # <<>> =>
          \E c \in A \cup B :
             /\ read.next = <<c>> /\ n < Len(read.rows)
             /\ \A r \in ToSet(read.rows) : ~Older(r, c)
             /\ \A r \in A \cap B : ~Older(r, c) => r \in ToSet(read.rows)

LEMMA RowsOf ==
    ASSUME NEW S, NEW s \in Seq(S)
    PROVE  /\ Len(s) \in Nat /\ DOMAIN s = 1..Len(s)
           /\ ToSet(s) = {s[i] : i \in 1..Len(s)} /\ ToSet(s) \subseteq S
           /\ \A i \in 1..Len(s) : s[i] \in ToSet(s)
           /\ \A x \in ToSet(s) : \E i \in 1..Len(s) : s[i] = x
<1>1. Len(s) \in Nat /\ DOMAIN s = 1..Len(s) /\ s \in [1..Len(s) -> S]
  BY LenProperties
<1>2. ToSet(s) = {s[i] : i \in 1..Len(s)}
  BY <1>1 DEF ToSet
<1> QED
  BY <1>1, <1>2

LEMMA FirstRequest ==
    ASSUME NEW A, NEW B, IsTable(A \cup B), NEW limit \in Nat \ {0}
    PROVE  Progress(Page(A, <<>>, limit), A, B, 0)
<1> DEFINE page == Page(A, <<>>, limit)
<1>1. IsTable(A)
  BY PartOfTable
<1>2. Asked(A, <<>>) = A
  BY DEF Asked
<1>3. IsPage(page, A, limit)
  BY <1>1, <1>2, PageFacts
<1> HIDE DEF page
<1>4. page.rows \in Seq(A) /\ IsInjective(page.rows)
  BY <1>3 DEF IsPage
<1>5. page.rows \in Seq(A \cup B) /\ ToSet(page.rows) \subseteq A
  BY <1>4, SeqMonotonic, RowsOf
<1>6. ASSUME page.next = <<>> PROVE A \cap B \subseteq ToSet(page.rows)
  BY <1>3, <1>6 DEF IsPage
<1>7. ASSUME page.next # <<>>
      PROVE  \E c \in A \cup B :
             /\ page.next = <<c>> /\ 0 < Len(page.rows)
             /\ \A r \in ToSet(page.rows) : ~Older(r, c)
             /\ \A r \in A \cap B : ~Older(r, c) => r \in ToSet(page.rows)
  <2>1. PICK c \in A : /\ page.next = <<c>> /\ Len(page.rows) = limit
                       /\ \A r \in A : r \in ToSet(page.rows) <=> ~Older(r, c)
    BY <1>3, <1>7 DEF IsPage
  <2> QED
    BY <1>5, <2>1
<1>8. Progress(page, A, B, 0)
  BY <1>4, <1>5, <1>6, <1>7 DEF Progress
<1> QED
  BY <1>8 DEF page

\* Being older is a strict order, in which two checks of a table compare.
LEMMA OlderIsStrict ==
    ASSUME NEW S, IsTable(S)
    PROVE  /\ \A r \in S : ~Older(r, r)
           /\ \A r, s, t \in S : Older(r, s) /\ Older(s, t) => Older(r, t)
           /\ \A r, s \in S : r = s \/ Older(r, s) \/ Older(s, r)
BY DEF IsTable, CheckResult, Older

LEMMA NextRequest ==
    ASSUME NEW A, NEW B, IsTable(A \cup B), NEW limit \in Nat \ {0},
           NEW n \in Nat, NEW read, Progress(read, A, B, n)
    PROVE  Progress(AskOnce(read, B, limit), A, B, n + 1)
<1>1. CASE read.next = <<>>
  BY <1>1 DEF AskOnce, Progress
<1>2. CASE read.next # <<>>
  <2>1. PICK c \in A \cup B :
             /\ read.next = <<c>> /\ n < Len(read.rows)
             /\ \A r \in ToSet(read.rows) : ~Older(r, c)
             /\ \A r \in A \cap B : ~Older(r, c) => r \in ToSet(read.rows)
    BY <1>2 DEF Progress
  <2> DEFINE X == {r \in B : Older(r, c)}
             page == Page(B, <<c>>, limit)
             rows == read.rows \o page.rows
             both == AskOnce(read, B, limit)
  <2>2. IsTable(B)
    BY PartOfTable
  <2>3. Asked(B, <<c>>) = X
    BY DEF Asked, Older
  <2>4. IsPage(page, X, limit)
    BY <2>2, <2>3, PageFacts
  <2>5. both = [rows |-> rows, next |-> page.next]
    BY <1>2, <2>1 DEF AskOnce
  <2>6. both.rows = rows /\ both.next = page.next
    <3> HIDE DEF both, rows, page
    <3> QED
      BY <2>5
  <2>7. X \subseteq B
    OBVIOUS
  <2>8. \A r \in X : Older(r, c)
    OBVIOUS
  <2>9. \A r \in B : Older(r, c) => r \in X
    OBVIOUS
  <2> HIDE DEF X, page, both
  <2>10. page.rows \in Seq(X) /\ IsInjective(page.rows) /\ read.rows \in Seq(A \cup B) /\ IsInjective(read.rows)
    BY <2>4 DEF IsPage, Progress
  <2>11. page.rows \in Seq(A \cup B) /\ ToSet(page.rows) \subseteq X
    BY <2>7, <2>10, SeqMonotonic, RowsOf
  <2> DEFINE l == Len(read.rows)
             k == Len(page.rows)
  <2>12. /\ l \in Nat /\ k \in Nat /\ rows \in Seq(A \cup B) /\ Len(rows) = l + k
         /\ \A i \in 1..(l + k) : rows[i] = IF i <= l THEN read.rows[i] ELSE page.rows[i - l]
    <3>1. Len(read.rows) \in Nat /\ Len(page.rows) \in Nat
      BY <2>10, <2>11, RowsOf
    <3>2. /\ read.rows \o page.rows \in Seq(A \cup B)
          /\ Len(read.rows \o page.rows) = Len(read.rows) + Len(page.rows)
          /\ \A i \in 1..Len(read.rows) + Len(page.rows) : (read.rows \o page.rows)[i] =
                IF i <= Len(read.rows) THEN read.rows[i] ELSE page.rows[i - Len(read.rows)]
      BY <2>10, <2>11, ConcatProperties
    <3> QED
      BY <3>1, <3>2
  <2>13. DOMAIN rows = 1..(l + k) /\ DOMAIN read.rows = 1..l /\ DOMAIN page.rows = 1..k
    BY <2>10, <2>11, <2>12, RowsOf
  <2> HIDE DEF rows, l, k
  <2>14. ToSet(rows) = ToSet(read.rows) \cup ToSet(page.rows)
    <3>1. ASSUME NEW x \in ToSet(rows) PROVE x \in ToSet(read.rows) \cup ToSet(page.rows)
      <4>1. PICK i \in 1..(l + k) : rows[i] = x
        BY <2>13 DEF ToSet
      <4>2. CASE i =< l
        <5>1. i \in 1..l /\ rows[i] = read.rows[i]
          BY <2>12, <4>1, <4>2
        <5> QED
          BY <2>13, <4>1, <5>1 DEF ToSet
      <4>3. CASE l < i
        <5>1. i - l \in 1..k /\ rows[i] = page.rows[i - l]
          BY <2>12, <4>1, <4>3
        <5> QED
          BY <2>13, <4>1, <5>1 DEF ToSet
      <4>4. i =< l \/ l < i
        BY <2>12
      <4> QED
        BY <4>2, <4>3, <4>4
    <3>2. ASSUME NEW x \in ToSet(read.rows) PROVE x \in ToSet(rows)
      <4>1. PICK i \in 1..l : read.rows[i] = x
        BY <2>13 DEF ToSet
      <4>2. i \in 1..(l + k) /\ rows[i] = x
        BY <2>12, <4>1
      <4> QED
        BY <2>13, <4>2 DEF ToSet
    <3>3. ASSUME NEW x \in ToSet(page.rows) PROVE x \in ToSet(rows)
      <4>1. PICK i \in 1..k : page.rows[i] = x
        BY <2>13 DEF ToSet
      <4>2. l + i \in 1..(l + k) /\ ~(l + i <= l) /\ (l + i) - l = i
        BY <2>12, <4>1
      <4>3. rows[l + i] = x
        BY <2>12, <4>1, <4>2
      <4> QED
        BY <2>13, <4>2, <4>3 DEF ToSet
    <3> QED
      BY <3>1, <3>2, <3>3
  <2>15. ToSet(read.rows) \cap ToSet(page.rows) = {}
    BY <2>1, <2>8, <2>11
  <2>16. IsInjective(rows)
    <3> SUFFICES ASSUME NEW i \in 1..(l + k), NEW j \in 1..(l + k), rows[i] = rows[j]
                 PROVE  i = j
      BY <2>13 DEF IsInjective
    <3>1. ASSUME NEW a \in 1..(l + k)
          PROVE  \/ a \in 1..l /\ rows[a] = read.rows[a] /\ rows[a] \in ToSet(read.rows)
                 \/ /\ a - l \in 1..k /\ rows[a] = page.rows[a - l] /\ rows[a] \in ToSet(page.rows)
      <4>1. CASE a =< l
        BY <2>12, <2>13, <4>1 DEF ToSet
      <4>2. CASE l < a
        <5>1. a - l \in 1..k /\ rows[a] = page.rows[a - l]
          BY <2>12, <4>2
        <5> QED
          BY <2>13, <5>1 DEF ToSet
      <4> QED
        BY <2>12, <4>1, <4>2
    <3>2. CASE i \in 1..l /\ rows[i] = read.rows[i] /\ rows[i] \in ToSet(read.rows)
      <4>1. j \in 1..l /\ rows[j] = read.rows[j]
        BY <2>15, <3>1, <3>2
      <4> QED
        BY <2>10, <2>13, <3>2, <4>1 DEF IsInjective
    <3>3. CASE i - l \in 1..k /\ rows[i] = page.rows[i - l] /\ rows[i] \in ToSet(page.rows)
      <4>1. j - l \in 1..k /\ rows[j] = page.rows[j - l]
        BY <2>15, <3>1, <3>3
      <4>2. i - l = j - l
        BY <2>10, <2>13, <3>3, <4>1 DEF IsInjective
      <4> QED
        BY <2>12, <4>2
    <3> QED
      BY <3>1, <3>2, <3>3
  <2>17. ASSUME both.next = <<>> PROVE A \cap B \subseteq ToSet(rows)
    <3>1. X \subseteq ToSet(page.rows)
      BY <2>4, <2>6, <2>17 DEF IsPage
    <3> QED
      BY <2>1, <2>9, <2>14, <3>1
  <2>18. ASSUME both.next # <<>>
         PROVE  \E d \in A \cup B :
             /\ both.next = <<d>> /\ n + 1 < Len(rows)
             /\ \A r \in ToSet(rows) : ~Older(r, d)
             /\ \A r \in A \cap B : ~Older(r, d) => r \in ToSet(rows)
    <3>1. PICK d \in X : /\ page.next = <<d>> /\ Len(page.rows) = limit
                         /\ \A r \in X : r \in ToSet(page.rows) <=> ~Older(r, d)
      BY <2>4, <2>6, <2>18 DEF IsPage
    <3>2. d \in A \cup B /\ Older(d, c)
      BY <2>7, <2>8, <3>1
    <3>3. n + 1 < Len(rows)
      BY <2>1, <2>12, <3>1 DEF l, k
    <3>4. ASSUME NEW r \in ToSet(rows) PROVE ~Older(r, d)
      <4>1. CASE r \in ToSet(page.rows)
        BY <2>11, <3>1, <4>1
      <4>2. CASE r \in ToSet(read.rows)
        <5>1. r \in A \cup B
          BY <2>10, <4>2, RowsOf
        <5>2. ~Older(r, c)
          BY <2>1, <4>2
        <5> QED
          BY <3>2, <5>1, <5>2, OlderIsStrict
      <4> QED
        BY <2>14, <4>1, <4>2
    <3>5. ASSUME NEW r \in A \cap B, ~Older(r, d) PROVE r \in ToSet(rows)
      <4>1. CASE Older(r, c)
        BY <2>9, <2>14, <3>1, <3>5, <4>1
      <4>2. CASE ~Older(r, c)
        BY <2>1, <2>14, <4>2
      <4> QED
        BY <4>1, <4>2
    <3> QED
      BY <2>6, <3>1, <3>2, <3>3, <3>4, <3>5
  <2>19. Progress(both, A, B, n + 1)
    BY <2>6, <2>12, <2>16, <2>17, <2>18 DEF Progress
  <2> QED
    BY <2>19 DEF both
<1> QED
  BY <1>1, <1>2

\* The requests of a reader, with the table that they are read from made explicit.
Requests(f, A, B, limit) ==
    [i \in 0..Cardinality(A \cup B) |->
        IF i = 0 THEN Page(A, <<>>, limit) ELSE AskOnce(f[i - 1], B, limit)]
Answers(A, B, limit) == CHOOSE f : f = Requests(f, A, B, limit)

LEMMA ReadingIsAnswers ==
    ASSUME NEW A, NEW B, NEW limit
    PROVE  Reading(A, B, limit) = Answers(A, B, limit)[Cardinality(A \cup B)]
BY DEF Reading, Answers, Requests

\* What a reader may hold.
Held(S) == [rows : Seq(S), next : {<<>>} \cup {<<c>> : c \in S}]

LEMMA PageIsHeld ==
    ASSUME NEW S, IsTable(S), NEW R \in SUBSET S, NEW cursor, NEW limit \in Nat \ {0}
    PROVE  Page(R, cursor, limit) \in Held(S)
<1> DEFINE page == Page(R, cursor, limit)
           X == Asked(R, cursor)
<1>1. X \subseteq S
  BY DEF Asked
<1>2. /\ IsPage(page, X, limit)
      /\ page = [rows |-> page.rows, next |-> page.next]
  BY PartOfTable, PageFacts
<1> HIDE DEF page, X
<1>3. page.rows \in Seq(S)
  BY <1>1, <1>2, SeqMonotonic DEF IsPage
<1>4. page.next \in {<<>>} \cup {<<c>> : c \in S}
  <2>1. CASE page.next = <<>>
    BY <2>1
  <2>2. CASE page.next # <<>>
    <3>1. \E c \in X : page.next = <<c>>
      BY <1>2, <2>2 DEF IsPage
    <3> QED
      BY <1>1, <3>1
  <2> QED
    BY <2>1, <2>2
<1>5. [rows |-> page.rows, next |-> page.next] \in Held(S)
  BY <1>3, <1>4 DEF Held
<1>6. page \in Held(S)
  BY <1>2, <1>5
<1> QED
  BY <1>6 DEF page

LEMMA AskOnceIsHeld ==
    ASSUME NEW S, IsTable(S), NEW R \in SUBSET S, NEW limit \in Nat \ {0}, NEW held \in Held(S)
    PROVE  AskOnce(held, R, limit) \in Held(S)
<1>1. CASE held.next = <<>>
  BY <1>1 DEF AskOnce
<1>2. CASE held.next # <<>>
  <2> DEFINE page == Page(R, held.next, limit)
  <2>1. page \in Held(S)
    BY PageIsHeld
  <2>2. AskOnce(held, R, limit) = [rows |-> held.rows \o page.rows, next |-> page.next]
    BY <1>2 DEF AskOnce
  <2> HIDE DEF page
  <2>3. held.rows \o page.rows \in Seq(S) /\ page.next \in {<<>>} \cup {<<c>> : c \in S}
    <3>1. held.rows \in Seq(S) /\ page.rows \in Seq(S) /\ page.next \in {<<>>} \cup {<<c>> : c \in S}
      BY <2>1 DEF Held
    <3> QED
      BY <3>1, ConcatProperties
  <2>4. [rows |-> held.rows \o page.rows, next |-> page.next] \in Held(S)
    BY <2>3 DEF Held
  <2> QED
    BY <2>2, <2>4
<1> QED
  BY <1>1, <1>2

LEMMA AnswersExist ==
    ASSUME NEW A, NEW B, IsTable(A \cup B), NEW limit \in Nat \ {0}
    PROVE  Answers(A, B, limit) = Requests(Answers(A, B, limit), A, B, limit)
<1> DEFINE S == A \cup B
           n == Cardinality(S)
           first == Page(A, <<>>, limit)
           step == [held \in Held(S) |-> AskOnce(held, B, limit)]
<1>1. n \in Nat
  BY FS_CardinalityType DEF IsTable
<1>2. first \in Held(S)
  BY PageIsHeld
<1>3. ASSUME NEW held \in Held(S)
      PROVE  step[held] \in Held(S) /\ step[held] = AskOnce(held, B, limit)
  <2>1. AskOnce(held, B, limit) \in Held(S)
    BY AskOnceIsHeld
  <2> QED
    BY <2>1
<1> HIDE DEF step, first, n
<1>4. PICK f \in [0..n -> Held(S)] : IsChain(f, n, first, step)
  <2> HIDE DEF S
  <2>1. HasChain(n, Held(S), first, step)
    BY <1>1, <1>2, <1>3, ChainExists
  <2> QED
    BY <2>1 DEF HasChain
<1>5. ASSUME NEW i \in 0..n
      PROVE  f[i] = IF i = 0 THEN first ELSE AskOnce(f[i - 1], B, limit)
  <2>1. CASE i = 0
    BY <1>4, <2>1 DEF IsChain
  <2>2. CASE i # 0
    <3>1. i - 1 \in 0..n
      BY <1>1, <2>2
    <3>2. f[i - 1] \in Held(S)
      BY <1>4, <3>1
    <3>3. f[i] = step[f[i - 1]]
      BY <1>4, <2>2 DEF IsChain
    <3> QED
      BY <1>3, <2>2, <3>2, <3>3
  <2> QED
    BY <2>1, <2>2
<1>6. f = [i \in 0..n |-> IF i = 0 THEN first ELSE AskOnce(f[i - 1], B, limit)]
  <2>1. f = [i \in 0..n |-> f[i]]
    BY <1>4
  <2> QED
    BY <1>5, <2>1
<1>7. f = Requests(f, A, B, limit)
  BY <1>6 DEF Requests, n, S, first
<1> QED
  BY <1>7 DEF Answers

LEMMA ReadingEnds ==
    ASSUME NEW A, NEW B, IsTable(A \cup B), NEW limit \in Nat \ {0}
    PROVE  /\ Reading(A, B, limit).next = <<>>
           /\ A \cap B \subseteq ToSet(Reading(A, B, limit).rows)
           /\ IsInjective(Reading(A, B, limit).rows)
<1> DEFINE S == A \cup B
           n == Cardinality(S)
           f == Answers(A, B, limit)
           F == {i \in Nat : i =< n => Progress(f[i], A, B, i)}
<1>1. n \in Nat /\ IsFiniteSet(S)
  BY FS_CardinalityType DEF IsTable
<1>2. f = Requests(f, A, B, limit)
  BY AnswersExist
<1>3. Reading(A, B, limit) = f[n]
  BY ReadingIsAnswers
<1> HIDE DEF f
<1>4. f[0] = Page(A, <<>>, limit)
  <2>1. 0 \in 0..Cardinality(A \cup B)
    BY <1>1
  <2> QED
    BY <1>2, <2>1 DEF Requests
<1>5. ASSUME NEW i \in Nat, i + 1 =< n PROVE f[i + 1] = AskOnce(f[i], B, limit)
  <2>1. i + 1 \in 0..Cardinality(A \cup B) /\ i + 1 # 0 /\ (i + 1) - 1 = i
    BY <1>1, <1>5
  <2> QED
    BY <1>2, <2>1 DEF Requests
<1> HIDE DEF n, S
<1>6. 0 \in F
  BY <1>4, FirstRequest
<1>7. ASSUME NEW i \in Nat, i \in F PROVE i + 1 \in F
  <2> SUFFICES ASSUME i + 1 =< n PROVE Progress(f[i + 1], A, B, i + 1)
    OBVIOUS
  <2>1. Progress(f[i], A, B, i)
    BY <1>1, <1>7
  <2> QED
    BY <1>5, <2>1, NextRequest
<1>8. Progress(f[n], A, B, n)
  <2> HIDE DEF F
  <2>1. Nat \subseteq F
    BY <1>6, <1>7, NatSetInduction
  <2> QED
    BY <1>1, <2>1 DEF F
<1>9. f[n].next = <<>>
  <2> SUFFICES ASSUME f[n].next # <<>> PROVE FALSE
    OBVIOUS
  <2> DEFINE rows == f[n].rows
             l == Len(rows)
  <2>1. n < l /\ rows \in Seq(S) /\ IsInjective(rows)
    BY <1>8 DEF Progress, S
  <2> HIDE DEF rows
  <2>2. l \in Nat /\ rows \in [1..l -> S]
    BY <2>1, LenProperties
  <2> HIDE DEF l
  <2>3. rows \in Injection(1..l, S)
    BY <2>1, <2>2 DEF Injection
  <2>4. Cardinality(1..l) =< n
    BY <1>1, <2>3, FS_Injection DEF n
  <2>5. Cardinality(1..l) = l
    <3>1. 1 \in Int /\ l \in Int
      BY <2>2
    <3>2. Cardinality(1..l) = IF 1 > l THEN 0 ELSE l - 1 + 1
      BY <3>1, FS_Interval
    <3> QED
      BY <2>2, <3>2
  <2> QED
    BY <1>1, <2>1, <2>2, <2>4, <2>5
<1> QED
  BY <1>3, <1>8, <1>9 DEF Progress

\* The same for pages of any size.
PagesOfAnySize ==
    \A some \in SUBSET results, limit \in Nat \ {0} :
        \A reading \in {Reading(results, some, limit), Reading(some, results, limit)} :
            /\ reading.next = <<>>
            /\ some \subseteq ToSet(reading.rows)
            /\ IsInjective(reading.rows)

\* Whatever the table has become when the reader goes on, whatever the size of the
\* table and of a page: the reading ends, lists each check once, and misses none
\* that stayed.
THEOREM PagesListEveryCheckOnce == Spec => [](PagesListEachCheckOnce /\ PagesOfAnySize)
<1>1. ASSUME TypeOK, ViewInv, NEW some \in SUBSET results, NEW limit \in Nat \ {0}
      PROVE  /\ Reading(results, some, limit).next = <<>>
             /\ some \subseteq ToSet(Reading(results, some, limit).rows)
             /\ IsInjective(Reading(results, some, limit).rows)
             /\ Reading(some, results, limit).next = <<>>
             /\ some \subseteq ToSet(Reading(some, results, limit).rows)
             /\ IsInjective(Reading(some, results, limit).rows)
  <2>1. IsTable(results)
    BY <1>1 DEF TypeOK, ViewInv, IdsUnique, IsTable
  <2>2. results \cup some = results /\ some \cup results = results
        /\ results \cap some = some /\ some \cap results = some
    OBVIOUS
  <2>3. IsTable(results \cup some) /\ IsTable(some \cup results)
    BY <2>1, <2>2
  <2>4. /\ Reading(results, some, limit).next = <<>>
        /\ results \cap some \subseteq ToSet(Reading(results, some, limit).rows)
        /\ IsInjective(Reading(results, some, limit).rows)
    BY <2>3, ReadingEnds
  <2>5. /\ Reading(some, results, limit).next = <<>>
        /\ some \cap results \subseteq ToSet(Reading(some, results, limit).rows)
        /\ IsInjective(Reading(some, results, limit).rows)
    BY <2>3, ReadingEnds
  <2> QED
    BY <2>2, <2>4, <2>5
<1>2. TypeOK /\ ViewInv => PagesOfAnySize
  BY <1>1 DEF PagesOfAnySize
<1>3. PagesOfAnySize => PagesListEachCheckOnce
  <2>1. 1..2 \subseteq Nat \ {0}
    OBVIOUS
  <2> QED
    BY <2>1 DEF PagesOfAnySize, PagesListEachCheckOnce
<1> QED
  BY <1>2, <1>3, TypeSafety, ViewInvariance, PTL
===============================================================================
