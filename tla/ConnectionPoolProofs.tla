-------------------------- MODULE ConnectionPoolProofs --------------------------
(***************************************************************************)
(* Proofs about ConnectionPool for any number of recorders, other users    *)
(* and connections.                                                        *)
(***************************************************************************)
EXTENDS ConnectionPool, FiniteSetTheorems, TLAPS

Labels == {"checking", "begun", "writing", "committed", "reading", "inserting"}

\* How many recorders are where.
N(label) == Cardinality(At(label))

LEMMA AtFinite ==
    ASSUME NEW label
    PROVE  IsFiniteSet(At(label)) /\ N(label) \in Nat /\ N(label) =< Cardinality(Recorders)
<1>1. IsFiniteSet(Recorders) /\ At(label) \subseteq Recorders
  BY ActorAssumption DEF At
<1> QED
  BY <1>1, FS_Subset, FS_CardinalityType DEF N

\* A recorder that goes from one label to another.
LEMMA Move ==
    ASSUME TypeOK, NEW c \in Recorders, NEW from \in Labels, NEW to \in Labels, from # to,
           pc[c] = from, pc' = [pc EXCEPT ![c] = to]
    PROVE  /\ pc' \in [Recorders -> Labels]
           /\ N(from)' = N(from) - 1
           /\ N(to)' = N(to) + 1
           /\ \A label \in Labels \ {from, to} : N(label)' = N(label)
<1>1. At(from)' = At(from) \ {c} /\ c \in At(from)
  BY DEF At, TypeOK
<1>2. At(to)' = At(to) \cup {c} /\ c \notin At(to)
  BY DEF At, TypeOK
<1>3. \A label \in Labels \ {from, to} : At(label)' = At(label)
  BY DEF At, TypeOK
<1>4. N(from)' = N(from) - 1
  BY <1>1, AtFinite, FS_RemoveElement DEF N
<1>5. N(to)' = N(to) + 1
  BY <1>2, AtFinite, FS_AddElement DEF N
<1> QED
  BY <1>3, <1>4, <1>5 DEF N, TypeOK, Labels

\* The connections that the recorders hold.
Held == N("begun") + N("writing") + N("reading") + 2 * N("inserting")

\* What a move does to them.
Weight(label) == IF label \in {"begun", "writing", "reading"} THEN 1
                 ELSE IF label = "inserting" THEN 2 ELSE 0

LEMMA MoveHeld ==
    ASSUME TypeOK, NEW c \in Recorders, NEW from \in Labels, NEW to \in Labels, from # to,
           pc[c] = from, pc' = [pc EXCEPT ![c] = to]
    PROVE  Held \in Nat /\ Held' = Held - Weight(from) + Weight(to)
<1>1. \A label \in Labels : N(label) \in Nat
  BY AtFinite
<1>2. /\ N(from)' = N(from) - 1
      /\ N(to)' = N(to) + 1
      /\ \A label \in Labels \ {from, to} : N(label)' = N(label)
  BY Move
<1>3. \A label \in Labels :
        N(label)' = IF label = from THEN N(label) - 1
                    ELSE IF label = to THEN N(label) + 1 ELSE N(label)
  BY <1>2
<1>4. Held \in Nat
  BY <1>1 DEF Held, Labels
<1> QED
  BY <1>1, <1>3, <1>4 DEF Held, Weight, Labels

-------------------------------------------------------------------------------
(* The inductive invariant: types and conservation *)

Inv == TypeOK /\ PoolConserved

LEMMA UsingFinite == TypeOK => IsFiniteSet(using) /\ Cardinality(using) \in Nat
BY ActorAssumption, FS_Subset, FS_CardinalityType DEF TypeOK

LEMMA Conserved == TypeOK => (PoolConserved <=> free + Held + Cardinality(using) = Conns)
<1> SUFFICES ASSUME TypeOK PROVE PoolConserved <=> free + Held + Cardinality(using) = Conns
  OBVIOUS
<1>1. \A label \in Labels : N(label) \in Nat
  BY AtFinite
<1>2. free \in Int /\ Cardinality(using) \in Int /\ Conns \in Int
  BY UsingFinite, ConnsAssumption DEF TypeOK
<1>3. PoolConserved <=> free + N("begun") + N("writing") + N("reading")
                             + 2 * N("inserting") + Cardinality(using) = Conns
  BY DEF PoolConserved, N
<1> QED
  BY <1>1, <1>2, <1>3 DEF Held, Labels

LEMMA InitInv == Init => Inv
<1> SUFFICES ASSUME Init PROVE Inv
  OBVIOUS
<1>1. TypeOK
  BY ConnsAssumption DEF Init, TypeOK
<1>2. \A label \in Labels \ {"checking"} : At(label) = {}
  BY DEF Init, At
<1>3. \A label \in Labels \ {"checking"} : N(label) = 0
  BY <1>2, FS_EmptySet DEF N
<1>4. Held = 0
  BY <1>3 DEF Held, Labels
<1>5. Cardinality(using) = 0 /\ free = Conns
  BY FS_EmptySet DEF Init
<1> QED
  BY <1>1, <1>4, <1>5, Conserved, ConnsAssumption DEF Inv

\* A recorder's step pays for its move out of the free connections.
Step(c, from, to) == /\ pc[c] = from /\ pc' = [pc EXCEPT ![c] = to]
                     /\ UNCHANGED using
                     /\ writer' \in Recorders \cup {None} \cup {writer}
                     /\ free' = free + Weight(from) - Weight(to) /\ free' >= 0

LEMMA RecorderStep ==
    ASSUME Inv, NEW c \in Recorders, NEW from \in Labels, NEW to \in Labels, from # to,
           Step(c, from, to)
    PROVE  Inv'
<1> USE DEF Step
<1>1. Held \in Nat /\ Held' = Held - Weight(from) + Weight(to)
  BY MoveHeld DEF Inv
<1>2. Weight(from) \in Nat /\ Weight(to) \in Nat
  BY DEF Weight
<1>3. free \in Nat /\ Cardinality(using) \in Nat /\ free + Held + Cardinality(using) = Conns
  BY UsingFinite, Conserved, ConnsAssumption DEF Inv, TypeOK
<1>4. free' + Held' + Cardinality(using)' = Conns
  BY <1>1, <1>2, <1>3
<1>5. Held' \in Nat /\ \A label \in Labels : N(label)' \in Nat
  <2>1. \A label \in Labels : N(label)' \in Nat
    <3>1. \A label \in Labels : N(label) \in Nat
      BY AtFinite
    <3>2. N(from) > 0
      <4>1. At(from) # {}
        BY DEF Inv, TypeOK, At
      <4> QED
        BY <4>1, AtFinite, FS_EmptySet DEF N
    <3>3. /\ N(from)' = N(from) - 1
          /\ N(to)' = N(to) + 1
          /\ \A label \in Labels \ {from, to} : N(label)' = N(label)
      BY Move DEF Inv
    <3>4. \A label \in Labels :
            N(label)' = IF label = from THEN N(label) - 1
                        ELSE IF label = to THEN N(label) + 1 ELSE N(label)
      BY <3>3
    <3> QED
      BY <3>1, <3>2, <3>4
  <2> QED
    BY <2>1 DEF Held, Labels
<1>6. TypeOK'
  <2>1. pc' \in [Recorders -> Labels]
    BY Move DEF Inv
  <2>2. free' \in 0..Conns
    BY <1>1, <1>2, <1>3, <1>4, <1>5, ConnsAssumption
  <2> QED
    BY <2>1, <2>2 DEF Inv, TypeOK, Labels
<1>7. PoolConserved'
  <2>1. PoolConserved' <=> free' + N("begun")' + N("writing")' + N("reading")'
                               + 2 * N("inserting")' + Cardinality(using)' = Conns
    BY DEF PoolConserved, N
  <2>2. Held' = N("begun")' + N("writing")' + N("reading")' + 2 * N("inserting")'
    BY DEF Held
  <2>3. free' \in Int /\ Cardinality(using)' \in Int
    BY <1>2, <1>3
  <2> QED
    BY <1>4, <1>5, <2>1, <2>2, <2>3 DEF Labels
<1> QED
  BY <1>6, <1>7 DEF Inv

\* What one of the others borrows or returns.
LEMMA OtherStep ==
    ASSUME Inv, UNCHANGED pc, using' \subseteq Others,
           writer' \in Recorders \cup Others \cup {None},
           free' + Cardinality(using') = free + Cardinality(using),
           free' \in Nat, Cardinality(using') \in Nat
    PROVE  Inv'
<1>1. free + Held + Cardinality(using) = Conns /\ Held \in Nat /\ Held' = Held
  <2>1. Held' = Held
    BY DEF Held, N, At
  <2>2. \A label \in Labels : N(label) \in Nat
    BY AtFinite
  <2> QED
    BY <2>1, <2>2, Conserved DEF Inv, Held, Labels
<1>2. free \in Nat /\ Cardinality(using) \in Nat /\ Conns \in Nat
  BY UsingFinite, ConnsAssumption DEF Inv, TypeOK
<1>3. free' + Held' + Cardinality(using)' = Conns
  BY <1>1, <1>2
<1>4. TypeOK'
  BY <1>1, <1>2, <1>3 DEF Inv, TypeOK
<1>5. PoolConserved'
  <2>1. \A label \in Labels : N(label)' = N(label) /\ N(label) \in Nat
    BY AtFinite DEF N, At
  <2>2. PoolConserved' <=> free' + N("begun")' + N("writing")' + N("reading")'
                               + 2 * N("inserting")' + Cardinality(using)' = Conns
    BY DEF PoolConserved, N
  <2>3. Held' = N("begun")' + N("writing")' + N("reading")' + 2 * N("inserting")'
    BY DEF Held
  <2> QED
    BY <1>3, <2>1, <2>2, <2>3 DEF Labels
<1> QED
  BY <1>4, <1>5 DEF Inv

LEMMA NextInv == Inv /\ [Next]_vars => Inv'
<1> SUFFICES ASSUME Inv, [Next]_vars PROVE Inv'
  OBVIOUS
<1>1. ASSUME NEW c \in Recorders, Record(c) PROVE Inv'
  <2>1. CASE Begin(c)
    <3>1. Step(c, "checking", "begun")
      BY <2>1 DEF Begin, Step, Weight, Inv, TypeOK
    <3> QED
      BY <3>1, RecorderStep DEF Labels
  <2>2. CASE Write(c)
    <3>1. Step(c, "begun", "writing")
      BY <2>2 DEF Write, Step, Weight, Inv, TypeOK
    <3> QED
      BY <3>1, RecorderStep DEF Labels
  <2>3. CASE Busy(c)
    <3>1. Step(c, "begun", "checking")
      BY <2>3 DEF Busy, Step, Weight, Inv, TypeOK
    <3> QED
      BY <3>1, RecorderStep DEF Labels
  <2>4. CASE Commit(c)
    <3>1. PICK next \in {"checking", "committed"} : pc' = [pc EXCEPT ![c] = next]
      BY <2>4 DEF Commit
    <3>2. Step(c, "writing", next)
      BY <2>4, <3>1 DEF Commit, Step, Weight, Inv, TypeOK
    <3> QED
      BY <3>1, <3>2, RecorderStep DEF Labels
  <2> QED
    BY <1>1, <2>1, <2>2, <2>3, <2>4 DEF Record
<1>2. ASSUME NEW c \in Recorders, Enqueue(c) PROVE Inv'
  <2>1. CASE NoChannel(c)
    <3>1. Step(c, "committed", "checking")
      BY <2>1 DEF NoChannel, Step, Weight, Inv, TypeOK
    <3> QED
      BY <3>1, RecorderStep DEF Labels
  <2>2. CASE Query(c)
    <3>1. Step(c, "committed", "reading")
      BY <2>2 DEF Query, Step, Weight, Inv, TypeOK
    <3> QED
      BY <3>1, RecorderStep DEF Labels
  <2>3. CASE Insert(c)
    <3>1. Step(c, "reading", "inserting")
      BY <2>3 DEF Insert, Step, Weight, Inv, TypeOK
    <3> QED
      BY <3>1, RecorderStep DEF Labels
  <2>4. CASE Finish(c)
    <3>1. Step(c, "inserting", "checking")
      BY <2>4 DEF Finish, Step, Weight, Inv, TypeOK
    <3> QED
      BY <3>1, RecorderStep DEF Labels
  <2> QED
    BY <1>2, <2>1, <2>2, <2>3, <2>4 DEF Enqueue
<1>3. ASSUME NEW o \in Others, Borrow(o) PROVE Inv'
  <2>1. Cardinality(using') = Cardinality(using) + 1
    BY <1>3, UsingFinite, FS_AddElement DEF Borrow, Inv
  <2>2. Cardinality(using) \in Nat /\ IsFiniteSet(using') /\ Cardinality(using') \in Nat
    BY <1>3, UsingFinite, FS_AddElement, FS_RemoveElement, FS_CardinalityType DEF Borrow, Inv
  <2>3. free' + Cardinality(using') = free + Cardinality(using) /\ free' \in Nat
    BY <1>3, <2>1, <2>2 DEF Borrow, Inv, TypeOK
  <2>4. /\ UNCHANGED pc /\ using' \subseteq Others
        /\ writer' \in Recorders \cup Others \cup {None}
    BY <1>3 DEF Borrow, Inv, TypeOK
  <2> QED
    BY <2>2, <2>3, <2>4, OtherStep
<1>4. ASSUME NEW o \in Others, Return(o) PROVE Inv'
  <2>1. Cardinality(using') = Cardinality(using) - 1
    BY <1>4, UsingFinite, FS_RemoveElement DEF Return, Inv
  <2>2. Cardinality(using) \in Nat /\ IsFiniteSet(using') /\ Cardinality(using') \in Nat
    BY <1>4, UsingFinite, FS_AddElement, FS_RemoveElement, FS_CardinalityType DEF Return, Inv
  <2>3. free' + Cardinality(using') = free + Cardinality(using) /\ free' \in Nat
    BY <1>4, <2>1, <2>2 DEF Return, Inv, TypeOK
  <2>4. /\ UNCHANGED pc /\ using' \subseteq Others
        /\ writer' \in Recorders \cup Others \cup {None}
    BY <1>4 DEF Return, Inv, TypeOK
  <2> QED
    BY <2>2, <2>3, <2>4, OtherStep
<1>5. CASE UNCHANGED vars
  BY <1>5 DEF vars, Inv, TypeOK, PoolConserved, At
<1> QED
  BY <1>1, <1>2, <1>3, <1>4, <1>5 DEF Next

THEOREM InvAlways == Spec => []Inv
BY InitInv, NextInv, PTL DEF Spec

\* Who holds a connection, who waits for one and who writes keep their types.
THEOREM TypeCorrect == Spec => []TypeOK
<1>1. Inv => TypeOK
  BY DEF Inv
<1> QED
  BY <1>1, InvAlways, PTL

\* No path through recordResult and enqueueNotification loses a connection.
THEOREM ConnectionsConserved == Spec => []PoolConserved
<1>1. Inv => PoolConserved
  BY DEF Inv
<1> QED
  BY <1>1, InvAlways, PTL

\* With a connection more than there can be checks, no state is a jam, however
\* many others use the pool.  With the defaults, four and four, one is.
THEOREM SparePreventsJam ==
    ASSUME Cardinality(Recorders) < Conns
    PROVE  Spec => []PoolNeverJams
<1>1. Inv => PoolNeverJams
  <2> SUFFICES ASSUME Inv, free = 0,
                      using \cup At("begun") \cup At("writing") \cup At("inserting") = {}
               PROVE  FALSE
    BY DEF PoolNeverJams
  <2>1. Cardinality(using) = 0 /\ N("begun") = 0 /\ N("writing") = 0 /\ N("inserting") = 0
    BY FS_EmptySet DEF N
  <2>2. N("reading") \in Nat /\ N("reading") =< Cardinality(Recorders)
    BY AtFinite
  <2>3. N("reading") = Conns
    BY <2>1, <2>2 DEF Inv, PoolConserved, N
  <2>4. Cardinality(Recorders) \in Nat
    BY ActorAssumption, FS_CardinalityType
  <2> QED
    BY <2>2, <2>3, <2>4, ConnsAssumption
<1> QED
  BY <1>1, InvAlways, PTL
===============================================================================
