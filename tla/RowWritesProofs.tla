---------------------------- MODULE RowWritesProofs ----------------------------
(* What a transaction commits is what it was asked to write, for any number of *)
(* transactions, any tables and any inputs.                                   *)
EXTENDS RowWrites, RankProofs

Open(s) == phase[s] \in {"writing", "written"}
Pending(s) == {todo[s][i] : i \in DOMAIN todo[s]}

----------------------------------------------------------------------------
(* The invariant *)

\* The uncommitted rows of two transactions can be committed in any order.
Apart(s, t) ==
    \A q \in own[s], r \in own[t] :
        /\ q.id # r.id /\ q.slot # r.slot
        /\ \A c \in rows : c.id = q.id => c.slot # r.slot

Isolation ==
    /\ Unique(rows)
    /\ \A s \in Session : Unique(Visible(s))
    /\ \A s, t \in Session : s # t => Apart(s, t)

\* Only open transactions have rows of their own, all of them requested; a row
\* with a new id is the only one with it.
Ownership ==
    \A s \in Session :
        /\ ~Open(s) => own[s] = {}
        /\ Open(s) => ~InputConflicts(s)
        /\ own[s] \subseteq Requested(s)
        /\ Pending(s) \subseteq Requested(s)
        /\ table # "sources" => Ids(own[s]) \cap Ids(rows) = {}

\* Sources are all written; of the others, what is not written is there.
Completeness ==
    \A s \in Session :
        /\ table = "sources" /\ Open(s) => Requested(s) \subseteq Pending(s) \cup own[s]
        /\ phase[s] = "written" => todo[s] = <<>>
        /\ table # "sources" /\ phase[s] = "written" => Requested(s) \subseteq Visible(s)

IInv == RowTypeOK /\ Isolation /\ Ownership /\ Completeness

----------------------------------------------------------------------------
(* Types and order *)

\* Requests are finite sets of rows.
LEMMA RequestsAreRows ==
  ASSUME RowTypeOK, NEW s \in Session
  PROVE  Requested(s) \subseteq Row /\ IsFiniteSet(Requested(s))
<1>1. input[s] \in Seq(Row)
  BY InputsAssumption DEF RowTypeOK
<1>2. Requested(s) \subseteq Row
  BY <1>1 DEF Requested
<1>3. PICK n \in Nat : n = Len(input[s]) /\ DOMAIN input[s] = 1..n
  BY <1>1
<1>4. [i \in 1..n |-> input[s][i]] \in Surjection(1..n, Requested(s))
  BY <1>3 DEF Surjection, Requested
<1>5. IsFiniteSet(1..n)
  BY <1>3, FS_Interval
<1> QED BY <1>2, <1>4, <1>5, FS_Surjection

\* What is sorted is all that was there (sql/futures_products.py:493,
\* sql/period_cycles.py:331).
LEMMA SortedIsWhole ==
  ASSUME RowTypeOK, NEW s \in Session, ~InputConflicts(s)
  PROVE  /\ Sorted(Requested(s)) \in Seq(Row)
         /\ {Sorted(Requested(s))[i] : i \in DOMAIN Sorted(Requested(s))} = Requested(s)
         /\ \A i, j \in DOMAIN Sorted(Requested(s)) :
                i < j => Before(Sorted(Requested(s))[i], Sorted(Requested(s))[j])
<1> DEFINE set == Requested(s)
           n == Cardinality(set)
           before == [r \in set |-> {q \in set : Before(q, r)}]
<1>1. set \subseteq Row /\ IsFiniteSet(set) /\ n \in Nat
  BY RequestsAreRows, FS_CardinalityType
<1>2. IsRanking(set, before)
  <2>1. before \in [set -> SUBSET set]
    OBVIOUS
  <2>2. \A r \in Row : r.id \in Nat /\ r.slot \in Nat
    BY DEF Row
  <2>3. \A x \in set : x \notin before[x]
    BY <1>1, <2>2 DEF Before
  <2>4. ASSUME NEW x \in set, NEW y \in set, y \in before[x], NEW z \in before[y]
        PROVE  z \in before[x]
    BY <1>1, <2>2, <2>4 DEF Before
  <2>5. ASSUME NEW x \in set, NEW y \in set, x # y
        PROVE  x \in before[y] \/ y \in before[x]
    <3>1. x.id # y.id
      BY <2>5 DEF InputConflicts
    <3> QED BY <1>1, <2>2, <3>1 DEF Before
  <2> HIDE DEF before
  <2> QED BY <2>1, <2>3, <2>4, <2>5 DEF IsRanking
<1>3. ASSUME NEW i \in 1..n
      PROVE  /\ Sorted(set)[i] \in set
             /\ Cardinality(before[Sorted(set)[i]]) = i - 1
  <2>1. \E x \in set : Cardinality(before[x]) = i - 1
    BY <1>1, <1>2, EveryPlaceIsTaken, ZenonT(30)
  <2>2. \E x \in set : Cardinality({q \in set : Before(q, x)}) = i - 1
    BY <2>1
  <2>3. Sorted(set)[i] = CHOOSE x \in set : Cardinality({q \in set : Before(q, x)}) = i - 1
    BY DEF Sorted
  <2> QED BY <2>2, <2>3
<1>4. DOMAIN Sorted(set) = 1..n
  BY DEF Sorted
<1>5. Sorted(set) \in Seq(Row)
  <2>1. Sorted(set) = [i \in 1..n |-> CHOOSE x \in set :
                            Cardinality({q \in set : Before(q, x)}) = i - 1]
    BY DEF Sorted
  <2>2. \A i \in 1..n : Sorted(set)[i] \in Row
    BY <1>1, <1>3
  <2>3. Sorted(set) \in [1..n -> Row]
    BY <2>1, <2>2
  <2> HIDE DEF set, n, before
  <2> QED BY <1>1, <2>3
<1>6. ASSUME NEW x \in set PROVE \E i \in 1..n : Sorted(set)[i] = x
  <2>1. PICK i \in 1..n : Cardinality(before[x]) = i - 1
    <3>1. Cardinality(before[x]) \in 0..n - 1
      BY <1>1, <1>2, RankIsSmall
    <3>2. ASSUME NEW k \in 0..n - 1 PROVE \E i \in 1..n : k = i - 1
      <4>1. k + 1 \in 1..n /\ k = (k + 1) - 1
        BY <1>1
      <4> QED BY <4>1
    <3> QED BY <3>1, <3>2
  <2>2. Cardinality(before[Sorted(set)[i]]) = Cardinality(before[x]) /\ Sorted(set)[i] \in set
    BY <1>3, <2>1
  <2>3. Sorted(set)[i] = x
    BY <1>1, <1>2, <2>2, RankIsUnique
  <2> QED BY <2>3
<1>7. ASSUME NEW i \in 1..n, NEW j \in 1..n, i < j
      PROVE  Before(Sorted(set)[i], Sorted(set)[j])
  <2>1. /\ Sorted(set)[i] \in set /\ Cardinality(before[Sorted(set)[i]]) = i - 1
        /\ Sorted(set)[j] \in set /\ Cardinality(before[Sorted(set)[j]]) = j - 1
    BY <1>3
  <2>2. Sorted(set)[i] # Sorted(set)[j] /\ ~(j - 1 < i - 1)
    BY <1>1, <1>7, <2>1
  <2> HIDE DEF before
  <2>3. Sorted(set)[j] \notin before[Sorted(set)[i]]
    BY <1>1, <1>2, <2>1, <2>2, RankGrows
  <2>4. Sorted(set)[i] \in before[Sorted(set)[j]]
    BY <1>2, <2>1, <2>2, <2>3 DEF IsRanking
  <2> QED BY <2>1, <2>4 DEF before
<1> QED BY <1>3, <1>4, <1>5, <1>6, <1>7

\* Every step keeps the types.
LEMMA TypeStep ==
  ASSUME IInv, NEW s \in Session, Step(s) \/ Crash(s)
  PROVE  RowTypeOK'
<1> USE DEF RowTypeOK
<1>0. RowTypeOK
  BY DEF IInv
<1>1. ASSUME NEW why \in {"conflict", "absent", "violation", "cancelled", "failed"},
             Fail(s, why), UNCHANGED <<table, rows, input>>
      PROVE  RowTypeOK'
  BY <1>0, <1>1 DEF Fail
<1>2. CASE Normalise(s)
  <2>1. CASE InputConflicts(s)
    BY <1>1, <1>2, <2>1 DEF Normalise
  <2>2. CASE ~InputConflicts(s)
    BY <1>0, <1>2, <2>2, SortedIsWhole DEF Normalise
  <2> QED BY <2>1, <2>2
<1>3. CASE SkipRow(s)
  BY <1>0, <1>3 DEF SkipRow
<1>4. CASE PutRow(s)
  <2>1. todo[s] \in Seq(Row) /\ todo[s] # <<>> /\ Head(todo[s]) \in Row /\ Tail(todo[s]) \in Seq(Row)
    BY <1>0, <1>4 DEF PutRow
  <2>2. own' \in [Session -> SUBSET Row]
    BY <1>0, <1>4, <2>1 DEF PutRow
  <2> QED BY <1>0, <1>4, <2>1, <2>2 DEF PutRow
<1>5. CASE UniqueViolation(s)
  BY <1>1, <1>5 DEF UniqueViolation
<1>6. CASE CancelDeadlocked(s)
  BY <1>1, <1>6 DEF CancelDeadlocked
<1>7. CASE ReadBack(s)
  <2>1. Compared(s) \in {"written", "conflict", "absent"}
    BY DEF Compared
  <2>2. CASE Compared(s) = "written"
    BY <1>0, <1>7, <2>2 DEF ReadBack
  <2>3. CASE Compared(s) # "written"
    BY <1>1, <1>7, <2>1, <2>3 DEF ReadBack
  <2> QED BY <2>2, <2>3
<1>8. CASE Commit(s)
  <2>1. Visible(s) \subseteq Row
    BY <1>0 DEF Visible, Overlay
  <2> QED BY <1>0, <1>8, <2>1 DEF Commit
<1>9. CASE Crash(s)
  BY <1>1, <1>9 DEF Crash
<1> QED BY <1>2, <1>3, <1>4, <1>5, <1>6, <1>7, <1>8, <1>9 DEF Step

----------------------------------------------------------------------------
(* Steps that change no row *)

\* A transaction that is rolled back leaves nothing (sql/postgres.py:270-308).
LEMMA FailStep ==
  ASSUME IInv, NEW s \in Session, NEW why, why \notin {"writing", "written"},
         Fail(s, why), UNCHANGED <<table, rows, input>>
  PROVE  Isolation' /\ Ownership' /\ Completeness'
<1> USE DEF IInv, RowTypeOK, Fail
<1>1. /\ own'[s] = {} /\ todo'[s] = <<>> /\ phase'[s] = why
      /\ \A t \in Session \ {s} :
            own'[t] = own[t] /\ todo'[t] = todo[t] /\ phase'[t] = phase[t]
  OBVIOUS
<1>2. \A t : Requested(t)' = Requested(t) /\ InputConflicts(t)' = InputConflicts(t)
  BY DEF Requested, InputConflicts
<1>3. Visible(s)' = rows /\ \A t \in Session \ {s} : Visible(t)' = Visible(t)
  BY <1>1 DEF Visible, Overlay, Ids
<1>4. Isolation'
  <2>1. \A t, u \in Session : t # u => Apart(t, u)'
    BY <1>1 DEF Isolation, Apart
  <2> QED BY <1>3, <2>1 DEF Isolation
<1>5. \A t \in Session \ {s} : Pending(t)' = Pending(t) /\ Open(t)' = Open(t)
  BY <1>1 DEF Pending, Open
<1>6. Pending(s)' = {} /\ ~Open(s)' /\ Ids(own'[s]) = {}
  BY <1>1 DEF Pending, Open, Ids
<1>7. Ownership'
  BY <1>1, <1>2, <1>5, <1>6 DEF Ownership
<1>8. Completeness'
  BY <1>1, <1>2, <1>3, <1>5, <1>6 DEF Completeness
<1> QED BY <1>4, <1>7, <1>8

\* Steps of one transaction that leave the rows alone leave the others' alone.
LEMMA RowsStay ==
  ASSUME IInv, UNCHANGED <<table, rows, input, own>>
  PROVE  /\ Isolation'
         /\ \A t : /\ Requested(t)' = Requested(t) /\ InputConflicts(t)' = InputConflicts(t)
                   /\ Visible(t)' = Visible(t)
BY DEF IInv, Isolation, Apart, Unique, Requested, InputConflicts, Visible, Overlay, Ids

\* Normalised, a write still has everything before it.
LEMMA NormaliseStep ==
  ASSUME IInv, NEW s \in Session, Normalise(s), ~InputConflicts(s)
  PROVE  Isolation' /\ Ownership' /\ Completeness'
<1> USE DEF IInv, RowTypeOK, Normalise
<1>1. /\ phase'[s] = "writing" /\ todo'[s] = Sorted(Requested(s)) /\ phase[s] = "called"
      /\ \A t \in Session \ {s} : todo'[t] = todo[t] /\ phase'[t] = phase[t]
      /\ UNCHANGED <<table, rows, input, own>>
  OBVIOUS
<1>2. Pending(s)' = Requested(s)
  BY <1>1, SortedIsWhole DEF Pending
<1>3. \A t \in Session \ {s} : Pending(t)' = Pending(t) /\ Open(t)' = Open(t)
  BY <1>1 DEF Pending, Open
<1>4. own[s] = {} /\ Open(s)'
  BY <1>1 DEF Ownership, Open
<1>5. Isolation' /\ \A t : /\ Requested(t)' = Requested(t) /\ Visible(t)' = Visible(t)
                            /\ InputConflicts(t)' = InputConflicts(t)
  BY <1>1, RowsStay
<1>6. Ownership /\ Completeness
  OBVIOUS
<1> HIDE DEF IInv, RowTypeOK, Normalise
<1>7. Ownership'
  BY <1>1, <1>2, <1>3, <1>4, <1>5, <1>6 DEF Ownership
<1>8. Completeness'
  BY <1>1, <1>2, <1>3, <1>5, <1>6 DEF Completeness
<1> QED BY <1>5, <1>7, <1>8

\* Skipped is only what is there, and sources are never skipped
\* (sql/period_cycles.py:344, sql/futures_contracts.py:448).
LEMMA SkipStep ==
  ASSUME IInv, NEW s \in Session, SkipRow(s)
  PROVE  Isolation' /\ Ownership' /\ Completeness'
<1> USE DEF IInv, RowTypeOK, SkipRow
<1>1. /\ todo'[s] = Tail(todo[s]) /\ phase[s] = "writing" /\ todo[s] # <<>>
      /\ \A t \in Session \ {s} : todo'[t] = todo[t]
      /\ UNCHANGED <<table, rows, input, own, phase>>
  OBVIOUS
<1>2. table # "sources"
  BY DEF DoesNothing
<1>3. Pending(s)' \subseteq Pending(s)
  BY <1>1 DEF Pending
<1>4. \A t \in Session : Open(t)' = Open(t)
  BY <1>1 DEF Open
<1>5. \A t \in Session \ {s} : Pending(t)' = Pending(t)
  BY <1>1 DEF Pending
<1>6. Isolation' /\ \A t : /\ Requested(t)' = Requested(t) /\ Visible(t)' = Visible(t)
                            /\ InputConflicts(t)' = InputConflicts(t)
  BY <1>1, RowsStay
<1>7. Ownership /\ Completeness
  OBVIOUS
<1> HIDE DEF IInv, RowTypeOK, SkipRow
<1>8. Ownership'
  BY <1>1, <1>3, <1>4, <1>5, <1>6, <1>7 DEF Ownership
<1>9. Completeness'
  BY <1>1, <1>2, <1>4, <1>5, <1>6, <1>7 DEF Completeness
<1> QED BY <1>6, <1>8, <1>9

\* What is compared is everything that was requested
\* (sql/period_cycles.py:356-392, sql/futures_contracts.py:470-493).
LEMMA ReadBackStep ==
  ASSUME IInv, NEW s \in Session, ReadBack(s), Compared(s) = "written"
  PROVE  Isolation' /\ Ownership' /\ Completeness'
<1> USE DEF IInv, RowTypeOK, ReadBack
<1>1. /\ phase'[s] = "written" /\ todo[s] = <<>> /\ phase[s] = "writing"
      /\ \A t \in Session \ {s} : phase'[t] = phase[t]
      /\ UNCHANGED <<table, rows, input, own, todo>>
  OBVIOUS
<1>2. Requested(s) \subseteq Visible(s)
  BY DEF Compared
<1>3. \A t \in Session : Pending(t)' = Pending(t) /\ Open(t)' = Open(t)
  BY <1>1 DEF Pending, Open
<1> QED BY <1>1, <1>2, <1>3, RowsStay DEF Ownership, Completeness

----------------------------------------------------------------------------
(* Steps that change rows *)

\* The row that is put clashes with no row of another transaction: for theirs it
\* would have waited, and they could not have written over its slot
\* (sql/futures_products.py:474-500, sql/migrations/001_initial_refdata.sql:159).
LEMMA PutIsApart ==
  ASSUME IInv, NEW s \in Session, PutRow(s), NEW t \in Session, t # s,
         NEW q \in own[t]
  PROVE  LET r == Head(todo[s])
         IN  /\ q.id # r.id /\ q.slot # r.slot
             /\ \A c \in rows : c.id = q.id => c.slot # r.slot
             /\ \A c \in rows : c.id = r.id => c.slot # q.slot
<1> DEFINE r == Head(todo[s])
<1>1. /\ q.id # r.id /\ q.slot # r.slot
      /\ \A c \in rows : c.id = q.id => c.slot # r.slot
      /\ \A p \in own[t] : p.id # r.id
  BY DEF PutRow, Obstacles
<1>2. ASSUME NEW c \in rows, c.id = r.id, c.slot = q.slot
      PROVE  FALSE
  <2>1. c \in Visible(t) /\ q \in Visible(t)
    BY <1>1, <1>2 DEF Visible, Overlay, Ids
  <2>2. Unique(Visible(t))
    BY DEF IInv, Isolation
  <2>3. c = q
    BY <1>2, <2>1, <2>2 DEF Unique
  <2> QED BY <1>1, <1>2, <2>3
<1> QED BY <1>1, <1>2

\* What becomes visible to the transaction is without clashes.
LEMMA PutIsUnique ==
  ASSUME IInv, NEW s \in Session, PutRow(s)
  PROVE  /\ own'[s] = {q \in own[s] : q.id # Head(todo[s]).id} \cup {Head(todo[s])}
         /\ Unique(Visible(s)')
         /\ Visible(s)' = {q \in Visible(s) : q.id # Head(todo[s]).id} \cup {Head(todo[s])}
<1> DEFINE r == Head(todo[s])
<1>1. own'[s] = {q \in own[s] : q.id # r.id} \cup {r} /\ rows' = rows
  BY DEF PutRow, IInv, RowTypeOK
<1>2. Visible(s)' = {q \in Visible(s) : q.id # r.id} \cup {r}
  <2> HIDE DEF r
  <2> QED BY <1>1 DEF Visible, Overlay, Ids
<1>3. \A q \in Visible(s) : q.slot = r.slot => q.id = r.id
  BY DEF PutRow, SlotTaken
<1>4. Unique(Visible(s))
  BY DEF IInv, Isolation
<1>5. Unique(Visible(s)')
  <2> HIDE DEF r
  <2> QED BY <1>2, <1>3, <1>4 DEF Unique
<1> QED BY <1>1, <1>2, <1>5

\* The first of the pending rows, and the others.
LEMMA PendingSplits ==
  ASSUME RowTypeOK, NEW s \in Session, todo[s] # <<>>
  PROVE  /\ Head(todo[s]) \in Pending(s)
         /\ {Tail(todo[s])[i] : i \in DOMAIN Tail(todo[s])} \subseteq Pending(s)
         /\ Pending(s) \subseteq {Head(todo[s])}
                \cup {Tail(todo[s])[i] : i \in DOMAIN Tail(todo[s])}
<1>1. PICK n \in Nat : n = Len(todo[s]) /\ n >= 1 /\ DOMAIN todo[s] = 1..n
  BY DEF RowTypeOK
<1>2. /\ Head(todo[s]) = todo[s][1]
      /\ DOMAIN Tail(todo[s]) = 1..n - 1
      /\ \A i \in 1..n - 1 : Tail(todo[s])[i] = todo[s][i + 1]
  BY <1>1 DEF RowTypeOK
<1>3. ASSUME NEW i \in 2..n PROVE todo[s][i] = Tail(todo[s])[i - 1] /\ i - 1 \in 1..n - 1
  BY <1>1, <1>2
<1>4. \A i \in 1..n - 1 : i + 1 \in 1..n
  BY <1>1
<1>5. \A i \in 1..n : i = 1 \/ i \in 2..n
  BY <1>1
<1>6. Head(todo[s]) \in Pending(s)
  BY <1>1, <1>2 DEF Pending
<1>7. ASSUME NEW i \in DOMAIN Tail(todo[s]) PROVE Tail(todo[s])[i] \in Pending(s)
  BY <1>1, <1>2, <1>4, <1>7 DEF Pending
<1>8. ASSUME NEW i \in DOMAIN todo[s]
      PROVE  todo[s][i] = Head(todo[s])
                \/ \E j \in DOMAIN Tail(todo[s]) : todo[s][i] = Tail(todo[s])[j]
  <2>1. CASE i = 1
    BY <1>2, <2>1
  <2>2. CASE i \in 2..n
    BY <1>2, <1>3, <2>2
  <2> QED BY <1>1, <1>5, <2>1, <2>2
<1> QED BY <1>6, <1>7, <1>8 DEF Pending

\* A statement puts its row and forgets it.
LEMMA PutStep ==
  ASSUME IInv, NEW s \in Session, PutRow(s)
  PROVE  Isolation' /\ Ownership' /\ Completeness'
<1> DEFINE r == Head(todo[s])
<1>1. RowTypeOK /\ Isolation /\ Ownership /\ Completeness
  BY DEF IInv
<1>2. /\ phase[s] = "writing" /\ todo[s] # <<>>
      /\ todo'[s] = Tail(todo[s])
      /\ \A t \in Session \ {s} : todo'[t] = todo[t] /\ own'[t] = own[t]
      /\ UNCHANGED <<table, rows, input, phase>>
  BY <1>1 DEF PutRow, RowTypeOK
<1>3. /\ own'[s] = {q \in own[s] : q.id # r.id} \cup {r}
      /\ Unique(Visible(s)')
  BY PutIsUnique
<1>4. /\ r \in Pending(s) /\ Pending(s)' \subseteq Pending(s)
      /\ Pending(s) \subseteq {r} \cup Pending(s)'
  <2>1. Pending(s)' = {Tail(todo[s])[i] : i \in DOMAIN Tail(todo[s])}
    BY <1>2 DEF Pending
  <2> QED BY <1>1, <1>2, <2>1, PendingSplits
<1>5. /\ \A t : Requested(t)' = Requested(t) /\ InputConflicts(t)' = InputConflicts(t)
      /\ \A t \in Session : Open(t)' = Open(t)
      /\ \A t \in Session \ {s} : Pending(t)' = Pending(t) /\ Visible(t)' = Visible(t)
  BY <1>2 DEF Requested, InputConflicts, Open, Pending, Visible, Overlay, Ids
<1>6. Open(s) /\ ~InputConflicts(s) /\ r \in Requested(s) /\ own[s] \subseteq Requested(s)
  BY <1>1, <1>2, <1>4 DEF Open, Ownership
<1>7. ASSUME NEW t \in Session \ {s}, NEW q \in own[t]
      PROVE  /\ q.id # r.id /\ q.slot # r.slot
             /\ \A c \in rows : c.id = q.id => c.slot # r.slot
             /\ \A c \in rows : c.id = r.id => c.slot # q.slot
  BY PutIsApart
<1> HIDE DEF r
<1>8. Isolation'
  <2>1. ASSUME NEW t \in Session \ {s} PROVE Apart(s, t)' /\ Apart(t, s)'
    <3>1. Apart(s, t) /\ Apart(t, s)
      BY <1>1 DEF Isolation
    <3> QED BY <1>2, <1>3, <1>7, <3>1 DEF Apart
  <2>2. ASSUME NEW t \in Session \ {s}, NEW u \in Session \ {s}, t # u PROVE Apart(t, u)'
    <3>1. Apart(t, u)
      BY <1>1, <2>2 DEF Isolation
    <3> QED BY <1>2, <3>1 DEF Apart
  <2>3. \A t, u \in Session : t # u => Apart(t, u)'
    BY <2>1, <2>2
  <2>4. Unique(rows') /\ \A t \in Session : Unique(Visible(t)')
    BY <1>1, <1>2, <1>3, <1>5 DEF Isolation
  <2> QED BY <2>3, <2>4 DEF Isolation
<1>9. Ownership'
  <2>1. own'[s] \subseteq Requested(s) /\ Pending(s)' \subseteq Requested(s)
    BY <1>1, <1>3, <1>4, <1>6 DEF Ownership
  <2>2. table # "sources" => Ids(own'[s]) \cap Ids(rows) = {}
    <3>1. SUFFICES ASSUME table # "sources", NEW c \in rows, c.id = r.id PROVE FALSE
      BY <1>1, <1>3 DEF Ownership, Ids
    <3>2. r.id \notin Ids(Visible(s))
      BY <3>1 DEF PutRow, DoesNothing, r
    <3> QED BY <3>1, <3>2 DEF Visible, Overlay, Ids
  <2>3. Open(s)'
    BY <1>5, <1>6
  <2> QED BY <1>1, <1>2, <1>5, <1>6, <2>1, <2>2, <2>3 DEF Ownership
<1>10. Completeness'
  <2>1. table = "sources" => Requested(s) \subseteq Pending(s)' \cup own'[s]
    <3>1. ASSUME NEW q \in own[s], q.id = r.id PROVE q = r
      BY <1>6, <3>1 DEF InputConflicts
    <3>2. table = "sources" => Requested(s) \subseteq Pending(s) \cup own[s]
      BY <1>1, <1>6 DEF Completeness
    <3> QED BY <1>3, <1>4, <3>1, <3>2
  <2> QED BY <1>1, <1>2, <1>5, <2>1 DEF Completeness
<1> QED BY <1>8, <1>9, <1>10

----------------------------------------------------------------------------
(* The commit *)

\* What a transaction commits: all it was asked for, and of the other rows none
\* is touched (sql/postgres.py:270-308).
LEMMA CommitIsWhole ==
  ASSUME IInv, NEW s \in Session, Commit(s)
  PROVE  /\ rows' = Overlay(Requested(s))
         /\ table # "sources" => rows' = rows \cup Requested(s)
         /\ Unique(rows')
<1>1. RowTypeOK /\ Isolation /\ Ownership /\ Completeness
  BY DEF IInv
<1>2. /\ phase[s] = "written" /\ rows' = Visible(s) /\ Open(s)
      /\ own[s] \subseteq Requested(s) /\ todo[s] = <<>> /\ Unique(Visible(s))
  BY <1>1 DEF Commit, Open, Ownership, Completeness, Isolation
<1>3. CASE table = "sources"
  <2>1. Pending(s) = {}
    BY <1>2 DEF Pending
  <2>2. own[s] = Requested(s)
    BY <1>1, <1>2, <1>3, <2>1 DEF Completeness
  <2> QED BY <1>2, <1>3, <2>2 DEF Visible
<1>4. CASE table # "sources"
  <2>1. Requested(s) \subseteq Visible(s)
    BY <1>1, <1>2, <1>4 DEF Completeness
  <2>2. Visible(s) = rows \cup own[s]
    BY <1>1, <1>4 DEF Ownership, Visible, Overlay, Ids
  <2>3. rows' = rows \cup Requested(s)
    BY <1>2, <2>1, <2>2
  <2>4. ASSUME NEW c \in rows, NEW q \in Requested(s), c.id = q.id PROVE c \in Requested(s)
    BY <1>2, <2>1, <2>2, <2>4 DEF Unique
  <2>5. Overlay(Requested(s)) = rows \cup Requested(s)
    BY <2>4 DEF Overlay, Ids
  <2> QED BY <1>2, <2>3, <2>5
<1> QED BY <1>3, <1>4

\* The other transactions go on with what is committed now.
LEMMA CommitStep ==
  ASSUME IInv, NEW s \in Session, Commit(s)
  PROVE  Isolation' /\ Ownership' /\ Completeness'
<1>1. RowTypeOK /\ Isolation /\ Ownership /\ Completeness
  BY DEF IInv
<1>2. /\ rows' = Visible(s)
      /\ own'[s] = {} /\ phase'[s] = "committed"
      /\ phase[s] = "written" /\ todo[s] = <<>>
      /\ \A t \in Session \ {s} : own'[t] = own[t] /\ phase'[t] = phase[t]
      /\ UNCHANGED <<table, input, todo>>
  BY <1>1 DEF Commit, RowTypeOK, Completeness
<1>3. \A c \in rows' : c \in own[s] \/ (c \in rows /\ c.id \notin Ids(own[s]))
  <2>1. Visible(s) = {c \in rows : c.id \notin Ids(own[s])} \cup own[s]
    BY DEF Visible, Overlay
  <2>2. rows' = {c \in rows : c.id \notin Ids(own[s])} \cup own[s]
    BY <1>2, <2>1
  <2> QED BY <2>2
<1>4. ASSUME NEW t \in Session \ {s}
      PROVE  Unique(Visible(t)')
  <2>1. Apart(s, t) /\ Unique(Visible(t)) /\ Unique(Visible(s))
    BY <1>1 DEF Isolation
  <2>2. Visible(t)' = {c \in rows' : c.id \notin Ids(own[t])} \cup own[t]
    BY <1>2 DEF Visible, Overlay, Ids
  <2>3. ASSUME NEW c \in rows', NEW q \in own[t], c.id \notin Ids(own[t])
        PROVE  c.id # q.id /\ c.slot # q.slot
    <3>1. c.id # q.id
      BY <2>3 DEF Ids
    <3>2. CASE c \in own[s]
      BY <2>1, <3>1, <3>2 DEF Apart
    <3>3. CASE c \in rows
      <4>1. c \in Visible(t) /\ q \in Visible(t)
        BY <2>3, <3>3 DEF Visible, Overlay
      <4> QED BY <2>1, <3>1, <4>1 DEF Unique
    <3> QED BY <1>3, <3>2, <3>3
  <2>4. \A p, q \in own[t] : (p.id = q.id \/ p.slot = q.slot) => p = q
    BY <2>1 DEF Unique, Visible, Overlay
  <2>5. \A p, q \in rows' : (p.id = q.id \/ p.slot = q.slot) => p = q
    BY <1>2, <2>1 DEF Unique
  <2> QED BY <2>2, <2>3, <2>4, <2>5 DEF Unique
<1>5. ASSUME NEW t \in Session, NEW u \in Session, t # u
      PROVE  Apart(t, u)'
  <2>1. CASE t = s \/ u = s
    BY <1>2, <2>1 DEF Apart
  <2>2. CASE t # s /\ u # s
    <3>1. Apart(t, u) /\ Apart(s, t)
      BY <1>1, <1>5, <2>2 DEF Isolation
    <3>2. own'[t] = own[t] /\ own'[u] = own[u]
      BY <1>2, <2>2
    <3> QED BY <1>3, <3>1, <3>2 DEF Apart
  <2> QED BY <2>1, <2>2
<1>6. Visible(s)' = rows' /\ Unique(rows')
  BY <1>1, <1>2 DEF Visible, Overlay, Ids, Isolation
<1>7. Isolation'
  BY <1>4, <1>5, <1>6 DEF Isolation
<1>8. /\ \A t : Requested(t)' = Requested(t) /\ InputConflicts(t)' = InputConflicts(t)
      /\ \A t \in Session : Pending(t)' = Pending(t)
      /\ \A t \in Session \ {s} : Open(t)' = Open(t)
      /\ ~Open(s)' /\ Pending(s) = {}
  BY <1>2 DEF Requested, InputConflicts, Open, Pending
<1>9. ASSUME NEW t \in Session \ {s}, table # "sources"
      PROVE  Ids(own[t]) \cap Ids(rows') = {} /\ Visible(t) \subseteq Visible(t)'
  <2>1. Apart(s, t) /\ Ids(own[t]) \cap Ids(rows) = {} /\ Ids(own[s]) \cap Ids(rows) = {}
    BY <1>1, <1>9 DEF Isolation, Ownership
  <2>2. Ids(own[t]) \cap Ids(rows') = {}
    BY <1>3, <2>1 DEF Apart, Ids
  <2>3. rows \subseteq rows'
    <3>1. rows' = {c \in rows : c.id \notin Ids(own[s])} \cup own[s]
      BY <1>2 DEF Visible, Overlay
    <3>2. \A c \in rows : c.id \in Ids(rows)
      BY DEF Ids
    <3>3. \A c \in rows : c.id \notin Ids(own[s])
      BY <2>1, <3>2
    <3> QED BY <3>1, <3>3
  <2>4. own'[t] = own[t]
    BY <1>2
  <2> QED BY <2>2, <2>3, <2>4 DEF Visible, Overlay, Ids
<1>10. Ownership'
  <2>1. Ids(own'[s]) = {}
    BY <1>2 DEF Ids
  <2> QED BY <1>1, <1>2, <1>8, <1>9, <2>1 DEF Ownership
<1>11. Completeness'
  BY <1>1, <1>2, <1>8, <1>9 DEF Completeness
<1> QED BY <1>7, <1>10, <1>11

----------------------------------------------------------------------------
(* Theorems *)

\* Every step keeps the rows apart, owned and complete.
LEMMA SessionStep ==
  ASSUME IInv, NEW s \in Session, Step(s) \/ Crash(s)
  PROVE  Isolation' /\ Ownership' /\ Completeness'
<1>1. ASSUME NEW why \in {"conflict", "absent", "violation", "cancelled", "failed"},
             Fail(s, why), UNCHANGED <<table, rows, input>>
      PROVE  Isolation' /\ Ownership' /\ Completeness'
  BY <1>1, FailStep
<1>2. CASE Normalise(s)
  <2>1. CASE InputConflicts(s)
    BY <1>1, <1>2, <2>1 DEF Normalise
  <2>2. CASE ~InputConflicts(s)
    BY <1>2, <2>2, NormaliseStep
  <2> QED BY <2>1, <2>2
<1>3. CASE SkipRow(s)
  BY <1>3, SkipStep
<1>4. CASE PutRow(s)
  BY <1>4, PutStep
<1>5. CASE UniqueViolation(s)
  BY <1>1, <1>5 DEF UniqueViolation
<1>6. CASE CancelDeadlocked(s)
  BY <1>1, <1>6 DEF CancelDeadlocked
<1>7. CASE ReadBack(s)
  <2>1. Compared(s) \in {"written", "conflict", "absent"}
    BY DEF Compared
  <2>2. CASE Compared(s) = "written"
    BY <1>7, <2>2, ReadBackStep
  <2>3. CASE Compared(s) # "written"
    BY <1>1, <1>7, <2>1, <2>3 DEF ReadBack
  <2> QED BY <2>2, <2>3
<1>8. CASE Commit(s)
  BY <1>8, CommitStep
<1>9. CASE Crash(s)
  BY <1>1, <1>9 DEF Crash
<1> QED BY <1>2, <1>3, <1>4, <1>5, <1>6, <1>7, <1>8, <1>9 DEF Step

\* At first no transaction has written anything.
LEMMA StartIsWhole ==
  ASSUME RowInit
  PROVE  IInv
<1>1. RowTypeOK
  <2>1. rows \subseteq Row
    BY InitialAssumption DEF RowInit
  <2>2. <<>> \in Seq(Row)
    OBVIOUS
  <2> QED BY <2>1, <2>2 DEF RowInit, RowTypeOK
<1>2. /\ Unique(rows)
      /\ \A s \in Session : /\ own[s] = {} /\ todo[s] = <<>> /\ ~Open(s)
                            /\ phase[s] # "written"
  BY InitialAssumption DEF RowInit, Open
<1>3. \A s \in Session : Visible(s) = rows /\ Pending(s) = {} /\ Ids(own[s]) = {}
  BY <1>2 DEF Visible, Overlay, Ids, Pending
<1> QED BY <1>1, <1>2, <1>3 DEF IInv, Isolation, Apart, Ownership, Completeness

\* The invariant stays when nothing happens.
LEMMA StutterIsWhole ==
  ASSUME IInv, UNCHANGED rowVars
  PROVE  IInv'
<1>1. UNCHANGED <<table, rows, input, phase, todo, own>>
  BY DEF rowVars
<1>2. RowTypeOK'
  BY <1>1 DEF IInv, RowTypeOK
<1>3. \A s : Pending(s)' = Pending(s) /\ Open(s)' = Open(s)
  BY <1>1 DEF Pending, Open
<1>4. Ownership /\ Completeness
  BY DEF IInv
<1>5. Ownership' /\ Completeness'
  BY <1>1, <1>3, <1>4, RowsStay DEF Ownership, Completeness
<1> QED BY <1>1, <1>2, <1>5, RowsStay DEF IInv

\* The invariant is inductive.
THEOREM RowInvariant == RowSpec => []IInv
<1>1. RowInit => IInv
  BY StartIsWhole
<1>2. ASSUME IInv, RowNext PROVE IInv'
  BY <1>2, TypeStep, SessionStep DEF RowNext, IInv
<1>3. IInv /\ [RowNext]_rowVars => IInv'
  BY <1>2, StutterIsWhole
<1> QED BY <1>1, <1>3, PTL DEF RowSpec

\* The rows and the states of all transactions are typed.
THEOREM RowTypeCorrect == RowSpec => []RowTypeOK
<1>1. IInv => RowTypeOK
  BY DEF IInv
<1> QED BY <1>1, RowInvariant, PTL

\* Whatever other transactions commit between its statements, its comparison and
\* its commit, a transaction commits all of its input, replaces sources only and
\* leaves ids and slots unique (sql/period_cycles.py:238-393,
\* sql/futures_products.py:368-517, sql/futures_contracts.py:378-494).
THEOREM TransactionsCommitWhole == RowSpec => CommitsAreWhole
<1> DEFINE Whole(s) == /\ rows' = Overlay(Requested(s))
                       /\ table # "sources" => rows' = rows \cup Requested(s)
                       /\ Unique(rows')
           Act == \A s \in Session :
                    (phase[s] # "committed" /\ phase'[s] = "committed") => Whole(s)
<1>1. ASSUME IInv, RowNext PROVE Act
  <2>1. PICK t \in Session : Step(t) \/ Crash(t)
    BY <1>1 DEF RowNext
  <2>2. ASSUME NEW s \in Session, phase[s] # "committed", phase'[s] = "committed"
        PROVE  Commit(s)
    <3> USE <1>1, <2>1, <2>2 DEF IInv, RowTypeOK
    <3>1. CASE Commit(t)
      BY <3>1 DEF Commit
    <3>2. ASSUME NEW why \in {"conflict", "absent", "violation", "cancelled", "failed"},
                 Fail(t, why)
          PROVE  FALSE
      BY <3>2 DEF Fail
    <3>3. CASE Normalise(t)
      BY <3>2, <3>3 DEF Normalise
    <3>4. CASE SkipRow(t) \/ PutRow(t)
      BY <3>4 DEF SkipRow, PutRow
    <3>5. CASE UniqueViolation(t) \/ CancelDeadlocked(t) \/ Crash(t)
      BY <3>2, <3>5 DEF UniqueViolation, CancelDeadlocked, Crash
    <3>6. CASE ReadBack(t)
      BY <3>2, <3>6 DEF ReadBack, Compared
    <3> QED BY <3>1, <3>3, <3>4, <3>5, <3>6 DEF Step
  <2> QED BY <1>1, <2>2, CommitIsWhole
<1>2. IInv /\ [RowNext]_rowVars => [Act]_rowVars
  BY <1>1
<1>3. RowSpec => [][Act]_rowVars
  BY <1>2, RowInvariant, PTL DEF RowSpec
<1> QED BY <1>3 DEF CommitsAreWhole

----------------------------------------------------------------------------
(* Why writes are refused *)

\* Statements are executed in the order of the rows.
InOrder ==
    \A s \in Session :
        /\ \A q \in own[s], r \in Pending(s) : Before(q, r)
        /\ \A i, j \in DOMAIN todo[s] : i < j => Before(todo[s][i], todo[s][j])

\* A row that was passed over has met one with its id or its position.
Met(s, r) ==
    \E q \in Visible(s) : q.id = r.id \/ (table = "memberships" /\ q.slot = r.slot)

PassedRowsMet ==
    \A s \in Session : table # "sources" /\ Open(s) =>
        \A r \in Requested(s) : r \in Pending(s) \/ Met(s, r)

WInv == IInv /\ InOrder /\ PassedRowsMet

\* A transaction that is rolled back has nothing left to write.
LEMMA FailKeepsOrder ==
  ASSUME WInv, NEW s \in Session, NEW why, why \notin {"writing", "written"},
         Fail(s, why), UNCHANGED <<table, rows, input>>
  PROVE  InOrder' /\ PassedRowsMet'
<1>1. /\ own'[s] = {} /\ todo'[s] = <<>> /\ phase'[s] = why
      /\ \A t \in Session \ {s} :
            own'[t] = own[t] /\ todo'[t] = todo[t] /\ phase'[t] = phase[t]
  BY DEF WInv, IInv, RowTypeOK, Fail
<1>2. ~Open(s)' /\ Pending(s)' = {}
  BY <1>1 DEF Open, Pending
<1>3. \A t \in Session \ {s} : /\ Pending(t)' = Pending(t) /\ Open(t)' = Open(t)
                               /\ Visible(t)' = Visible(t) /\ Requested(t)' = Requested(t)
  BY <1>1 DEF Pending, Open, Visible, Overlay, Ids, Requested
<1>4. InOrder'
  BY <1>1, <1>2, <1>3 DEF WInv, InOrder, Before
<1>5. PassedRowsMet'
  BY <1>2, <1>3 DEF WInv, PassedRowsMet, Met
<1> QED BY <1>4, <1>5

LEMMA NormaliseKeepsOrder ==
  ASSUME WInv, NEW s \in Session, Normalise(s), ~InputConflicts(s)
  PROVE  InOrder' /\ PassedRowsMet'
<1>1. /\ phase'[s] = "writing" /\ todo'[s] = Sorted(Requested(s)) /\ phase[s] = "called"
      /\ \A t \in Session \ {s} : todo'[t] = todo[t] /\ phase'[t] = phase[t]
      /\ UNCHANGED <<table, rows, input, own>>
  BY DEF WInv, IInv, RowTypeOK, Normalise
<1>2. RowTypeOK /\ own[s] = {}
  BY <1>1 DEF WInv, IInv, Ownership, Open
<1>3. /\ Pending(s)' = Requested(s)
      /\ \A i, j \in DOMAIN todo'[s] : i < j => Before(todo'[s][i], todo'[s][j])
  BY <1>1, <1>2, SortedIsWhole DEF Pending
<1>4. \A t \in Session \ {s} : /\ Pending(t)' = Pending(t) /\ Open(t)' = Open(t)
                               /\ Visible(t)' = Visible(t) /\ Requested(t)' = Requested(t)
  BY <1>1 DEF Pending, Open, Visible, Overlay, Ids, Requested
<1>5. InOrder'
  BY <1>1, <1>2, <1>3, <1>4 DEF WInv, InOrder, Before
<1>6. Requested(s)' = Requested(s)
  BY <1>1 DEF Requested
<1>7. PassedRowsMet'
  BY <1>1, <1>3, <1>4, <1>6 DEF WInv, PassedRowsMet, Met
<1> QED BY <1>5, <1>7

\* The rest of the rows is in the order they were in, and after the first.
LEMMA RestIsInOrder ==
  ASSUME WInv, NEW s \in Session, todo[s] # <<>>
  PROVE  /\ \A i, j \in DOMAIN Tail(todo[s]) :
                i < j => Before(Tail(todo[s])[i], Tail(todo[s])[j])
         /\ \A i \in DOMAIN Tail(todo[s]) : Before(Head(todo[s]), Tail(todo[s])[i])
<1>1. todo[s] \in Seq(Row)
  BY DEF WInv, IInv, RowTypeOK
<1>2. PICK n \in Nat : n = Len(todo[s]) /\ n >= 1 /\ DOMAIN todo[s] = 1..n
  BY <1>1
<1>3. /\ Head(todo[s]) = todo[s][1]
      /\ DOMAIN Tail(todo[s]) = 1..n - 1
      /\ \A i \in 1..n - 1 : Tail(todo[s])[i] = todo[s][i + 1]
  BY <1>1, <1>2
<1>4. \A i, j \in 1..n : i < j => Before(todo[s][i], todo[s][j])
  BY <1>2 DEF WInv, InOrder
<1>5. \A i, j \in 1..n - 1 : /\ i + 1 \in 1..n /\ 1 < i + 1 /\ 1 \in 1..n
                             /\ i < j => i + 1 < j + 1
  BY <1>2
<1> QED BY <1>3, <1>4, <1>5

\* A row is passed over because of what it met, or put where it is met.
LEMMA StatementKeepsOrder ==
  ASSUME WInv, NEW s \in Session, SkipRow(s) \/ PutRow(s)
  PROVE  InOrder' /\ PassedRowsMet'
<1> DEFINE r == Head(todo[s])
<1>1. RowTypeOK /\ InOrder /\ PassedRowsMet
  BY DEF WInv, IInv
<1>2. /\ phase[s] = "writing" /\ todo[s] # <<>> /\ todo'[s] = Tail(todo[s])
      /\ \A t \in Session \ {s} : todo'[t] = todo[t] /\ own'[t] = own[t]
      /\ UNCHANGED <<table, rows, input, phase>>
  BY <1>1 DEF SkipRow, PutRow, RowTypeOK
<1>3. /\ r \in Pending(s)
      /\ Pending(s)' \subseteq Pending(s)
      /\ Pending(s) \subseteq {r} \cup Pending(s)'
      /\ \A q \in Pending(s)' : Before(r, q)
      /\ \A i, j \in DOMAIN todo'[s] : i < j => Before(todo'[s][i], todo'[s][j])
  <2>1. Pending(s)' = {Tail(todo[s])[i] : i \in DOMAIN Tail(todo[s])}
    BY <1>2 DEF Pending
  <2> QED BY <1>1, <1>2, <2>1, PendingSplits, RestIsInOrder
<1>4. /\ \A t : Requested(t)' = Requested(t)
      /\ \A t \in Session : Open(t)' = Open(t)
      /\ \A t \in Session \ {s} : Pending(t)' = Pending(t) /\ Visible(t)' = Visible(t)
  BY <1>2 DEF Requested, Open, Pending, Visible, Overlay, Ids
<1>5. own'[s] \subseteq own[s] \cup {r}
  <2>1. CASE SkipRow(s)
    BY <2>1 DEF SkipRow
  <2>2. CASE PutRow(s)
    BY <2>2, PutIsUnique DEF WInv
  <2> QED BY <2>1, <2>2
<1>6. table # "sources" => \A q \in Requested(s) :
            (Met(s, q) => Met(s, q)') /\ (q = r => Met(s, q)')
  <2>1. CASE SkipRow(s)
    <3>1. Visible(s)' = Visible(s)
      BY <2>1 DEF SkipRow, Visible, Overlay, Ids
    <3>2. table # "sources" => Met(s, r)
      BY <2>1 DEF SkipRow, DoesNothing, Met, Ids
    <3> QED BY <1>2, <3>1, <3>2 DEF Met
  <2>2. CASE PutRow(s)
    <3>1. Visible(s)' = {q \in Visible(s) : q.id # r.id} \cup {r}
      BY <2>2, PutIsUnique DEF WInv
    <3>2. table # "sources" => \A q \in Visible(s) : q.id # r.id
      BY <2>2 DEF PutRow, DoesNothing, Ids
    <3> HIDE DEF r
    <3> QED BY <1>2, <3>1, <3>2 DEF Met
  <2> QED BY <2>1, <2>2
<1> HIDE DEF r
<1>7. InOrder'
  <2>1. \A q, p : Before(q, p)' <=> Before(q, p)
    BY <1>2 DEF Before
  <2>2. \A q \in own'[s], p \in Pending(s)' : Before(q, p)
    BY <1>1, <1>3, <1>5 DEF InOrder
  <2> QED BY <1>1, <1>2, <1>3, <1>4, <2>1, <2>2 DEF InOrder
<1>8. PassedRowsMet'
  <2>1. ASSUME NEW t \in Session \ {s} PROVE \A q : Met(t, q)' <=> Met(t, q)
    BY <1>2, <1>4 DEF Met
  <2>2. ASSUME table # "sources", NEW q \in Requested(s), Open(s)
        PROVE  q \in Pending(s)' \/ Met(s, q)'
    BY <1>1, <1>3, <1>6, <2>2 DEF PassedRowsMet
  <2>3. ASSUME table # "sources", NEW t \in Session \ {s}, NEW q \in Requested(t), Open(t)
        PROVE  q \in Pending(t)' \/ Met(t, q)'
    BY <1>1, <1>4, <2>1, <2>3 DEF PassedRowsMet
  <2> QED BY <1>2, <1>4, <2>2, <2>3 DEF PassedRowsMet
<1> QED BY <1>7, <1>8

\* Other sessions commit rows and remove none.
LEMMA CommitKeepsOrder ==
  ASSUME WInv, IInv', NEW s \in Session, Commit(s)
  PROVE  InOrder' /\ PassedRowsMet'
<1>1. RowTypeOK /\ Isolation /\ Ownership /\ Completeness /\ InOrder /\ PassedRowsMet
  BY DEF WInv, IInv
<1>2. /\ rows' = Visible(s)
      /\ own'[s] = {} /\ phase'[s] = "committed"
      /\ phase[s] = "written" /\ todo[s] = <<>>
      /\ \A t \in Session \ {s} : own'[t] = own[t] /\ phase'[t] = phase[t]
      /\ UNCHANGED <<table, input, todo>>
  BY <1>1 DEF Commit, RowTypeOK, Completeness
<1>3. /\ \A t : Requested(t)' = Requested(t)
      /\ \A t \in Session : Pending(t)' = Pending(t)
      /\ \A t \in Session \ {s} : Open(t)' = Open(t)
      /\ ~Open(s)'
  BY <1>2 DEF Requested, Open, Pending
<1>4. InOrder'
  <2>1. \A q, p : Before(q, p)' <=> Before(q, p)
    BY <1>2 DEF Before
  <2> QED BY <1>1, <1>2, <1>3, <2>1 DEF InOrder
<1>5. ASSUME table # "sources", NEW t \in Session \ {s}, NEW r \in Requested(t), Met(t, r)
      PROVE  Met(t, r)'
  <2>1. \A c \in rows : c \in rows'
    <3>1. \A c \in rows : c.id \notin Ids(own[s])
      BY <1>1, <1>5 DEF Ownership, Ids
    <3> QED BY <1>2, <3>1 DEF Visible, Overlay
  <2>2. \A c \in rows' : c.id \notin Ids(own[t])
    <3>1. Ids(own'[t]) \cap Ids(rows') = {} /\ own'[t] = own[t]
      BY <1>2, <1>5 DEF IInv, Ownership
    <3> QED BY <3>1 DEF Ids
  <2>3. Visible(t)' = rows' \cup own[t]
    <3>1. own'[t] = own[t]
      BY <1>2
    <3> QED BY <2>2, <3>1 DEF Visible, Overlay, Ids
  <2>4. Visible(t) \subseteq Visible(t)'
    BY <2>1, <2>3 DEF Visible, Overlay
  <2> QED BY <1>2, <1>5, <2>4 DEF Met
<1>6. PassedRowsMet'
  BY <1>1, <1>2, <1>3, <1>5 DEF PassedRowsMet
<1> QED BY <1>4, <1>6

LEMMA OrderStep ==
  ASSUME WInv, IInv', NEW s \in Session, Step(s) \/ Crash(s)
  PROVE  InOrder' /\ PassedRowsMet'
<1>1. ASSUME NEW why \in {"conflict", "absent", "violation", "cancelled", "failed"},
             Fail(s, why), UNCHANGED <<table, rows, input>>
      PROVE  InOrder' /\ PassedRowsMet'
  BY <1>1, FailKeepsOrder
<1>2. CASE Normalise(s)
  <2>1. CASE InputConflicts(s)
    BY <1>1, <1>2, <2>1 DEF Normalise
  <2>2. CASE ~InputConflicts(s)
    BY <1>2, <2>2, NormaliseKeepsOrder
  <2> QED BY <2>1, <2>2
<1>3. CASE SkipRow(s) \/ PutRow(s)
  BY <1>3, StatementKeepsOrder
<1>4. CASE UniqueViolation(s) \/ CancelDeadlocked(s) \/ Crash(s)
  BY <1>1, <1>4 DEF UniqueViolation, CancelDeadlocked, Crash
<1>5. CASE ReadBack(s)
  <2>1. Compared(s) \in {"written", "conflict", "absent"}
    BY DEF Compared
  <2>2. CASE Compared(s) = "written"
    <3>1. /\ UNCHANGED <<table, rows, input, own, todo>>
          /\ phase[s] = "writing"
          /\ \A t \in Session \ {s} : phase'[t] = phase[t]
      BY <1>5, <2>2 DEF ReadBack, WInv, IInv, RowTypeOK
    <3>2. \A t : /\ Requested(t)' = Requested(t) /\ Pending(t)' = Pending(t)
                 /\ Visible(t)' = Visible(t)
      BY <3>1 DEF Requested, Pending, Visible, Overlay, Ids
    <3>3. \A t \in Session : Open(t)' => Open(t)
      BY <3>1 DEF Open
    <3>4. InOrder'
      BY <3>1, <3>2 DEF WInv, InOrder, Before
    <3>5. PassedRowsMet'
      BY <3>1, <3>2, <3>3 DEF WInv, PassedRowsMet, Met
    <3> QED BY <3>4, <3>5
  <2>3. CASE Compared(s) # "written"
    BY <1>1, <1>5, <2>1, <2>3 DEF ReadBack
  <2> QED BY <2>2, <2>3
<1>6. CASE Commit(s)
  BY <1>6, CommitKeepsOrder
<1> QED BY <1>2, <1>3, <1>4, <1>5, <1>6 DEF Step

LEMMA OrderInvariant == RowSpec => []WInv
<1>1. RowInit => InOrder /\ PassedRowsMet
  BY DEF RowInit, InOrder, Pending, PassedRowsMet, Open
<1>2. ASSUME WInv, IInv', RowNext PROVE InOrder' /\ PassedRowsMet'
  BY <1>2, OrderStep DEF RowNext
<1>3. ASSUME WInv, UNCHANGED rowVars PROVE InOrder' /\ PassedRowsMet'
  <2>1. UNCHANGED <<table, rows, input, phase, todo, own>>
    BY <1>3 DEF rowVars
  <2>2. \A t : /\ Requested(t)' = Requested(t) /\ Pending(t)' = Pending(t)
               /\ Visible(t)' = Visible(t) /\ Open(t)' = Open(t)
    BY <2>1 DEF Requested, Pending, Visible, Overlay, Ids, Open
  <2> QED BY <1>3, <2>1, <2>2 DEF WInv, InOrder, Before, PassedRowsMet, Met
<1>4. IInv /\ IInv' /\ InOrder /\ PassedRowsMet /\ [RowNext]_rowVars
        => InOrder' /\ PassedRowsMet'
  BY <1>2, <1>3 DEF WInv
<1>5. IInv /\ InOrder /\ PassedRowsMet => WInv
  BY DEF WInv
<1> QED BY <1>1, <1>4, <1>5, RowInvariant, PTL DEF RowSpec

\* Whoever waits in a circle waits for a row that its own first row disagrees
\* with; otherwise the first rows would grow all the way around.
LEMMA DeadlocksDisagree ==
  ASSUME WInv, NEW s \in Session, CancelDeadlocked(s)
  PROVE  \E r, q \in rows \cup UNION {Requested(t) : t \in Session} : Disagree(r, q)
<1> DEFINE all == rows \cup UNION {Requested(t) : t \in Session}
           first(t) == Head(todo[t])
           key(t) == IF table = "memberships" THEN first(t).slot ELSE first(t).id
<1>1. SUFFICES ASSUME \A r, q \in all : ~Disagree(r, q) PROVE FALSE
  OBVIOUS
<1>2. PICK circle \in SUBSET Session :
        /\ s \in circle
        /\ Deadlocked(circle)
        /\ \A smaller \in SUBSET circle : Deadlocked(smaller) => smaller = circle
  BY DEF CancelDeadlocked
<1>3. all \subseteq Row /\ \A r \in Row : r.id \in Nat /\ r.slot \in Nat
  BY RequestsAreRows DEF WInv, IInv, RowTypeOK, Row
<1>4. ASSUME NEW t \in circle
      PROVE  first(t) \in Pending(t) /\ first(t) \in all /\ key(t) \in Nat
  <2>1. WaitsFor(t) # {}
    BY <1>2 DEF Deadlocked
  <2>2. todo[t] # <<>>
    BY <2>1 DEF WaitsFor
  <2>3. first(t) \in Pending(t)
    BY <2>2, PendingSplits DEF WInv, IInv
  <2>4. first(t) \in all
    BY <2>3 DEF WInv, IInv, Ownership
  <2> QED BY <1>3, <2>3, <2>4
<1>5. ASSUME NEW t \in circle PROVE \E u \in circle : u \in WaitsFor(t) /\ key(t) < key(u)
  <2>1. PICK u \in circle : u \in WaitsFor(t)
    BY <1>2 DEF Deadlocked
  <2>2. PICK q \in own[u] :
          \/ q.id = first(t).id \/ q.slot = first(t).slot
          \/ \E c \in rows : c.id = q.id /\ c.slot = first(t).slot
    BY <2>1 DEF WaitsFor, Obstacles
  <2>3. q \in all /\ first(t) \in all /\ first(u) \in all
    BY <1>4 DEF WInv, IInv, Ownership
  <2>4. q.id = first(t).id /\ q.slot = first(t).slot
    <3> HIDE DEF first
    <3> QED BY <1>1, <2>2, <2>3 DEF Disagree
  <2>5. Before(q, first(u))
    BY <1>4 DEF WInv, InOrder
  <2>6. key(t) < key(u)
    <3> HIDE DEF first, all
    <3>1. table = "memberships" => q.slot # first(u).slot \/ q.id = first(u).id
      BY <1>1, <2>3 DEF Disagree
    <3> QED BY <1>3, <2>3, <2>4, <2>5, <3>1 DEF Before
  <2> QED BY <2>1, <2>6
<1> DEFINE later == {t \in circle : key(s) < key(t)}
<1> HIDE DEF key, all, first
<1>6. later # {} /\ later # circle
  BY <1>2, <1>4, <1>5
<1>7. Deadlocked(later)
  <2>1. ASSUME NEW t \in later PROVE WaitsFor(t) \cap later # {}
    <3>1. PICK u \in circle : u \in WaitsFor(t) /\ key(t) < key(u)
      BY <1>5
    <3>2. key(s) < key(u)
      BY <1>2, <1>4, <3>1
    <3> QED BY <3>1, <3>2
  <2> QED BY <1>6, <2>1 DEF Deadlocked
<1> QED BY <1>2, <1>6, <1>7

\* The comparison refuses only what disagrees with a row it finds; nothing is
\* absent, for what was passed over has met something.
LEMMA ComparisonsAreReal ==
  ASSUME WInv, NEW s \in Session, phase[s] = "writing", todo[s] = <<>>,
         Compared(s) # "written"
  PROVE  /\ Compared(s) = "conflict"
         /\ \E r \in Requested(s), q \in rows \cup Requested(s) : Disagree(r, q)
<1>1. Ownership /\ Completeness /\ PassedRowsMet /\ Open(s) /\ Pending(s) = {}
  BY DEF WInv, IInv, Open, Pending
<1>2. ~(Requested(s) \subseteq Visible(s))
  BY DEF Compared
<1>3. own[s] \subseteq Visible(s) /\ Visible(s) \subseteq rows \cup Requested(s)
  BY <1>1 DEF Visible, Overlay, Ownership
<1>4. table # "sources"
  BY <1>1, <1>2, <1>3 DEF Completeness
<1>5. PICK r \in Requested(s) : r \notin Visible(s)
  BY <1>2
<1>6. PICK q \in Visible(s) : q.id = r.id \/ (table = "memberships" /\ q.slot = r.slot)
  BY <1>1, <1>4 DEF PassedRowsMet, Met
<1>7. q # r /\ Disagree(r, q)
  BY <1>4, <1>5, <1>6 DEF Disagree
<1>8. Compared(s) = "conflict"
  BY <1>2, <1>6, <1>7 DEF Compared
<1> QED BY <1>3, <1>7, <1>8

\* A write is refused only for rows that disagree, never for the order in which
\* several writes of the same rows meet, and a deadlock needs rows that disagree:
\* every list is written in one order (sql/period_cycles.py:331,
\* sql/futures_products.py:493, sql/futures_contracts.py:421).
THEOREM WritesAreRefusedForReason == RowSpec => RefusalsAreReal
<1> DEFINE Real(s) ==
            /\ phase'[s] # "absent"
            /\ phase'[s] \in {"conflict", "violation"} =>
                  \/ \E r, q \in Requested(s) : r # q /\ r.id = q.id
                  \/ \E r \in Requested(s), q \in rows \cup Requested(s) : Disagree(r, q)
            /\ phase'[s] = "cancelled" =>
                  \E r, q \in rows \cup UNION {Requested(t) : t \in Session} :
                      Disagree(r, q)
           Act == \A s \in Session : phase'[s] # phase[s] => Real(s)
<1>1. ASSUME WInv, NEW t \in Session, Step(t) \/ Crash(t),
             NEW s \in Session, phase'[s] # phase[s]
      PROVE  Real(s)
  <2> USE <1>1 DEF WInv, IInv, RowTypeOK
  <2>1. ASSUME NEW why, Fail(t, why) PROVE s = t /\ phase'[s] = why
    BY <2>1 DEF Fail
  <2>2. CASE Normalise(t)
    <3>1. CASE InputConflicts(t)
      <4>1. s = t /\ phase'[s] = "conflict"
        BY <2>1, <2>2, <3>1 DEF Normalise
      <4>2. PICK r \in Requested(t), q \in Requested(t) :
                r # q /\ (r.id = q.id \/ r.slot = q.slot)
        BY <3>1 DEF InputConflicts
      <4> QED BY <4>1, <4>2 DEF Disagree
    <3>2. CASE ~InputConflicts(t)
      BY <2>2, <3>2 DEF Normalise
    <3> QED BY <3>1, <3>2
  <2>3. CASE SkipRow(t) \/ PutRow(t)
    BY <2>3 DEF SkipRow, PutRow
  <2>4. CASE UniqueViolation(t)
    <3>1. s = t /\ phase'[s] = "violation"
      BY <2>1, <2>4 DEF UniqueViolation
    <3>2. PICK q \in Visible(t) : q.slot = Head(todo[t]).slot /\ q.id # Head(todo[t]).id
      BY <2>4 DEF UniqueViolation, SlotTaken
    <3>3. Head(todo[t]) \in Requested(t)
      BY <2>4, PendingSplits DEF UniqueViolation, Ownership
    <3>4. q \in rows \cup Requested(t)
      BY <3>2 DEF Visible, Overlay, Ownership
    <3> QED BY <3>1, <3>2, <3>3, <3>4 DEF Disagree
  <2>5. CASE CancelDeadlocked(t)
    <3>1. s = t /\ phase'[s] = "cancelled"
      BY <2>1, <2>5 DEF CancelDeadlocked
    <3> QED BY <2>5, <3>1, DeadlocksDisagree
  <2>6. CASE ReadBack(t)
    <3>1. CASE Compared(t) = "written"
      BY <2>6, <3>1 DEF ReadBack
    <3>2. CASE Compared(t) # "written"
      <4>1. s = t /\ phase'[s] = Compared(t)
        BY <2>1, <2>6, <3>2 DEF ReadBack
      <4> QED BY <2>6, <3>2, <4>1, ComparisonsAreReal DEF ReadBack
    <3> QED BY <3>1, <3>2
  <2>7. CASE Commit(t)
    BY <2>7 DEF Commit
  <2>8. CASE Crash(t)
    BY <2>1, <2>8 DEF Crash
  <2> QED BY <1>1, <2>2, <2>3, <2>4, <2>5, <2>6, <2>7, <2>8 DEF Step
<1>2. WInv /\ [RowNext]_rowVars => [Act]_rowVars
  BY <1>1 DEF RowNext
<1>3. RowSpec => [][Act]_rowVars
  BY <1>2, OrderInvariant, PTL DEF RowSpec
<1> QED BY <1>3 DEF RefusalsAreReal

================================================================================
