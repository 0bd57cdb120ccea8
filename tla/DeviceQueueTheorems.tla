------------------------ MODULE DeviceQueueTheorems ------------------------
(***************************************************************************)
(* Facts about the transactions on the device's queue that the proofs      *)
(* about the clients cite.                                                 *)
(***************************************************************************)
EXTENDS DeviceQueue, FiniteSetTheorems, WellFoundedInduction, TLAPS

\* The rows of one insert are rows, under the next keys.
LEMMA NewRowsAreRows ==
  ASSUME NEW last \in Nat, NEW n \in Nat, NEW at \in Times, NEW size \in Sizes
  PROVE  /\ NewRows(last, n, at, size) \subseteq Row
         /\ Seqs(NewRows(last, n, at, size)) = last + 1 .. last + n
         /\ \A r, s \in NewRows(last, n, at, size) : r.seq = s.seq => r = s
<1> DEFINE row(s) == [seq |-> s, at |-> at, size |-> size]
<1>1. \A s \in last + 1 .. last + n : row(s) \in Row /\ row(s).seq = s
  BY DEF Row
<1>2. NewRows(last, n, at, size) = {row(s) : s \in last + 1 .. last + n}
  BY DEF NewRows, NewSeqs
<1> HIDE DEF row
<1>3. NewRows(last, n, at, size) \subseteq Row
  BY <1>1, <1>2
<1>4. Seqs(NewRows(last, n, at, size)) = last + 1 .. last + n
  BY <1>1, <1>2 DEF Seqs
<1>5. \A r, s \in NewRows(last, n, at, size) : r.seq = s.seq => r = s
  BY <1>1, <1>2
<1>6. QED
  BY <1>3, <1>4, <1>5

\* A row the trim deletes has at least MaxQueue newer keys after it.
LEMMA TrimmedAreOldest ==
  ASSUME NEW last \in Nat, NEW rows \in SUBSET Row,
         Seqs(rows) \subseteq 1 .. last,
         NEW r \in rows \ Trimmed(rows)
  PROVE  last - r.seq >= MaxQueue
<1> DEFINE newer == {s \in Seqs(rows) : s > r.seq}
<1>1. r.seq \in 1 .. last
  BY DEF Seqs
<1>2. IsFiniteSet(r.seq + 1 .. last) /\ Cardinality(r.seq + 1 .. last) = last - r.seq
  <2> DEFINE first == r.seq + 1
  <2>1. first \in Int /\ last \in Int
    BY <1>1
  <2>2. (IF first > last THEN 0 ELSE last - first + 1) = last - r.seq
    BY <1>1
  <2> HIDE DEF first
  <2>3. /\ IsFiniteSet(first .. last)
        /\ Cardinality(first .. last) = IF first > last THEN 0 ELSE last - first + 1
    BY <2>1, FS_Interval
  <2>4. QED
    BY <2>2, <2>3 DEF first
<1>3. newer \subseteq r.seq + 1 .. last
  BY <1>1
<1>4. IsFiniteSet(newer) /\ Cardinality(newer) <= Cardinality(r.seq + 1 .. last)
  BY <1>2, <1>3, FS_Subset
<1>5. Cardinality(newer) \in Nat
  BY <1>4, FS_CardinalityType
<1>6. ~ (Cardinality(newer) < MaxQueue)
  BY DEF Trimmed
<1> HIDE DEF newer
<1>7. QED
  BY <1>1, <1>2, <1>4, <1>5, <1>6, QueueAssumption

\* A batch is a prefix of the queue in the order of the keys.
LEMMA BatchIsPrefix ==
  ASSUME NEW rows \in SUBSET Row, NEW r \in rows, NEW s \in Batch(rows),
         r.seq <= s.seq
  PROVE  r \in Batch(rows)
<1>1. s \in rows /\ \A t \in UpTo(rows, s) : Fits(rows, t)
  BY DEF Batch
<1>2. UpTo(rows, r) \subseteq UpTo(rows, s)
  BY <1>1 DEF UpTo, Row
<1>3. QED
  BY <1>1, <1>2 DEF Batch

\* A set of natural numbers that is not empty has a least element.
LEMMA SmallestNat ==
  ASSUME NEW numbers \in SUBSET Nat, numbers # {}
  PROVE  \E least \in numbers : \A n \in numbers : least <= n
<1>1. PICK least \in numbers :
        \A n \in numbers : ~ (<<n, least>> \in OpToRel(<, Nat))
  BY NatLessThanWellFounded, WFMin
<1>2. \A n \in numbers : ~ (n < least)
  BY <1>1 DEF OpToRel
<1>3. QED
  BY <1>2

\* While an event waits, a batch holds the oldest of them at least, however
\* large it is.
LEMMA BatchIsNotEmpty ==
  ASSUME NEW rows \in SUBSET Row, rows # {},
         \A r, s \in rows : r.seq = s.seq => r = s
  PROVE  Batch(rows) # {}
<1>1. Seqs(rows) \subseteq Nat /\ Seqs(rows) # {}
  BY DEF Seqs, Row
<1>2. PICK least \in Seqs(rows) : \A n \in Seqs(rows) : least <= n
  BY <1>1, SmallestNat
<1>3. PICK oldest \in rows : oldest.seq = least
  BY <1>2 DEF Seqs
<1>4. UpTo(rows, oldest) = {oldest}
  BY <1>1, <1>2, <1>3 DEF UpTo, Seqs, Row
<1>5. Fits(rows, oldest)
  BY <1>4, FS_Singleton, QueueAssumption DEF Fits
<1>6. QED
  BY <1>4, <1>5 DEF Batch

\* What stays of the table after a trim, purge or deletion has the keys that
\* stay.
LEMMA SeqsOfPart ==
  ASSUME NEW rows, NEW part \in SUBSET rows,
         \A r, s \in rows : r.seq = s.seq => r = s
  PROVE  /\ Seqs(part) \subseteq Seqs(rows)
         /\ Seqs(rows \ part) = Seqs(rows) \ Seqs(part)
BY DEF Seqs

\* The keys the trim keeps are those with fewer than MaxQueue newer ones.
LEMMA SeqsOfTrimmed ==
  ASSUME NEW rows
  PROVE  Seqs(Trimmed(rows)) =
           {e \in Seqs(rows) : Cardinality({f \in Seqs(rows) : f > e}) < MaxQueue}
<1> DEFINE newer(e) == {f \in Seqs(rows) : f > e}
<1>1. Trimmed(rows) = {r \in rows : Cardinality(newer(r.seq)) < MaxQueue}
  BY DEF Trimmed
<1> HIDE DEF newer
<1>2. Seqs(Trimmed(rows)) = {e \in Seqs(rows) : Cardinality(newer(e)) < MaxQueue}
  BY <1>1 DEF Seqs
<1>3. QED
  BY <1>2 DEF newer

=============================================================================
