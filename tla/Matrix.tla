-------------------------------- MODULE Matrix --------------------------------
(***************************************************************************)
(* The matrix: what a rotation writes.  A page of raw events is appended   *)
(* to chunks of at most CHUNK_EVENTS rows, one sequence of chunks per day  *)
(* and event name, and three summaries are kept beside them: counts per    *)
(* day and name, a bit per actor and day, and the day an actor was first   *)
(* seen.  Erasure and retention rewrite them all, and reports are computed *)
(* from the summaries.  The advisory lock makes every action below one     *)
(* transaction; who may overlap with whom outside of it is EventStore's.   *)
(***************************************************************************)
EXTENDS Integers, FiniteSets, Sequences, FiniteSetsExt, SequencesExt

CONSTANTS
  Messages,
  ExternalOf, NameOf, DayOf, MillisecondOf,  \* an event's actor, name, UTC day and time of the day
  Days,                        \* of the events; day 0 is the first of a year
  Jobs,                        \* rotation jobs at a time
  Periods,                     \* the periods <<from, to>> a report is asked for
  CHUNK_EVENTS, ROTATION_PAGE, WEEK, MONTH,
  MonthDays, YearMonths        \* the calendar, scaled down

ANONYMOUS == "*"
Erased == "erased"      \* external_id is NULL

ASSUME MatrixAssumption ==
  /\ DayOf \in [Messages -> Days] /\ Days \subseteq Nat
  /\ MillisecondOf \in [Messages -> Nat]
  /\ DOMAIN ExternalOf = Messages /\ Erased \notin Range(ExternalOf)
  /\ {CHUNK_EVENTS, ROTATION_PAGE, MonthDays, YearMonths, WEEK, MONTH} \subseteq Nat \ {0}
  /\ WEEK <= MONTH /\ Periods \subseteq Int \X Int

VARIABLES
  arrived,     \* the messages that were ever inserted
  waiting,     \* raw events ahead of the rotation's cursor, in its order
  jobs,        \* per rotation job: whether it runs, and its memo of partitions
  partitions,  \* the months clickman_chunks has a partition for
  chunks,      \* per day and name: the rows of chunk seq, for each seq in use
  counts,      \* clickman_daily_counts, or NoCount
  actors,      \* clickman_actors, in the order of their ids
  bits,        \* clickman_actor_days: per actor, the <<year, yday>> set
  held         \* history: rotated, and neither erased nor dropped since

matrixVars == <<arrived, waiting, jobs, partitions, chunks, counts, actors, bits, held>>

NoCount == [events |-> 0, actors |-> 0]
Idle == [running |-> FALSE, memo |-> {}]

MonthOf(day) == day \div MonthDays
FirstDay(month) == month * MonthDays
YearOf(day) == day \div (MonthDays * YearMonths)
YearDay(day) == (day % (MonthDays * YearMonths)) + 1
NewYear(year) == year * MonthDays * YearMonths
DayAt(bit) == NewYear(bit[1]) + bit[2] - 1
BitOf(day) == <<YearOf(day), YearDay(day)>>

Pairs == Days \X {NameOf[m] : m \in Messages}
PairOf(m) == <<DayOf[m], NameOf[m]>>
Least(S) == CHOOSE x \in S : \A y \in S : x <= y
Greatest(S) == CHOOSE x \in S : \A y \in S : x >= y

MatrixInit ==
  /\ arrived = {} /\ waiting = << >>
  /\ jobs = [j \in Jobs |-> Idle]
  /\ partitions = {}
  /\ chunks = [p \in Pairs |-> << >>]
  /\ counts = [p \in Pairs |-> NoCount]
  /\ actors = << >> /\ bits = << >>
  /\ held = {}

-----------------------------------------------------------------------------
(* The dictionary of actors.                                               *)

Known(as) == {as[i].external : i \in DOMAIN as}
IdOf(as, external) == CHOOSE i \in DOMAIN as : as[i].external = external

\* Actors of the page that are new get an id; known ones were perhaps seen
\* earlier than the store knew.
Registered(page) ==
  LET present == {ExternalOf[m] : m \in Range(page)}
      missing == SetToSeq(present \ Known(actors))
      first(e) == Least({DayOf[m] : m \in {n \in Range(page) : ExternalOf[n] = e}})
  IN [i \in DOMAIN actors |->
        IF actors[i].external \in present
        THEN [actors[i] EXCEPT !.first = Least({@, first(actors[i].external)})]
        ELSE actors[i]]
     \o [n \in DOMAIN missing |-> [external |-> missing[n], first |-> first(missing[n])]]

-----------------------------------------------------------------------------
(* Chunks.                                                                 *)

\* Places in an order: before[i] are those that precede i.
Ordered(places, before) ==
  [n \in 1 .. Cardinality(places) |-> CHOOSE i \in places : Cardinality(before[i]) = n - 1]

Ascending(S) == Ordered(S, [i \in S |-> {j \in S : j < i}])

\* What a list has at some places.
Kept(list, places) ==
  LET order == Ascending(places)
  IN [n \in DOMAIN order |-> list[order[n]]]

\* A stable sort by the time of the day.
InTimeOrder(rows) ==
  LET time(i) == MillisecondOf[rows[i].message]
      order == Ordered(DOMAIN rows,
                       [i \in DOMAIN rows |->
                          {j \in DOMAIN rows : time(j) < time(i) \/ (time(j) = time(i) /\ j < i)}])
  IN [n \in DOMAIN rows |-> rows[order[n]]]

\* each_slice(CHUNK_EVENTS).with_index(seq)
Slices(rows, seq) ==
  [n \in seq .. seq + (Len(rows) - 1) \div CHUNK_EVENTS |->
     LET before == (n - seq) * CHUNK_EVENTS
     IN SubSeq(rows, before + 1, Least({before + CHUNK_EVENTS, Len(rows)}))]

\* upsert_all, by seq
Upserted(stored, slices) ==
  [n \in DOMAIN stored \union DOMAIN slices |->
     IF n \in DOMAIN slices THEN slices[n] ELSE stored[n]]

\* Mutant: the next chunk is numbered by how many there are.
AppendedByCount(stored, rows) ==
  Upserted(stored, Slices(InTimeOrder(rows), Cardinality(DOMAIN stored)))

\* The chunks of a day and name with rows appended: a last chunk that is not
\* full is read back and topped up in place.
Appended(stored, rows) ==
  IF DOMAIN stored = {} THEN Slices(InTimeOrder(rows), 1)
  ELSE LET last == Greatest(DOMAIN stored)
       IN IF Len(stored[last]) < CHUNK_EVENTS
          THEN Upserted(stored, Slices(InTimeOrder(stored[last] \o rows), last))
          ELSE Upserted(stored, Slices(InTimeOrder(rows), last + 1))

\* Where there is a row: a chunk's seq and a place in it.
Places(stored) == UNION {{n} \X DOMAIN stored[n] : n \in DOMAIN stored}
RowAt(stored, place) == stored[place[1]][place[2]]
RowsIn(stored) == {RowAt(stored, place) : place \in Places(stored)}

\* recount: a count is computed anew from the chunks of its day and name.
Recounted(stored, as) ==
  [events |-> Cardinality(Places(stored)),
   actors |-> Cardinality({r.actor : r \in
                {row \in RowsIn(stored) : as[row.actor].external # ANONYMOUS}})]

-----------------------------------------------------------------------------
(* Rotation.                                                               *)

\* An event is inserted, and old enough to be rotated.
Ingest(m) ==
  /\ m \notin arrived
  /\ arrived' = arrived \union {m}
  /\ waiting' = Append(waiting, m)
  /\ UNCHANGED <<jobs, partitions, chunks, counts, actors, bits, held>>

\* Mutant: one store, and with it the memo, is kept from job to job.
EndedKeepingStore(j) == [running |-> FALSE, memo |-> jobs[j].memo]

\* A job has a store of its own, whose memo ends with it.
Ended(j) == Idle

StartRotation(j) ==
  /\ ~jobs[j].running
  /\ jobs' = [jobs EXCEPT ![j].running = TRUE]
  /\ UNCHANGED <<arrived, waiting, partitions, chunks, counts, actors, bits, held>>

Page == SubSeq(waiting, 1, Least({ROTATION_PAGE, Len(waiting)}))

\* Mutant: the anonymous actor is given active days.
MarkedAll(page, as) ==
  [i \in DOMAIN as |-> (IF i \in DOMAIN bits THEN bits[i] ELSE {}) \union
     {BitOf(DayOf[m]) : m \in {n \in Range(page) : ExternalOf[n] = as[i].external}}]

Marked(page, as) ==
  [i \in DOMAIN as |-> (IF i \in DOMAIN bits THEN bits[i] ELSE {}) \union
     {BitOf(DayOf[m]) : m \in {n \in Range(page) : /\ ExternalOf[n] = as[i].external
                                                   /\ ExternalOf[n] # ANONYMOUS}}]

MonthsOf(page) == {MonthOf(DayOf[m]) : m \in Range(page)}

\* The memo says that a partition is there, and retention has dropped it.
PartitionGone(j, page) == (MonthsOf(page) \intersect jobs[j].memo) \ partitions # {}

\* The rows of a page for a day and name.
RowsFor(page, as, p) ==
  LET group == Kept(page, {i \in DOMAIN page : PairOf(page[i]) = p})
  IN [n \in DOMAIN group |-> [message |-> group[n], actor |-> IdOf(as, ExternalOf[group[n]])]]

\* One page's transaction.  A page that is not full, also an empty one, is
\* the last.
RotatePage(j) ==
  LET page == Page
      as == Registered(page)
      touched == {PairOf(m) : m \in Range(page)}
  IN /\ jobs[j].running /\ ~PartitionGone(j, page)
     /\ partitions' = partitions \union MonthsOf(page)
     /\ chunks' = [p \in Pairs |->
          IF p \in touched THEN Appended(chunks[p], RowsFor(page, as, p)) ELSE chunks[p]]
     /\ actors' = as
     /\ bits' = Marked(page, as)
     /\ counts' = [p \in Pairs |-> IF p \in touched THEN Recounted(chunks'[p], as)
                                   ELSE counts[p]]
     /\ held' = held \union Range(page)
     /\ waiting' = SubSeq(waiting, Len(page) + 1, Len(waiting))
     /\ jobs' = IF Len(page) < ROTATION_PAGE THEN [jobs EXCEPT ![j] = Ended(j)]
                ELSE [jobs EXCEPT ![j].memo = @ \union MonthsOf(page)]
     /\ UNCHANGED arrived

\* The page's insert finds no partition: its transaction is rolled back and
\* the job fails.
PageFails(j) ==
  /\ jobs[j].running /\ PartitionGone(j, Page)
  /\ jobs' = [jobs EXCEPT ![j] = Ended(j)]
  /\ UNCHANGED <<arrived, waiting, partitions, chunks, counts, actors, bits, held>>

\* Another session has the lock, or the job dies.
StopRotation(j) ==
  /\ jobs[j].running
  /\ jobs' = [jobs EXCEPT ![j] = Ended(j)]
  /\ UNCHANGED <<arrived, waiting, partitions, chunks, counts, actors, bits, held>>

-----------------------------------------------------------------------------
(* Erasure and retention.                                                  *)

Without(rows, i) == Kept(rows, {n \in DOMAIN rows : rows[n].actor # i})

\* The chunks of a day and name without an actor; an empty one is deleted.
Forgotten(stored, i) ==
  [n \in {k \in DOMAIN stored : Without(stored[k], i) # << >>} |-> Without(stored[n], i)]

ActiveDays(i) == {DayAt(b) : b \in bits[i]}

CountsAfter(touched, stored) ==
  [p \in Pairs |-> IF p \in touched THEN Recounted(stored[p], actors) ELSE counts[p]]

\* erase!: the raw rows, then, for an actor that is known, its rows in the
\* chunks of its active days.  The id stays as a tombstone.
Erase(external) ==
  /\ external # ANONYMOUS
  /\ waiting' = Kept(waiting, {n \in DOMAIN waiting : ExternalOf[waiting[n]] # external})
  /\ IF external \in Known(actors)
     THEN LET i == IdOf(actors, external)
              touched == {p \in Pairs : p[1] \in ActiveDays(i)
                                        /\ \E r \in RowsIn(chunks[p]) : r.actor = i}
          IN /\ chunks' = [p \in Pairs |-> IF p \in touched THEN Forgotten(chunks[p], i)
                                           ELSE chunks[p]]
             /\ counts' = CountsAfter(touched, chunks')
             /\ bits' = [bits EXCEPT ![i] = {}]
             /\ actors' = [actors EXCEPT ![i].external = Erased]
     ELSE UNCHANGED <<chunks, counts, bits, actors>>
  /\ held' = {m \in held : ExternalOf[m] # external}
  /\ UNCHANGED <<arrived, jobs, partitions>>

\* The bits of earlier years go, and in the year of the month those before it.
Masked(i, month) ==
  {b \in bits[i] : \/ b[1] > YearOf(FirstDay(month))
                   \/ /\ b[1] = YearOf(FirstDay(month))
                      /\ b[2] >= YearDay(FirstDay(month))}

\* drop_months_before, under the lock: what happened before a month.
DropMonths(month) ==
  LET gone == {p \in Pairs : p[1] < FirstDay(month)} IN
  /\ partitions' = {k \in partitions : k >= month}
  /\ chunks' = [p \in Pairs |-> IF p \in gone THEN << >> ELSE chunks[p]]
  /\ counts' = [p \in Pairs |-> IF p \in gone THEN NoCount ELSE counts[p]]
  /\ bits' = [i \in DOMAIN bits |-> Masked(i, month)]
  /\ held' = {m \in held : MonthOf(DayOf[m]) >= month}
  /\ UNCHANGED <<arrived, waiting, jobs, actors>>

MatrixNext ==
  \/ \E m \in Messages : Ingest(m)
  \/ \E j \in Jobs : StartRotation(j) \/ RotatePage(j) \/ PageFails(j) \/ StopRotation(j)
  \/ \E external \in Range(ExternalOf) : Erase(external)
  \/ \E month \in {MonthOf(d) : d \in Days} : DropMonths(month)

\* The scheduler starts rotations again and again, and not all of them die.
MatrixFairness ==
  \A j \in Jobs : /\ WF_matrixVars(StartRotation(j))
                  /\ SF_matrixVars(RotatePage(j) \/ PageFails(j))

MatrixSpec == MatrixInit /\ [][MatrixNext]_matrixVars /\ MatrixFairness

-----------------------------------------------------------------------------
(* Reports.                                                                *)

Between(low, x, high) == low <= x /\ x <= high

\* active_offsets: year by year, a window of each year's bits.
ActiveOffsets(i, from, to) ==
  UNION {LET first == Greatest({from, NewYear(year)})
             last == Least({to, NewYear(year + 1) - 1})
         IN {b[2] - YearDay(first) + (first - from) :
               b \in {c \in bits[i] : c[1] = year /\
                        Between(YearDay(first), c[2], YearDay(first) + last - first)}}
         : year \in YearOf(from) .. YearOf(to)}

MarkedEnds(marks, first, last) == [marks EXCEPT ![first] = @ + 1, ![last + 1] = @ - 1]

\* Mutant: a window ends a day late.
CoveringLong(acc, offset, width, size) ==
  LET first == Greatest({offset, acc.covered + 1})
      last == Least({offset + width, size - 1})
  IN IF first > last THEN acc
     ELSE [marks |-> MarkedEnds(acc.marks, first, last), covered |-> last]

\* A window of `width` days from an offset, but for the days before it that are
\* covered already; at each end of the rest `difference` is marked.
Covering(acc, offset, width, size) ==
  LET first == Greatest({offset, acc.covered + 1})
      last == Least({offset + width - 1, size - 1})
  IN IF first > last THEN acc
     ELSE [marks |-> MarkedEnds(acc.marks, first, last), covered |-> last]

\* spread: an actor active at an offset counts in the windows of `width` days
\* that hold it, once where two of its windows overlap.  `difference` has the
\* indices 0 to size.
Spread(difference, offsets, width, size) ==
  LET order == Ascending(offsets)
      after[n \in 0 .. Cardinality(offsets)] ==
        IF n = 0 THEN [marks |-> difference, covered |-> -1]
        ELSE Covering(after[n - 1], order[n], width, size)
  IN after[Cardinality(offsets)].marks

Identified == {i \in DOMAIN actors : actors[i].external \notin {ANONYMOUS, Erased}}

\* running_sums
RunningSums(difference, size) ==
  LET total[k \in 0 .. size] ==
        IF k = 0 THEN difference[0] ELSE total[k - 1] + difference[k]
  IN total

\* How many actors are active in the `width` days that end on each day.
Windows(start, to, width) ==
  LET size == to - start + 1
      after[i \in 0 .. Len(actors)] ==
        IF i = 0 THEN [k \in 0 .. size |-> 0]
        ELSE IF i \in Identified
             THEN Spread(after[i - 1], ActiveOffsets(i, start, to), width, size)
             ELSE after[i - 1]
  IN RunningSums(after[Len(actors)], size)

\* The actives of a period, as the dashboard is told: daily, weekly, monthly.
Actives(from, to) ==
  LET start == from - (MONTH - 1)
      weekly == Windows(start, to, WEEK)
      monthly == Windows(start, to, MONTH)
  IN [day \in from .. to |->
        [dau |-> Cardinality({i \in Identified : day - start \in ActiveOffsets(i, start, to)}),
         wau |-> weekly[day - start],
         mau |-> monthly[day - start]]]

-----------------------------------------------------------------------------
(* Properties.                                                             *)

MatrixTypeOK ==
  /\ arrived \subseteq Messages /\ held \subseteq arrived
  /\ Range(waiting) \subseteq arrived
  /\ jobs \in [Jobs -> [running : BOOLEAN, memo : SUBSET {MonthOf(d) : d \in Days}]]
  /\ partitions \subseteq {MonthOf(d) : d \in Days}
  /\ DOMAIN actors = DOMAIN bits
  /\ \A p \in Pairs : \A r \in RowsIn(chunks[p]) : r.message \in Messages /\ r.actor \in DOMAIN actors

CopiesOf(m, p) ==
  Cardinality({place \in Places(chunks[p]) : RowAt(chunks[p], place).message = m})

\* "Every event is in the matrix once" : a rotated event that was neither
\* erased nor dropped is in one row, under its day and name, whatever chunks
\* were topped up, emptied or dropped in between; an erased or dropped one is
\* in none; no chunk is empty or over its limit, and each is in order of time.
RotatedOnce ==
  /\ \A m \in Messages, p \in Pairs :
       CopiesOf(m, p) = IF m \in held /\ p = PairOf(m) THEN 1 ELSE 0
  /\ \A p \in Pairs : \A n \in DOMAIN chunks[p] :
       /\ Len(chunks[p][n]) \in 1 .. CHUNK_EVENTS
       /\ chunks[p][n] = InTimeOrder(chunks[p][n])

DaysIn(i) == {p[1] : p \in {q \in Pairs : \E r \in RowsIn(chunks[q]) : r.actor = i}}

\* The summaries say what the chunks say: counts of a day and name, and the
\* active days of an actor, which are also the only chunks erasure looks at.
\* No actor was active before the day it is said to be first seen.
SummariesAgree ==
  /\ \A p \in Pairs : counts[p] = Recounted(chunks[p], actors)
  /\ \A i \in DOMAIN actors :
       /\ ActiveDays(i) = IF actors[i].external = ANONYMOUS THEN {} ELSE DaysIn(i)
       /\ \A day \in DaysIn(i) : actors[i].first <= day

ActiveWithin(day, width) ==
  Cardinality({i \in Identified : \E d \in DaysIn(i) : Between(day - width + 1, d, day)})

\* The reported actives are the distinct actors with a row in the window.
ActivesAreRight ==
  \A period \in Periods : \A day \in period[1] .. period[2] :
    Actives(period[1], period[2])[day] =
      [dau |-> ActiveWithin(day, 1), wau |-> ActiveWithin(day, WEEK),
       mau |-> ActiveWithin(day, MONTH)]

\* What waits is rotated in the end, or erased, although retention may drop a
\* partition that a running job has in its memo.
RotationCatchesUp == []<>(waiting = << >>)

=============================================================================
