----------------------------- MODULE ServicesProofs -----------------------------
(***************************************************************************)
(* Theorems about trains and their seats, routes and their stations, the    *)
(* journeys made from both, the parties that travel and the pages on which  *)
(* they buy their tickets, for every number of coaches, seats, routes,      *)
(* stations, journeys, passengers, pages and requests.                      *)
(***************************************************************************)
EXTENDS FaresProofs, Journeys, Passengers, PassengerPages

-------------------------------------------------------------------------------
(* Trains: the seats a coach declares                                        *)

\* What an open transaction on seats gives to a row that it updates or creates.
SeatPatch == SeatRow \union [coach : Coach] \union [isActive : BOOLEAN]
SeatEdit ==
  [source : Coach, target : Coach, asked : SeatRequest \union {None},
   readings : CoachTotals, gone : SUBSET Seat, created : SUBSET Seat,
   rows : UNION {[D -> SeatPatch] : D \in SUBSET Seat},
   counted : SUBSET Coach, totals : CoachTotals, overtaken : SUBSET Coach]

SeatTables ==
  /\ activeTrains \subseteq Train
  /\ coaches \in [Coach -> CoachRow \union {None}]
  /\ seats \in [Seat -> SeatRow \union {None}]
  /\ seatEdit \in [SeatEditor -> SeatEdit \union {None}]
  /\ miscounted \subseteq Coach
  /\ trainSteps \in 0 .. MaxTrainSteps

SeatsHaveCoaches ==
  \A s \in Seat : seats[s] # None => coaches[seats[s].coach] # None

Touched(p) == p.gone \union DOMAIN p.rows

\* What an open transaction has done agrees with where it is: before its seats
\* are written it holds nothing, afterwards it has read its coaches.
InStep(p) ==
  /\ p.counted \subseteq {p.source, p.target}
  /\ \A c \in Coach : p.totals[c] # None => c \in p.counted
  /\ p.asked # None =>
       /\ Touched(p) = {} /\ p.created = {} /\ p.counted = {}
       /\ "seat" \in DOMAIN p.asked /\ "coach" \in DOMAIN p.asked.values =>
            p.asked.values.coach = p.target
       /\ "layout" \in DOMAIN p.asked => p.source = p.target /\ p.readings[p.source] # None
  /\ p.asked = None => p.readings[p.source] # None /\ p.readings[p.target] # None

\* The rows an open transaction touches are as it found them, and the coaches it
\* will count are all those that lose or gain a seat by it, but for those a seat
\* came to after it was read.
SeatsHeld(p) ==
  /\ InStep(p)
  /\ \A c \in Coach : p.readings[c] # None => coaches[c] # None
  /\ \A s \in p.gone :
       s \notin DOMAIN p.rows /\ seats[s] # None /\ seats[s].coach \in {p.source, p.target}
  /\ \A s \in p.created :
       /\ s \in DOMAIN p.rows /\ seats[s] = None
       /\ p.rows[s] \in SeatRow /\ p.rows[s].coach \in {p.source, p.target}
  /\ \A s \in DOMAIN p.rows \ p.created :
       /\ seats[s] # None
       /\ "coach" \in DOMAIN p.rows[s] =>
            /\ p.rows[s].coach \in {p.source, p.target}
            /\ seats[s].coach \in {p.source, p.target} \union p.overtaken

\* What it has read of a coach and not written is still so, unless another change
\* of the coach was committed since.
ReadingsHold(p) ==
  \A c \in Coach \ p.overtaken :
    p.readings[c] # None /\ p.totals[c] = None => coaches[c].totalSeats = p.readings[c]

\* So is the count that it will leave in a coach.
CountHolds(p) ==
  \A c \in p.counted \ p.overtaken :
    Cardinality(SeatsOf(SeatsAfter(p), c))
      = IF p.totals[c] # None THEN p.totals[c] ELSE p.readings[c]

EditHolds(p) == SeatsHeld(p) /\ ReadingsHold(p) /\ CountHolds(p)

OpenEditsHold == \A e \in SeatEditor : seatEdit[e] # None => EditHolds(seatEdit[e])

RowsApart ==
  \A e, d \in SeatEditor :
    seatEdit[e] # None /\ seatEdit[d] # None /\ e # d =>
      Touched(seatEdit[e]) \intersect Touched(seatEdit[d]) = {}

CoachesCounted ==
  \A c \in Coach \ miscounted :
    coaches[c] # None => coaches[c].totalSeats = Cardinality(SeatsOf(seats, c))

TrainsInv ==
  /\ SeatTables
  /\ SeatsHaveCoaches
  /\ OpenEditsHold
  /\ RowsApart
  /\ CoachesCounted

LEMMA SeatsOfFinite ==
  ASSUME NEW rows, NEW c
  PROVE  IsFiniteSet(SeatsOf(rows, c)) /\ Cardinality(SeatsOf(rows, c)) \in Nat
<1>1. IsFiniteSet(Seat)
  BY FS_Interval, TrainAssumption DEF Seat
<1>2. SeatsOf(rows, c) \subseteq Seat
  BY DEF SeatsOf
<1> QED
  BY <1>1, <1>2, FS_Subset, FS_CardinalityType

LEMMA PatchedSeat ==
  ASSUME NEW row \in SeatRow, NEW values \in SeatPatch
  PROVE  /\ Overwritten(row, values) \in SeatRow
         /\ Overwritten(row, values).coach
              = IF "coach" \in DOMAIN values THEN values.coach ELSE row.coach
  BY DEF SeatRow, SeatPatch, Overwritten

LEMMA PatchedCoach ==
  ASSUME NEW row \in CoachRow, NEW values \in CoachPatches
  PROVE  /\ Overwritten(row, values) \in CoachRow
         /\ "totalSeats" \notin DOMAIN values => Overwritten(row, values).totalSeats = row.totalSeats
  BY TrainAssumption DEF CoachRow, Overwritten

\* What a seat is when an open transaction is done.
LEMMA SeatAfter ==
  ASSUME SeatTables, NEW p \in SeatEdit, SeatsHeld(p)
  PROVE  /\ SeatsAfter(p) \in [Seat -> SeatRow \union {None}]
         /\ \A s \in Seat \ Touched(p) : SeatsAfter(p)[s] = seats[s]
         /\ \A s \in p.gone : SeatsAfter(p)[s] = None
         /\ \A s \in DOMAIN p.rows :
              /\ SeatsAfter(p)[s] \in SeatRow
              /\ \/ /\ SeatsAfter(p)[s].coach \in {p.source, p.target}
                    /\ seats[s] # None =>
                         seats[s].coach \in {p.source, p.target} \union p.overtaken
                 \/ seats[s] # None /\ SeatsAfter(p)[s].coach = seats[s].coach
<1>1. /\ p.gone \subseteq Seat /\ p.created \subseteq Seat /\ DOMAIN p.rows \subseteq Seat
      /\ \A s \in DOMAIN p.rows : p.rows[s] \in SeatPatch
  BY DEF SeatEdit
<1>2. None \notin SeatRow /\ seats \in [Seat -> SeatRow \union {None}]
  BY TrainAssumption DEF SeatTables
<1>3. ASSUME NEW s \in Seat \ Touched(p) PROVE SeatsAfter(p)[s] = seats[s]
  BY <1>3 DEF SeatsAfter, Touched, SeatsHeld
<1>4. ASSUME NEW s \in p.gone PROVE SeatsAfter(p)[s] = None
  BY <1>1, <1>4 DEF SeatsAfter
<1> DEFINE Placed(s) ==
      \/ /\ SeatsAfter(p)[s].coach \in {p.source, p.target}
         /\ seats[s] # None => seats[s].coach \in {p.source, p.target} \union p.overtaken
      \/ seats[s] # None /\ SeatsAfter(p)[s].coach = seats[s].coach
<1>5. ASSUME NEW s \in DOMAIN p.rows
      PROVE  SeatsAfter(p)[s] \in SeatRow /\ Placed(s)
  <2>1. s \in Seat /\ s \notin p.gone
    BY <1>1 DEF SeatsHeld
  <2>2. CASE s \in p.created
    BY <2>1, <2>2 DEF SeatsAfter, SeatsHeld
  <2>3. CASE s \notin p.created
    <3>1. /\ seats[s] \in SeatRow /\ seats[s] # None
          /\ "coach" \in DOMAIN p.rows[s] =>
               /\ p.rows[s].coach \in {p.source, p.target}
               /\ seats[s].coach \in {p.source, p.target} \union p.overtaken
      BY <1>2, <2>1, <2>3 DEF SeatsHeld
    <3>2. SeatsAfter(p)[s] = Overwritten(seats[s], p.rows[s])
      BY <2>1, <2>3, <3>1 DEF SeatsAfter
    <3>3. /\ SeatsAfter(p)[s] \in SeatRow
          /\ SeatsAfter(p)[s].coach = IF "coach" \in DOMAIN p.rows[s] THEN p.rows[s].coach
                                      ELSE seats[s].coach
      BY <1>1, <3>1, <3>2, PatchedSeat
    <3> QED
      BY <3>1, <3>3
  <2> QED
    BY <2>2, <2>3
<1>6. SeatsAfter(p) \in [Seat -> SeatRow \union {None}]
  <2>1. SeatsAfter(p) = [s \in Seat |-> SeatsAfter(p)[s]]
    BY DEF SeatsAfter
  <2>2. ASSUME NEW s \in Seat PROVE SeatsAfter(p)[s] \in SeatRow \union {None}
    BY <1>2, <1>3, <1>4, <1>5 DEF Touched
  <2> QED
    BY <2>1, <2>2
<1> QED
  BY <1>3, <1>4, <1>5, <1>6

\* A coach that a transaction does not count has the same seats after it.
LEMMA CountsElsewhere ==
  ASSUME SeatTables, NEW p \in SeatEdit, SeatsHeld(p),
         NEW c \in Coach \ ({p.source, p.target} \union p.overtaken)
  PROVE  SeatsOf(SeatsAfter(p), c) = SeatsOf(seats, c)
<1>1. ASSUME NEW s \in Seat
      PROVE  (SeatsAfter(p)[s] # None /\ SeatsAfter(p)[s].coach = c)
               <=> (seats[s] # None /\ seats[s].coach = c)
  <2>1. CASE s \in p.gone
    BY <2>1, SeatAfter DEF SeatsHeld
  <2>2. CASE s \in DOMAIN p.rows
    BY <2>2, SeatAfter, TrainAssumption
  <2>3. CASE s \notin Touched(p)
    BY <2>3, SeatAfter
  <2> QED
    BY <2>1, <2>2, <2>3 DEF Touched
<1> QED
  BY <1>1 DEF SeatsOf

\* What is open goes on to be what it was, overtaken or not, while its rows and
\* the coaches it has read stay.
Overtaken(q, changed) ==
  [q EXCEPT !.overtaken = @ \union {c \in Coach \intersect changed : q.readings[c] # None}]

LEMMA OvertakenEdit ==
  ASSUME NEW q \in SeatEdit, NEW changed
  PROVE  /\ Overtaken(q, changed) \in SeatEdit
         /\ Overtaken(q, changed)
              = [q EXCEPT !.overtaken =
                   q.overtaken \union {c \in Coach \intersect changed : q.readings[c] # None}]
         /\ Overtaken(q, changed).source = q.source
         /\ Overtaken(q, changed).target = q.target
         /\ Overtaken(q, changed).asked = q.asked
         /\ Overtaken(q, changed).readings = q.readings
         /\ Overtaken(q, changed).gone = q.gone
         /\ Overtaken(q, changed).created = q.created
         /\ Overtaken(q, changed).rows = q.rows
         /\ Overtaken(q, changed).counted = q.counted
         /\ Overtaken(q, changed).totals = q.totals
         /\ Overtaken(q, changed).overtaken
              = q.overtaken \union {c \in Coach \intersect changed : q.readings[c] # None}
<1> DEFINE o == q.overtaken \union {c \in Coach \intersect changed : q.readings[c] # None}
<1>1. o \subseteq Coach
  BY DEF SeatEdit
<1>2. Overtaken(q, changed) = [q EXCEPT !.overtaken = o]
  BY DEF Overtaken
<1> HIDE DEF o
<1>3. [q EXCEPT !.overtaken = o] \in SeatEdit
  BY <1>1 DEF SeatEdit
<1>4. Overtaken(q, changed).overtaken = o
  BY <1>2 DEF SeatEdit
<1> QED
  BY <1>2, <1>3, <1>4 DEF SeatEdit, o

LEMMA TrainsStart == TrainsInit => TrainsInv
<1> SUFFICES ASSUME TrainsInit PROVE TrainsInv
  OBVIOUS
<1>1. SeatTables
  BY TrainAssumption DEF TrainsInit, SeatTables
<1>2. SeatsHaveCoaches /\ RowsApart /\ CoachesCounted
  BY DEF TrainsInit, SeatsHaveCoaches, RowsApart, CoachesCounted
<1>3. \A e \in SeatEditor : seatEdit[e] = None
  BY DEF TrainsInit
<1> QED
  BY <1>1, <1>2, <1>3 DEF TrainsInv, OpenEditsHold

LEMMA NotOvertaken == ASSUME NEW p \in SeatEdit PROVE Overtaken(p, {}) = p
  BY DEF SeatEdit, Overtaken

LEMMA EditGoesOn ==
  ASSUME SeatTables, NEW p \in SeatEdit, EditHolds(p), NEW changed,
         seats' \in [Seat -> SeatRow \union {None}],
         \A s \in Touched(p) : seats'[s] = seats[s],
         \A c \in Coach \ changed, s \in Seat :
           (seats'[s] # None /\ seats'[s].coach = c) <=> (seats[s] # None /\ seats[s].coach = c),
         \A c \in Coach : coaches[c] # None =>
           coaches'[c] # None /\ (c \notin changed => coaches'[c].totalSeats = coaches[c].totalSeats)
  PROVE  EditHolds(Overtaken(p, changed))'
<1> PICK n : n = Overtaken(p, changed)
  OBVIOUS
<1>1. /\ n \in SeatEdit /\ n.source = p.source /\ n.target = p.target /\ n.asked = p.asked
      /\ n.readings = p.readings /\ n.gone = p.gone /\ n.created = p.created /\ n.rows = p.rows
      /\ n.counted = p.counted /\ n.totals = p.totals
      /\ n.overtaken = p.overtaken \union {c \in Coach \intersect changed : p.readings[c] # None}
  BY OvertakenEdit
<1>2. /\ p.gone \subseteq Seat /\ p.created \subseteq Seat /\ DOMAIN p.rows \subseteq Seat
      /\ p.counted \subseteq Coach /\ p.created \subseteq DOMAIN p.rows
      /\ SeatsHeld(p) /\ ReadingsHold(p) /\ CountHolds(p) /\ InStep(p)
  BY DEF SeatEdit, SeatsHeld, EditHolds
<1>3. SeatsHeld(n)'
  <2>1. \A s \in p.gone \union DOMAIN p.rows : seats'[s] = seats[s]
    BY DEF Touched
  <2>2. \A c \in Coach : p.readings[c] # None => coaches'[c] # None
    BY <1>2 DEF SeatsHeld
  <2>3. InStep(n)'
    BY <1>1, <1>2 DEF InStep, Touched
  <2> QED
    BY <1>1, <1>2, <2>1, <2>2, <2>3 DEF SeatsHeld
<1>4. ReadingsHold(n)'
  <2> SUFFICES ASSUME NEW c \in Coach \ n.overtaken, n.readings[c] # None, n.totals[c] = None
               PROVE  coaches'[c].totalSeats = n.readings[c]
    BY DEF ReadingsHold
  <2>1. c \notin changed /\ c \notin p.overtaken /\ coaches[c] # None
    BY <1>1, <1>2 DEF SeatsHeld
  <2> QED
    BY <1>1, <1>2, <2>1 DEF ReadingsHold
<1>5. CountHolds(n)'
  <2> SUFFICES ASSUME NEW c \in n.counted \ n.overtaken
               PROVE  Cardinality(SeatsOf(SeatsAfter(n), c)')
                        = IF n.totals[c] # None THEN n.totals[c] ELSE n.readings[c]
    BY DEF CountHolds
  <2>1. c \in {p.source, p.target} /\ p.asked = None /\ p.readings[c] # None
    BY <1>1, <1>2 DEF InStep
  <2>2. c \in Coach \ changed /\ c \in p.counted \ p.overtaken
    BY <1>1, <1>2, <2>1
  <2>3. ASSUME NEW s \in Seat
        PROVE  (SeatsAfter(n)'[s] # None /\ SeatsAfter(n)'[s].coach = c)
                 <=> (SeatsAfter(p)[s] # None /\ SeatsAfter(p)[s].coach = c)
    <3>1. CASE s \in Touched(p)
      <4>1. seats'[s] = seats[s]
        BY <3>1
      <4>2. SeatsAfter(n)'[s] = SeatsAfter(p)[s]
        BY <1>1, <4>1 DEF SeatsAfter, Overwritten
      <4> QED
        BY <4>2
    <3>2. CASE s \notin Touched(p)
      <4>1. SeatsAfter(n)'[s] = seats'[s] /\ SeatsAfter(p)[s] = seats[s]
        BY <1>1, <1>2, <3>2 DEF SeatsAfter, Touched
      <4> QED
        BY <2>2, <4>1
    <3> QED
      BY <3>1, <3>2
  <2>4. SeatsOf(SeatsAfter(n), c)' = SeatsOf(SeatsAfter(p), c)
    BY <2>3 DEF SeatsOf
  <2> QED
    BY <1>1, <1>2, <2>2, <2>4 DEF CountHolds
<1> QED
  BY <1>3, <1>4, <1>5 DEF EditHolds

\* It holds of a record in the next state whatever name the record has.
LEMMA HoldsNext ==
  ASSUME NEW e \in SeatEditor, NEW n, n = seatEdit'[e], EditHolds(n)'
  PROVE  EditHolds(seatEdit[e])'
<1>1. SeatsHeld(n)' /\ ReadingsHold(n)' /\ CountHolds(n)'
  BY DEF EditHolds
<1>2. SeatsHeld(seatEdit[e])'
  BY <1>1 DEF SeatsHeld, InStep, Touched
<1>3. ReadingsHold(seatEdit[e])'
  BY <1>1 DEF ReadingsHold
<1>4. CountHolds(seatEdit[e])'
  BY <1>1 DEF CountHolds, SeatsAfter
<1> QED
  BY <1>2, <1>3, <1>4 DEF EditHolds

\* The open transactions of the next state are those of this one, some of them
\* overtaken.
LEMMA EditsGoOn ==
  ASSUME TrainsInv, NEW changed, SeatTables', seatEdit' = Overtake(seatEdit, changed),
         seats' = seats,
         \A c \in Coach : coaches[c] # None =>
           coaches'[c] # None /\ (c \notin changed => coaches'[c].totalSeats = coaches[c].totalSeats)
  PROVE  OpenEditsHold' /\ RowsApart' /\ SeatsHaveCoaches'
<1> USE DEF TrainsInv
<1>1. ASSUME NEW e \in SeatEditor, seatEdit'[e] # None
      PROVE  /\ seatEdit[e] \in SeatEdit /\ seatEdit[e] # None
             /\ seatEdit'[e] = Overtaken(seatEdit[e], changed)
  BY <1>1 DEF Overtake, Overtaken, SeatTables
<1>2. OpenEditsHold'
  <2> SUFFICES ASSUME NEW e \in SeatEditor, seatEdit'[e] # None
               PROVE  EditHolds(seatEdit[e])'
    BY DEF OpenEditsHold
  <2>1. PICK p : p = seatEdit[e]
    OBVIOUS
  <2>2. p \in SeatEdit /\ EditHolds(p) /\ seatEdit'[e] = Overtaken(p, changed)
    BY <1>1, <2>1 DEF OpenEditsHold
  <2>3. EditHolds(Overtaken(p, changed))'
    BY <2>2, EditGoesOn DEF SeatTables
  <2> QED
    BY <2>2, <2>3, HoldsNext
<1>3. RowsApart'
  <2>1. ASSUME NEW e \in SeatEditor, seatEdit'[e] # None
        PROVE  Touched(seatEdit'[e]) = Touched(seatEdit[e])
    BY <1>1, <2>1, OvertakenEdit DEF Touched
  <2> QED
    BY <1>1, <2>1 DEF RowsApart
<1>4. SeatsHaveCoaches'
  BY DEF SeatsHaveCoaches, SeatTables, SeatRow
<1> QED
  BY <1>2, <1>3, <1>4

\* One transaction opens, takes a step or is rolled back.
LEMMA EditReplaced ==
  ASSUME TrainsInv, NEW e \in SeatEditor, NEW n \in SeatEdit \union {None},
         seatEdit' = [seatEdit EXCEPT ![e] = n],
         UNCHANGED <<activeTrains, coaches, seats, miscounted>>,
         trainSteps' \in 0 .. MaxTrainSteps,
         n # None => EditHolds(n),
         n # None => \A d \in SeatEditor \ {e} :
                       seatEdit[d] # None => Touched(n) \intersect Touched(seatEdit[d]) = {}
  PROVE  TrainsInv'
<1>1. /\ seatEdit'[e] = n
      /\ \A d \in SeatEditor \ {e} : seatEdit'[d] = seatEdit[d]
  BY DEF TrainsInv, SeatTables
<1>2. SeatTables'
  BY DEF TrainsInv, SeatTables
<1>3. SeatsHaveCoaches' /\ CoachesCounted'
  BY DEF TrainsInv, SeatsHaveCoaches, CoachesCounted, SeatsOf
<1>4. OpenEditsHold'
  <2> SUFFICES ASSUME NEW d \in SeatEditor, seatEdit'[d] # None
               PROVE  EditHolds(seatEdit[d])'
    BY DEF OpenEditsHold
  <2>1. PICK p : p = seatEdit'[d]
    OBVIOUS
  <2>2. SeatsHeld(p) /\ ReadingsHold(p) /\ CountHolds(p)
    BY <1>1, <2>1 DEF TrainsInv, OpenEditsHold, EditHolds
  <2>3. SeatsHeld(p)' /\ ReadingsHold(p)'
    BY <2>2 DEF SeatsHeld, ReadingsHold, InStep, Touched
  <2>4. CountHolds(p)'
    BY <2>2 DEF CountHolds, SeatsAfter, SeatsOf
  <2>5. EditHolds(p)'
    BY <2>3, <2>4 DEF EditHolds
  <2> QED
    BY <2>1, <2>5, HoldsNext
<1>5. RowsApart'
  BY <1>1 DEF TrainsInv, RowsApart
<1> QED
  BY <1>2, <1>3, <1>4, <1>5 DEF TrainsInv

LEMMA EditRolledBack ==
  ASSUME TrainsInv, NEW e \in SeatEditor, RollbackSeats(e)
  PROVE  TrainsInv'
<1>1. seatEdit' = [seatEdit EXCEPT ![e] = None] /\ trainSteps' = trainSteps
      /\ UNCHANGED <<activeTrains, coaches, seats, miscounted>>
  BY DEF RollbackSeats
<1>2. trainSteps \in 0 .. MaxTrainSteps
  BY DEF TrainsInv, SeatTables
<1> QED
  BY <1>1, <1>2, EditReplaced

LEMMA StepCounted ==
  ASSUME SeatTables, CountTrainStep PROVE trainSteps' \in 0 .. MaxTrainSteps
  BY TrainAssumption DEF SeatTables, CountTrainStep

LEMMA NobodyOvertaken ==
  ASSUME SeatTables PROVE Overtake(seatEdit, {}) = seatEdit
<1>1. Overtake(seatEdit, {}) = [e \in SeatEditor |-> Overtake(seatEdit, {})[e]]
  BY DEF Overtake
<1>2. ASSUME NEW e \in SeatEditor PROVE Overtake(seatEdit, {})[e] = seatEdit[e]
  <2>1. CASE seatEdit[e] = None
    BY <2>1 DEF Overtake
  <2>2. CASE seatEdit[e] # None
    <3>1. PICK p : p = seatEdit[e]
      OBVIOUS
    <3>2. p \in SeatEdit
      BY <2>2, <3>1 DEF SeatTables
    <3>3. Overtake(seatEdit, {})[e] = Overtaken(p, {})
      BY <2>2, <3>1 DEF Overtake, Overtaken
    <3> QED
      BY <3>1, <3>2, <3>3, NotOvertaken
  <2> QED
    BY <2>1, <2>2
<1> QED
  BY <1>1, <1>2 DEF SeatTables

LEMMA TrainSwitched ==
  ASSUME TrainsInv, NEW t \in Train, NEW isActive \in BOOLEAN, SetTrainActive(t, isActive)
  PROVE  TrainsInv'
<1>1. trainSteps' \in 0 .. MaxTrainSteps
  BY StepCounted DEF TrainsInv, SetTrainActive
<1>2. SeatTables'
  BY <1>1 DEF TrainsInv, SeatTables, SetTrainActive
<1>3. seatEdit' = Overtake(seatEdit, {}) /\ seats' = seats /\ coaches' = coaches
  BY NobodyOvertaken DEF TrainsInv, SetTrainActive
<1>4. OpenEditsHold' /\ RowsApart' /\ SeatsHaveCoaches'
  BY <1>2, <1>3, EditsGoOn
<1>5. CoachesCounted'
  BY DEF TrainsInv, CoachesCounted, SetTrainActive, SeatsOf
<1> QED
  BY <1>2, <1>4, <1>5 DEF TrainsInv

LEMMA CoachCreated ==
  ASSUME TrainsInv, NEW c \in Coach, NEW values \in CoachInputs, CreateCoach(c, values)
  PROVE  TrainsInv'
<1> USE DEF CreateCoach
<1>1. trainSteps' \in 0 .. MaxTrainSteps
  BY StepCounted DEF TrainsInv
<1>2. values \in CoachRow
  BY TrainAssumption
<1>3. SeatTables'
  BY <1>1, <1>2 DEF TrainsInv, SeatTables
<1>4. /\ coaches'[c] = values /\ values # None
      /\ \A d \in Coach \ {c} : coaches'[d] = coaches[d]
  BY <1>2, TrainAssumption DEF TrainsInv, SeatTables
<1>5. seatEdit' = Overtake(seatEdit, {}) /\ seats' = seats
  BY NobodyOvertaken DEF TrainsInv
<1>6. \A d \in Coach : coaches[d] # None =>
        coaches'[d] # None /\ (d \notin {} => coaches'[d].totalSeats = coaches[d].totalSeats)
  BY <1>4
<1>7. OpenEditsHold' /\ RowsApart' /\ SeatsHaveCoaches'
  BY <1>3, <1>5, <1>6, EditsGoOn
<1>8. CoachesCounted'
  <2> SUFFICES ASSUME NEW d \in Coach \ miscounted', coaches'[d] # None
               PROVE  coaches'[d].totalSeats = Cardinality(SeatsOf(seats, d))
    BY <1>5 DEF CoachesCounted, SeatsOf
  <2>1. CASE d # c
    BY <1>4, <2>1 DEF TrainsInv, CoachesCounted
  <2>2. CASE d = c
    <3>1. values.totalSeats = 0
      BY <1>2, <2>2 DEF CoachRow
    <3>2. SeatsOf(seats, c) = {}
      BY DEF TrainsInv, SeatsHaveCoaches, SeatsOf
    <3> QED
      BY <1>4, <2>2, <3>1, <3>2, FS_EmptySet
  <2> QED
    BY <2>1, <2>2
<1> QED
  BY <1>3, <1>7, <1>8 DEF TrainsInv

LEMMA OvertakeTyped ==
  ASSUME NEW open \in [SeatEditor -> SeatEdit \union {None}], NEW changed
  PROVE  Overtake(open, changed) \in [SeatEditor -> SeatEdit \union {None}]
<1>1. ASSUME NEW e \in SeatEditor PROVE Overtake(open, changed)[e] \in SeatEdit \union {None}
  <2>1. CASE open[e] = None
    BY <2>1 DEF Overtake
  <2>2. CASE open[e] # None
    <3>1. PICK p : p = open[e]
      OBVIOUS
    <3>2. p \in SeatEdit /\ Overtake(open, changed)[e] = Overtaken(p, changed)
      BY <2>2, <3>1 DEF Overtake, Overtaken
    <3> QED
      BY <3>2, OvertakenEdit
  <2> QED
    BY <2>1, <2>2
<1> QED
  BY <1>1 DEF Overtake

LEMMA CoachUpdated ==
  ASSUME TrainsInv, NEW c \in Coach, NEW values \in CoachPatches, UpdateCoach(c, values)
  PROVE  TrainsInv'
<1> DEFINE row == Overwritten(coaches[c], values)
           changed == IF "totalSeats" \in DOMAIN values THEN {c} ELSE {}
<1>1. trainSteps' \in 0 .. MaxTrainSteps
  BY StepCounted DEF TrainsInv, UpdateCoach
<1>2. coaches[c] \in CoachRow /\ coaches' = [coaches EXCEPT ![c] = row] /\ seats' = seats
      /\ activeTrains' = activeTrains
  BY DEF UpdateCoach, TrainsInv, SeatTables
<1>3. /\ row \in CoachRow /\ row # None
      /\ "totalSeats" \notin DOMAIN values => row.totalSeats = coaches[c].totalSeats
  <2>1. PICK old : old = coaches[c]
    OBVIOUS
  <2> QED
    BY <1>2, <2>1, PatchedCoach, TrainAssumption
<1>4. seatEdit' = Overtake(seatEdit, changed) /\ miscounted' = miscounted \union changed
  BY NobodyOvertaken DEF TrainsInv, UpdateCoach
<1> HIDE DEF row
<1>5. SeatTables'
  <2>1. seatEdit' \in [SeatEditor -> SeatEdit \union {None}]
    BY <1>4, OvertakeTyped DEF TrainsInv, SeatTables
  <2> QED
    BY <1>1, <1>2, <1>3, <1>4, <2>1 DEF TrainsInv, SeatTables
<1>6. coaches'[c] = row /\ \A d \in Coach \ {c} : coaches'[d] = coaches[d]
  BY <1>2 DEF TrainsInv, SeatTables
<1>7. \A d \in Coach : coaches[d] # None =>
        coaches'[d] # None /\ (d \notin changed => coaches'[d].totalSeats = coaches[d].totalSeats)
  BY <1>3, <1>6
<1>8. OpenEditsHold' /\ RowsApart' /\ SeatsHaveCoaches'
  BY <1>2, <1>4, <1>5, <1>7, EditsGoOn
<1>9. CoachesCounted'
  <2> SUFFICES ASSUME NEW d \in Coach \ miscounted', coaches'[d] # None
               PROVE  coaches'[d].totalSeats = Cardinality(SeatsOf(seats, d))
    BY <1>2 DEF CoachesCounted, SeatsOf
  <2>1. d \notin miscounted /\ d \notin changed /\ coaches[d] # None
    BY <1>2, <1>4, <1>6, TrainAssumption
  <2> QED
    BY <1>7, <2>1 DEF TrainsInv, CoachesCounted
<1> QED
  BY <1>5, <1>8, <1>9 DEF TrainsInv

\* A transaction that counts a coach leaves its total right.
LEMMA SyncedEdit ==
  ASSUME SeatTables, NEW p \in SeatEdit, EditHolds(p), p.asked = None,
         NEW c \in {p.source, p.target} \ p.counted, NEW total \in Nat,
         total = Cardinality(SeatsOf(SeatsAfter(p), c))
  PROVE  /\ Synced(p, c, total) \in SeatEdit
         /\ EditHolds(Synced(p, c, total))
         /\ Touched(Synced(p, c, total)) = Touched(p)
<1> PICK t, o : /\ t = IF total # p.readings[c] THEN [p.totals EXCEPT ![c] = total] ELSE p.totals
                /\ o = IF total # p.readings[c] THEN p.overtaken \ {c} ELSE p.overtaken
  OBVIOUS
<1>1. /\ c \in Coach /\ p.totals \in CoachTotals /\ p.readings \in CoachTotals
      /\ p.counted \subseteq Coach /\ p.overtaken \subseteq Coach
      /\ p.source \in Coach /\ p.target \in Coach
  BY DEF SeatEdit
<1>2. t \in CoachTotals /\ o \subseteq Coach
  BY <1>1 DEF CoachTotals
<1>3. /\ t[c] = IF total # p.readings[c] THEN total ELSE p.totals[c]
      /\ \A d \in Coach \ {c} : t[d] = p.totals[d]
  BY <1>1 DEF CoachTotals
<1>4. PICK n : n = [p EXCEPT !.counted = p.counted \union {c}, !.totals = t, !.overtaken = o]
  OBVIOUS
<1>5. n = Synced(p, c, total)
  <2>1. CASE total # p.readings[c]
    BY <1>4, <2>1 DEF Synced
  <2>2. CASE total = p.readings[c]
    <3>1. t = p.totals /\ o = p.overtaken
      BY <2>2
    <3>2. [p EXCEPT !.counted = p.counted \union {c}, !.totals = p.totals, !.overtaken = p.overtaken]
            = [p EXCEPT !.counted = p.counted \union {c}]
      BY DEF SeatEdit
    <3> QED
      BY <1>4, <2>2, <3>1, <3>2 DEF Synced
  <2> QED
    BY <2>1, <2>2
<1>6. /\ n \in SeatEdit /\ n.source = p.source /\ n.target = p.target /\ n.asked = p.asked
      /\ n.readings = p.readings /\ n.gone = p.gone /\ n.created = p.created /\ n.rows = p.rows
      /\ n.counted = p.counted \union {c} /\ n.totals = t /\ n.overtaken = o
  BY <1>1, <1>2, <1>4 DEF SeatEdit
<1>7. SeatsHeld(p) /\ ReadingsHold(p) /\ CountHolds(p) /\ InStep(p)
  BY DEF EditHolds, SeatsHeld
<1>8. p.readings[c] # None /\ p.totals[c] = None
  BY <1>1, <1>7 DEF InStep
<1>9. SeatsHeld(n)
  <2>1. InStep(n)
    BY <1>1, <1>3, <1>6, <1>7 DEF InStep, Touched
  <2>2. {p.source, p.target} \union p.overtaken = {n.source, n.target} \union n.overtaken
    BY <1>6
  <2> QED
    BY <1>6, <1>7, <2>1, <2>2 DEF SeatsHeld
<1>10. ReadingsHold(n)
  <2> SUFFICES ASSUME NEW d \in Coach \ n.overtaken, n.readings[d] # None, n.totals[d] = None
               PROVE  coaches[d].totalSeats = n.readings[d]
    BY DEF ReadingsHold
  <2>1. p.totals[d] = None /\ d \notin p.overtaken
    <3>1. CASE d = c
      BY <1>3, <1>6, <1>8, <3>1, TrainAssumption
    <3>2. CASE d # c
      BY <1>3, <1>6, <3>2
    <3> QED
      BY <3>1, <3>2
  <2> QED
    BY <1>6, <1>7, <2>1 DEF ReadingsHold
<1>11. SeatsAfter(n) = SeatsAfter(p)
  BY <1>6 DEF SeatsAfter
<1>12. CountHolds(n)
  <2> SUFFICES ASSUME NEW d \in n.counted \ n.overtaken
               PROVE  Cardinality(SeatsOf(SeatsAfter(p), d))
                        = IF t[d] # None THEN t[d] ELSE p.readings[d]
    BY <1>6, <1>11 DEF CountHolds
  <2>1. CASE d = c
    BY <1>3, <1>8, <2>1, TrainAssumption
  <2>2. CASE d # c
    BY <1>1, <1>3, <1>6, <1>7, <2>2 DEF CountHolds
  <2> QED
    BY <2>1, <2>2
<1> QED
  BY <1>5, <1>6, <1>9, <1>10, <1>12 DEF EditHolds, Touched

\* A transaction that has written no seats holds no row.
LEMMA EditAdvanced ==
  ASSUME TrainsInv, NEW e \in SeatEditor, NEW n \in SeatEdit, EditHolds(n),
         seatEdit' = [seatEdit EXCEPT ![e] = n],
         UNCHANGED <<activeTrains, coaches, seats, miscounted>>,
         trainSteps' \in 0 .. MaxTrainSteps,
         \/ Touched(n) \intersect LockedSeats = {}
         \/ seatEdit[e] # None /\ Touched(n) = Touched(seatEdit[e])
  PROVE  TrainsInv'
<1>1. \A d \in SeatEditor : seatEdit[d] # None => Touched(seatEdit[d]) \subseteq LockedSeats
  BY DEF LockedSeats, OpenEdits, Touched
<1>2. \A d \in SeatEditor \ {e} :
        seatEdit[d] # None => Touched(n) \intersect Touched(seatEdit[d]) = {}
  <2>1. CASE Touched(n) \intersect LockedSeats = {}
    BY <1>1, <2>1
  <2>2. CASE seatEdit[e] # None /\ Touched(n) = Touched(seatEdit[e])
    BY <2>2 DEF TrainsInv, RowsApart
  <2> QED
    BY <2>1, <2>2
<1> QED
  BY <1>2, EditReplaced

\* What the transaction of e is, where it is open.
LEMMA SeatEditOpen ==
  ASSUME TrainsInv, NEW e \in SeatEditor, NEW p, p = seatEdit[e], p # None
  PROVE  /\ p \in SeatEdit /\ EditHolds(p)
         /\ SeatsHeld(p) /\ ReadingsHold(p) /\ CountHolds(p) /\ InStep(p)
         /\ trainSteps \in 0 .. MaxTrainSteps
<1>1. p \in SeatEdit /\ EditHolds(p) /\ trainSteps \in 0 .. MaxTrainSteps
  BY DEF TrainsInv, SeatTables, OpenEditsHold
<1> QED
  BY <1>1 DEF EditHolds, SeatsHeld

LEMMA NewEdit ==
  ASSUME NEW source \in Coach, NEW target \in Coach, NEW asked \in SeatRequest, NEW n,
         n = NewSeatEdit(source, target, asked)
  PROVE  /\ n \in SeatEdit /\ n.source = source /\ n.target = target /\ n.asked = asked
         /\ asked # None /\ Touched(n) = {} /\ n.created = {} /\ n.counted = {}
         /\ n.gone = {} /\ DOMAIN n.rows = {}
         /\ \A c \in Coach : n.readings[c] = None /\ n.totals[c] = None
         /\ n.readings \in CoachTotals
<1>1. asked # None
  BY TrainAssumption
<1>2. PICK none : none = [c \in Coach |-> None]
  OBVIOUS
<1>3. none \in CoachTotals /\ \A c \in Coach : none[c] = None
  BY <1>2 DEF CoachTotals
<1>4. NoRows \in [{} -> SeatPatch] /\ DOMAIN NoRows = {}
  BY DEF NoRows
<1>5. PICK r : r = NoRows
  OBVIOUS
<1>6. r \in UNION {[D -> SeatPatch] : D \in SUBSET Seat} /\ DOMAIN r = {}
  BY <1>4, <1>5
<1>7. n = [source |-> source, target |-> target, asked |-> asked, readings |-> none,
           gone |-> {}, created |-> {}, rows |-> r, counted |-> {}, totals |-> none,
           overtaken |-> {}]
  BY <1>2, <1>5 DEF NewSeatEdit
<1> QED
  BY <1>1, <1>3, <1>6, <1>7 DEF SeatEdit, Touched

LEMMA UpdateOpened ==
  ASSUME TrainsInv, NEW e \in SeatEditor, NEW s \in Seat, NEW values \in SeatPatches,
         OpenUpdate(e, s, values)
  PROVE  TrainsInv'
<1> PICK row, asked : row = seats[s] /\ asked = [seat |-> s, read |-> row, values |-> values]
  OBVIOUS
<1>1. row # None /\ row \in SeatRow /\ values \in SeatPatch
  BY TrainAssumption DEF OpenUpdate, TrainsInv, SeatTables, SeatPatch
<1>2. PICK target : target = Overwritten(row, values).coach
  OBVIOUS
<1>3. /\ row.coach \in Coach /\ target \in Coach
      /\ "coach" \in DOMAIN values => values.coach = target
  BY <1>1, <1>2, PatchedSeat DEF SeatRow
<1>4. asked \in SeatRequest /\ DOMAIN asked = {"seat", "read", "values"} /\ asked.values = values
  BY <1>1 DEF SeatRequest
<1>5. PICK n : n = NewSeatEdit(row.coach, target, asked)
  OBVIOUS
<1>6. seatEdit' = [seatEdit EXCEPT ![e] = n] /\ UNCHANGED <<activeTrains, coaches, seats, miscounted>>
  BY <1>2, <1>5 DEF OpenUpdate
<1>7. /\ n \in SeatEdit /\ n.source = row.coach /\ n.target = target /\ n.asked = asked
      /\ asked # None /\ Touched(n) = {} /\ n.created = {} /\ n.counted = {}
      /\ n.gone = {} /\ DOMAIN n.rows = {}
      /\ \A c \in Coach : n.readings[c] = None /\ n.totals[c] = None
  BY <1>3, <1>4, <1>5, NewEdit
<1>8. EditHolds(n)
  <2>1. InStep(n)
    BY <1>3, <1>4, <1>7 DEF InStep
  <2> QED
    BY <1>7, <2>1 DEF EditHolds, SeatsHeld, ReadingsHold, CountHolds
<1>9. trainSteps' \in 0 .. MaxTrainSteps
  BY StepCounted DEF TrainsInv, OpenUpdate
<1> QED
  BY <1>6, <1>7, <1>8, <1>9, EditAdvanced

LEMMA GenerationOpened ==
  ASSUME TrainsInv, NEW e \in SeatEditor, NEW c \in Coach, NEW layout \in Layouts,
         OpenGeneration(e, c, layout)
  PROVE  TrainsInv'
<1> PICK asked, total : asked = [layout |-> layout] /\ total = coaches[c].totalSeats
  OBVIOUS
<1>1. coaches[c] # None /\ coaches[c] \in CoachRow
  BY DEF OpenGeneration, TrainsInv, SeatTables
<1>2. asked \in SeatRequest /\ DOMAIN asked = {"layout"}
  BY DEF SeatRequest
<1>3. PICK m : m = NewSeatEdit(c, c, asked)
  OBVIOUS
<1>4. /\ m \in SeatEdit /\ m.source = c /\ m.target = c /\ m.asked = asked
      /\ asked # None /\ Touched(m) = {} /\ m.created = {} /\ m.counted = {}
      /\ m.gone = {} /\ DOMAIN m.rows = {}
      /\ \A d \in Coach : m.readings[d] = None /\ m.totals[d] = None
      /\ m.readings \in CoachTotals
  BY <1>2, <1>3, NewEdit
<1>5. PICK r : r = [m.readings EXCEPT ![c] = total]
  OBVIOUS
<1>6. total \in Nat /\ total # None
  BY <1>1, TrainAssumption DEF CoachRow
<1>7. r \in CoachTotals /\ r[c] = total /\ \A d \in Coach \ {c} : r[d] = None
  BY <1>4, <1>5, <1>6 DEF CoachTotals
<1>8. PICK n : n = [m EXCEPT !.readings = r]
  OBVIOUS
<1>9. seatEdit' = [seatEdit EXCEPT ![e] = n] /\ UNCHANGED <<activeTrains, coaches, seats, miscounted>>
  BY <1>3, <1>5, <1>8 DEF OpenGeneration
<1>10. /\ n \in SeatEdit /\ n.source = c /\ n.target = c /\ n.asked = asked
       /\ Touched(n) = {} /\ n.created = {} /\ n.counted = {} /\ n.gone = {} /\ DOMAIN n.rows = {}
       /\ n.readings = r /\ n.totals = m.totals
  BY <1>4, <1>7, <1>8 DEF SeatEdit, Touched
<1>11. EditHolds(n)
  <2>1. InStep(n)
    BY <1>2, <1>4, <1>6, <1>7, <1>10 DEF InStep
  <2>2. SeatsHeld(n)
    BY <1>1, <1>7, <1>10, <2>1 DEF SeatsHeld
  <2>3. ReadingsHold(n)
    BY <1>7, <1>10 DEF ReadingsHold
  <2>4. CountHolds(n)
    BY <1>10 DEF CountHolds
  <2> QED
    BY <2>2, <2>3, <2>4 DEF EditHolds
<1>12. trainSteps' \in 0 .. MaxTrainSteps
  BY StepCounted DEF TrainsInv, OpenGeneration
<1> QED
  BY <1>9, <1>10, <1>11, <1>12, EditAdvanced

LEMMA CoachRead ==
  ASSUME TrainsInv, NEW e \in SeatEditor, NEW c \in Coach, ReadCoach(e, c)
  PROVE  TrainsInv'
<1> PICK p, total : p = seatEdit[e] /\ total = coaches[c].totalSeats
  OBVIOUS
<1>1. p # None /\ p.readings[c] = None /\ coaches[c] # None /\ c \in {p.source, p.target}
  BY DEF ReadCoach, CoachesRead, NextCoach
<1>2. /\ p \in SeatEdit /\ SeatsHeld(p) /\ ReadingsHold(p) /\ CountHolds(p) /\ InStep(p)
      /\ trainSteps \in 0 .. MaxTrainSteps
  BY <1>1, SeatEditOpen
<1>3. total \in Nat /\ total # None
  BY <1>1, TrainAssumption DEF TrainsInv, SeatTables, CoachRow
<1>4. p.asked # None
  BY <1>1, <1>2 DEF InStep
<1>5. PICK r : r = [p.readings EXCEPT ![c] = total]
  OBVIOUS
<1>6. r \in CoachTotals /\ r[c] = total /\ \A d \in Coach \ {c} : r[d] = p.readings[d]
  BY <1>2, <1>3, <1>5 DEF SeatEdit, CoachTotals
<1>7. PICK n : n = [p EXCEPT !.readings = r]
  OBVIOUS
<1>8. seatEdit' = [seatEdit EXCEPT ![e] = n]
      /\ UNCHANGED <<activeTrains, coaches, seats, miscounted, trainSteps>>
  BY <1>5, <1>7 DEF ReadCoach
<1>9. /\ n \in SeatEdit /\ n.source = p.source /\ n.target = p.target /\ n.asked = p.asked
      /\ n.readings = r /\ n.gone = p.gone /\ n.created = p.created /\ n.rows = p.rows
      /\ n.counted = p.counted /\ n.totals = p.totals /\ n.overtaken = p.overtaken
  BY <1>2, <1>6, <1>7 DEF SeatEdit
<1>10. p.source \in Coach /\ p.counted = {}
  BY <1>2, <1>4 DEF SeatEdit, InStep
<1>11. InStep(n)
  BY <1>2, <1>3, <1>4, <1>6, <1>9, <1>10 DEF InStep, Touched
<1>12. SeatsHeld(n)
  BY <1>1, <1>2, <1>6, <1>9, <1>11 DEF SeatsHeld
<1>13. ReadingsHold(n)
  BY <1>2, <1>6, <1>9 DEF ReadingsHold
<1>14. CountHolds(n)
  BY <1>9, <1>10 DEF CountHolds
<1>15. Touched(n) = Touched(seatEdit[e]) /\ EditHolds(n)
  BY <1>9, <1>12, <1>13, <1>14 DEF Touched, EditHolds
<1> QED
  BY <1>1, <1>2, <1>8, <1>9, <1>15, EditAdvanced

LEMMA SeatWritten ==
  ASSUME TrainsInv, NEW e \in SeatEditor, WriteSeat(e)
  PROVE  TrainsInv'
<1> PICK p : p = seatEdit[e]
  OBVIOUS
<1>1. /\ p # None /\ p.asked # None /\ "seat" \in DOMAIN p.asked
      /\ {p.source, p.target} \subseteq CoachesRead(p)
  BY DEF WriteSeat
<1>2. /\ p \in SeatEdit /\ SeatsHeld(p) /\ ReadingsHold(p) /\ InStep(p)
      /\ trainSteps \in 0 .. MaxTrainSteps
  BY <1>1, SeatEditOpen
<1> PICK s, values : s = p.asked.seat /\ values = p.asked.values
  OBVIOUS
<1>3. s \in Seat /\ values \in SeatPatches
  <2>1. p.asked \in SeatRequest
    BY <1>1, <1>2 DEF SeatEdit
  <2> QED
    BY <1>1, <2>1 DEF SeatRequest
<1> PICK written :
      written = IF Overwritten(p.asked.read, values) = p.asked.read \/ seats[s] = None
                THEN {} ELSE {s}
  OBVIOUS
<1>a. PICK left : left = {seats[t].coach : t \in {u \in written : "coach" \in DOMAIN values}}
  OBVIOUS
<1>b. PICK r, o : /\ r = [t \in written |-> values]
                  /\ o = p.overtaken \union (left \ {p.source, p.target})
  OBVIOUS
<1>4. PICK n : n = [p EXCEPT !.asked = None, !.rows = r, !.overtaken = o]
  OBVIOUS
<1>5. /\ written \intersect LockedSeats = {}
      /\ seatEdit' = [seatEdit EXCEPT ![e] = n]
      /\ UNCHANGED <<activeTrains, coaches, seats, miscounted, trainSteps>>
  BY <1>4, <1>a, <1>b DEF WriteSeat
<1>6. /\ written \subseteq Seat /\ \A t \in written : t = s /\ seats[t] # None
      /\ \A t \in written : seats[t] \in SeatRow /\ seats[t].coach \in Coach
  BY <1>3 DEF TrainsInv, SeatTables, SeatRow
<1>7. o \subseteq Coach /\ p.overtaken \subseteq o
  BY <1>2, <1>6, <1>a, <1>b DEF SeatEdit
<1>8. r \in UNION {[D -> SeatPatch] : D \in SUBSET Seat} /\ DOMAIN r = written
  <2>1. values \in SeatPatch
    BY <1>3, TrainAssumption DEF SeatPatch
  <2> QED
    BY <1>6, <1>b, <2>1
<1>9. /\ n \in SeatEdit /\ n.source = p.source /\ n.target = p.target /\ n.asked = None
      /\ n.readings = p.readings /\ n.gone = p.gone /\ n.created = p.created /\ n.rows = r
      /\ n.counted = p.counted /\ n.totals = p.totals /\ n.overtaken = o
  BY <1>2, <1>4, <1>7, <1>8 DEF SeatEdit
<1>10. /\ p.gone = {} /\ p.created = {} /\ p.counted = {}
       /\ "coach" \in DOMAIN values => values.coach = p.target
  BY <1>1, <1>2 DEF InStep, Touched
<1>11. InStep(n)
  BY <1>1, <1>2, <1>9, <1>10 DEF InStep, CoachesRead
<1>12. SeatsHeld(n)
  <2>1. ASSUME NEW t \in DOMAIN r
        PROVE  /\ seats[t] # None
               /\ "coach" \in DOMAIN r[t] =>
                    /\ r[t].coach \in {p.source, p.target}
                    /\ seats[t].coach \in {p.source, p.target} \union o
    <3>1. t \in written /\ seats[t] # None /\ r[t] = values
      BY <1>6, <1>8, <1>b, <2>1
    <3>2. "coach" \in DOMAIN values => seats[t].coach \in left
      BY <3>1, <1>a
    <3> QED
      BY <1>10, <3>1, <3>2, <1>b
  <2> QED
    BY <1>2, <1>9, <1>10, <1>11, <2>1 DEF SeatsHeld
<1>13. ReadingsHold(n)
  BY <1>2, <1>7, <1>9 DEF ReadingsHold
<1>14. CountHolds(n)
  BY <1>9, <1>10 DEF CountHolds
<1>15. Touched(n) \intersect LockedSeats = {} /\ EditHolds(n)
  BY <1>5, <1>8, <1>9, <1>10, <1>12, <1>13, <1>14 DEF Touched, EditHolds
<1> QED
  BY <1>2, <1>5, <1>9, <1>15, EditAdvanced

LEMMA CoachCounted ==
  ASSUME TrainsInv, NEW e \in SeatEditor, NEW c \in Coach, CountCoach(e, c)
  PROVE  TrainsInv'
<1> PICK p, total : p = seatEdit[e] /\ total = Cardinality(SeatsOf(SeatsAfter(p), c))
  OBVIOUS
<1>1. p # None /\ p.asked = None /\ c \in {p.source, p.target} \ p.counted
  BY DEF CountCoach, NextCoach
<1>2. p \in SeatEdit /\ EditHolds(p) /\ trainSteps \in 0 .. MaxTrainSteps /\ total \in Nat
  BY <1>1, SeatEditOpen, SeatsOfFinite
<1>3. PICK n : n = Synced(p, c, total)
  OBVIOUS
<1>4. seatEdit' = [seatEdit EXCEPT ![e] = n]
      /\ UNCHANGED <<activeTrains, coaches, seats, miscounted, trainSteps>>
  BY <1>3 DEF CountCoach, Counted
<1>5. n \in SeatEdit /\ EditHolds(n) /\ Touched(n) = Touched(p)
  BY <1>1, <1>2, <1>3, SyncedEdit DEF TrainsInv
<1> QED
  BY <1>1, <1>2, <1>4, <1>5, EditAdvanced

LEMMA BuiltSeat ==
  ASSUME NEW layout \in Layouts, LayoutValid(layout), NEW c \in Coach,
         NEW i \in 1 .. layout.totalSeats
  PROVE  BuildSeats(c, layout)[i] \in SeatRow /\ BuildSeats(c, layout)[i].coach = c
<1> DEFINE column == ((i - 1) % layout.columns) + 1
           place == <<((i - 1) \div layout.columns) + 1, column>>
           window == column \in {1, layout.columns}
<1>1. layout.columns \in Nat /\ layout.columns >= 1 /\ i \in Nat /\ i >= 1
  BY TrainAssumption DEF LayoutValid
<1>2. column \in Nat /\ ((i - 1) \div layout.columns) + 1 \in Nat
  BY <1>1, Z3
<1>3. place \in Place
  BY <1>2 DEF Place
<1>4. PICK l, w : l = place /\ w = window
  OBVIOUS
<1>5. l \in Place /\ w \in BOOLEAN
  BY <1>3, <1>4
<1>6. BuildSeats(c, layout)[i] = [coach |-> c, number |-> l, isWindow |-> w, isActive |-> TRUE]
  BY <1>4 DEF BuildSeats
<1> QED
  BY <1>5, <1>6 DEF SeatRow

\* The seats that a generation builds are the coach's seats after it.
LEMMA SeatsGenerated ==
  ASSUME TrainsInv, NEW e \in SeatEditor, GenerateSeats(e)
  PROVE  TrainsInv'
<1> PICK p : p = seatEdit[e]
  OBVIOUS
<1>1. p # None /\ p.asked # None /\ "layout" \in DOMAIN p.asked
  BY DEF GenerateSeats
<1>2. /\ p \in SeatEdit /\ SeatsHeld(p) /\ ReadingsHold(p) /\ InStep(p)
      /\ trainSteps \in 0 .. MaxTrainSteps
  BY <1>1, SeatEditOpen
<1> PICK c, layout : c = p.source /\ layout = p.asked.layout
  OBVIOUS
<1>3. c \in Coach /\ layout \in Layouts /\ layout.totalSeats \in Nat
  <2>1. p.asked \in SeatRequest
    BY <1>1, <1>2 DEF SeatEdit
  <2>2. layout \in Layouts
    BY <1>1, <2>1 DEF SeatRequest
  <2> QED
    BY <1>2, <2>2, TrainAssumption DEF SeatEdit
<1> DEFINE existing == SeatsOf(seats, c)
           asked == {q.asked.seat : q \in {x \in OpenEdits :
                                             x.asked # None /\ "seat" \in DOMAIN x.asked}}
           fresh == {s \in Seat : seats[s] = None} \ (LockedSeats \union asked)
           Rank(s) == Cardinality({t \in fresh : t <= s})
           created == {s \in fresh : Rank(s) <= layout.totalSeats}
           built == BuildSeats(c, layout)
           rows == [s \in created |-> built[Rank(s)]]
<1>4. /\ existing \intersect LockedSeats = {} /\ LayoutValid(layout)
      /\ Cardinality(created) = layout.totalSeats
      /\ UNCHANGED <<activeTrains, coaches, seats, miscounted, trainSteps>>
  BY DEF GenerateSeats
<1>5. ASSUME NEW s \in created PROVE rows[s] \in SeatRow /\ rows[s].coach = c
  <2>1. PICK i : i = Rank(s)
    OBVIOUS
  <2>2. {t \in fresh : t <= s} # {}
    BY <1>5 DEF Seat
  <2>3. IsFiniteSet({t \in fresh : t <= s})
    BY FS_Interval, FS_Subset, TrainAssumption DEF Seat
  <2>4. i \in Nat /\ i # 0
    BY <2>1, <2>2, <2>3, FS_EmptySet, FS_CardinalityType
  <2>5. i <= layout.totalSeats
    BY <1>5, <2>1
  <2>6. i \in 1 .. layout.totalSeats
    BY <1>3, <2>4, <2>5
  <2>7. rows[s] = BuildSeats(c, layout)[i]
    BY <1>5, <2>1
  <2> HIDE DEF rows
  <2> QED
    BY <1>3, <1>4, <2>6, <2>7, BuiltSeat
<1> PICK r, k, g : r = rows /\ k = created /\ g = existing
  OBVIOUS
<1>6. PICK m : m = [p EXCEPT !.asked = None, !.gone = g, !.created = k, !.rows = r]
  OBVIOUS
<1>7. seatEdit' = [seatEdit EXCEPT ![e] = Synced(m, c, layout.totalSeats)]
  BY <1>6 DEF GenerateSeats
<1>8. /\ DOMAIN r = k /\ k \subseteq Seat /\ g \subseteq Seat
      /\ \A s \in k : r[s] \in SeatRow /\ r[s].coach = c
      /\ \A s \in k : seats[s] = None /\ s \notin LockedSeats
      /\ \A s \in g : seats[s] # None /\ seats[s].coach = c
      /\ g = SeatsOf(seats, c) /\ g \intersect LockedSeats = {}
      /\ Cardinality(k) = layout.totalSeats
  BY <1>4, <1>5 DEF SeatsOf
<1> HIDE DEF existing, created, rows
<1>9. r \in UNION {[D -> SeatPatch] : D \in SUBSET Seat}
  <2>1. r = [s \in k |-> r[s]]
    BY <1>8 DEF rows
  <2>2. r \in [k -> SeatPatch]
    BY <1>8, <2>1 DEF SeatPatch
  <2> QED
    BY <1>8, <2>2
<1>10. /\ m \in SeatEdit /\ m.source = p.source /\ m.target = p.target /\ m.asked = None
       /\ m.readings = p.readings /\ m.gone = g /\ m.created = k /\ m.rows = r
       /\ m.counted = p.counted /\ m.totals = p.totals /\ m.overtaken = p.overtaken
  BY <1>2, <1>6, <1>8, <1>9 DEF SeatEdit
<1>11. p.counted = {} /\ p.target = c /\ p.readings[c] # None
  BY <1>1, <1>2 DEF InStep
<1>12. EditHolds(m)
  <2>1. InStep(m)
    BY <1>2, <1>10, <1>11 DEF InStep
  <2>2. SeatsHeld(m)
    BY <1>2, <1>8, <1>10, <2>1 DEF SeatsHeld
  <2>3. ReadingsHold(m) /\ CountHolds(m)
    BY <1>2, <1>10, <1>11 DEF ReadingsHold, CountHolds
  <2> QED
    BY <2>2, <2>3 DEF EditHolds
<1>13. SeatsOf(SeatsAfter(m), c) = k
  <2>1. ASSUME NEW s \in Seat
        PROVE  (SeatsAfter(m)[s] # None /\ SeatsAfter(m)[s].coach = c) <=> s \in k
    <3>1. CASE s \in g
      BY <1>8, <1>10, <3>1 DEF SeatsAfter
    <3>2. CASE s \in k
      BY <1>8, <1>10, <3>2, TrainAssumption DEF SeatsAfter
    <3>3. CASE s \notin g \union k
      BY <1>8, <1>10, <3>3 DEF SeatsAfter, SeatsOf
    <3> QED
      BY <3>1, <3>2, <3>3
  <2> QED
    BY <1>8, <2>1 DEF SeatsOf
<1>14. PICK n : n = Synced(m, c, layout.totalSeats)
  OBVIOUS
<1>15. n \in SeatEdit /\ EditHolds(n) /\ Touched(n) = Touched(m)
  BY <1>3, <1>8, <1>10, <1>11, <1>12, <1>13, <1>14, SyncedEdit DEF TrainsInv
<1>16. Touched(n) \intersect LockedSeats = {}
  BY <1>8, <1>10, <1>15 DEF Touched
<1> QED
  BY <1>2, <1>4, <1>7, <1>14, <1>15, <1>16, EditAdvanced

LEMMA SeatsCommitted ==
  ASSUME TrainsInv, NEW e \in SeatEditor, NEW onJourneys, CommitSeats(e, onJourneys)
  PROVE  TrainsInv'
<1> PICK p : p = seatEdit[e]
  OBVIOUS
<1>1. p # None /\ p.asked = None /\ p.counted = {p.source, p.target}
  BY DEF CommitSeats
<1>2. p \in SeatEdit /\ SeatsHeld(p) /\ ReadingsHold(p) /\ CountHolds(p) /\ InStep(p)
  BY <1>1, SeatEditOpen
<1> PICK changed :
      changed = {c \in Coach :
                   p.totals[c] # None \/ SeatsOf(SeatsAfter(p), c) # SeatsOf(seats, c)}
  OBVIOUS
<1> PICK open : open = [seatEdit EXCEPT ![e] = None]
  OBVIOUS
<1>3. /\ seats' = SeatsAfter(p)
      /\ coaches' = [c \in Coach |-> IF p.totals[c] # None
                                     THEN [coaches[c] EXCEPT !.totalSeats = p.totals[c]]
                                     ELSE coaches[c]]
      /\ miscounted' = (miscounted \ p.counted) \union p.overtaken
      /\ seatEdit' = Overtake(open, changed)
      /\ UNCHANGED <<activeTrains, trainSteps>>
  BY DEF CommitSeats
<1>4. /\ p.counted \subseteq Coach /\ p.overtaken \subseteq Coach
      /\ \A c \in Coach : p.totals[c] # None => p.totals[c] \in Nat
  BY <1>2 DEF SeatEdit, CoachTotals
<1>5. /\ open \in [SeatEditor -> SeatEdit \union {None}] /\ open[e] = None
      /\ \A d \in SeatEditor \ {e} : open[d] = seatEdit[d]
  BY DEF TrainsInv, SeatTables
<1>6. ASSUME NEW c \in Coach, coaches[c] # None
      PROVE  /\ coaches'[c] \in CoachRow /\ coaches'[c] # None
             /\ coaches'[c].totalSeats
                  = IF p.totals[c] # None THEN p.totals[c] ELSE coaches[c].totalSeats
  <2>1. coaches[c] \in CoachRow
    BY <1>6 DEF TrainsInv, SeatTables
  <2>2. PICK row : row = coaches[c]
    OBVIOUS
  <2>3. CASE p.totals[c] # None
    <3>1. PICK n : n = p.totals[c]
      OBVIOUS
    <3>2. n \in Nat
      BY <1>4, <2>3, <3>1
    <3>3. coaches'[c] = [row EXCEPT !.totalSeats = n]
      BY <1>3, <2>2, <2>3, <3>1
    <3>4. [row EXCEPT !.totalSeats = n] \in CoachRow /\ [row EXCEPT !.totalSeats = n].totalSeats = n
      BY <2>1, <2>2, <3>2 DEF CoachRow
    <3> QED
      BY <2>3, <3>1, <3>3, <3>4, TrainAssumption
  <2>4. CASE p.totals[c] = None
    BY <1>3, <2>1, <2>4, TrainAssumption
  <2> QED
    BY <2>3, <2>4
<1>7. \A c \in {p.source, p.target} : c \in Coach /\ p.readings[c] # None /\ coaches[c] # None
  BY <1>1, <1>2 DEF SeatEdit, InStep, SeatsHeld
<1>8. ASSUME NEW c \in Coach, coaches[c] = None PROVE coaches'[c] = None
  <2>1. p.totals[c] = None
    BY <1>1, <1>2, <1>7, <1>8 DEF InStep
  <2> QED
    BY <1>3, <1>8, <2>1
<1>9. SeatTables'
  <2>1. seatEdit' \in [SeatEditor -> SeatEdit \union {None}]
    BY <1>3, <1>5, OvertakeTyped
  <2>2. seats' \in [Seat -> SeatRow \union {None}]
    BY <1>2, <1>3, SeatAfter DEF TrainsInv
  <2>3. \A c \in Coach : coaches'[c] \in CoachRow \union {None}
    BY <1>6, <1>8 DEF TrainsInv, SeatTables
  <2>4. coaches' \in [Coach -> CoachRow \union {None}]
    BY <1>3, <2>3
  <2> QED
    BY <1>3, <1>4, <2>1, <2>2, <2>4 DEF TrainsInv, SeatTables
<1>10. ASSUME NEW d \in SeatEditor, seatEdit'[d] # None
       PROVE  /\ d # e /\ seatEdit[d] # None /\ seatEdit[d] \in SeatEdit
              /\ EditHolds(seatEdit[d])
              /\ seatEdit'[d] = Overtaken(seatEdit[d], changed)
  <2>1. d # e /\ open[d] # None
    BY <1>3, <1>5, <1>10 DEF Overtake
  <2> QED
    BY <1>3, <1>5, <2>1 DEF Overtake, Overtaken, TrainsInv, SeatTables, OpenEditsHold
<1>11. \A c \in Coach \ changed, s \in Seat :
         (seats'[s] # None /\ seats'[s].coach = c) <=> (seats[s] # None /\ seats[s].coach = c)
  <2> TAKE c \in Coach \ changed, s \in Seat
  <2>1. SeatsOf(SeatsAfter(p), c) = SeatsOf(seats, c)
    OBVIOUS
  <2>2. (s \in SeatsOf(SeatsAfter(p), c)) <=> (s \in SeatsOf(seats, c))
    BY <2>1
  <2> QED
    BY <1>3, <2>2 DEF SeatsOf
<1>12. \A c \in Coach : coaches[c] # None =>
         coaches'[c] # None /\ (c \notin changed => coaches'[c].totalSeats = coaches[c].totalSeats)
  BY <1>6
<1>13. OpenEditsHold'
  <2> SUFFICES ASSUME NEW d \in SeatEditor, seatEdit'[d] # None
               PROVE  EditHolds(seatEdit[d])'
    BY DEF OpenEditsHold
  <2>1. PICK q, n : q = seatEdit[d] /\ n = seatEdit'[d]
    OBVIOUS
  <2>2. q \in SeatEdit /\ EditHolds(q) /\ n = Overtaken(q, changed)
    BY <1>10, <2>1
  <2>3. Touched(p) \intersect Touched(q) = {}
    BY <1>1, <1>10, <2>1 DEF TrainsInv, RowsApart
  <2>4. \A s \in Touched(q) : seats'[s] = seats[s]
    <3>1. Touched(q) \subseteq Seat
      BY <2>2 DEF Touched, SeatEdit
    <3> QED
      BY <1>2, <1>3, <2>3, <3>1, SeatAfter DEF TrainsInv
  <2>5. seats' \in [Seat -> SeatRow \union {None}]
    BY <1>9 DEF SeatTables
  <2>6. EditHolds(Overtaken(q, changed))'
    BY <1>11, <1>12, <2>2, <2>4, <2>5, EditGoesOn DEF TrainsInv
  <2> QED
    BY <2>1, <2>2, <2>6, HoldsNext
<1>14. RowsApart'
  <2>1. ASSUME NEW d \in SeatEditor, seatEdit'[d] # None
        PROVE  Touched(seatEdit'[d]) = Touched(seatEdit[d])
    BY <1>10, <2>1, OvertakenEdit DEF Touched
  <2> QED
    BY <1>10, <2>1 DEF TrainsInv, RowsApart
<1>15. SeatsHaveCoaches'
  <2> SUFFICES ASSUME NEW s \in Seat, seats'[s] # None
               PROVE  coaches'[seats'[s].coach] # None
    BY DEF SeatsHaveCoaches
  <2>1. seats'[s] \in SeatRow /\ seats'[s].coach \in Coach
    BY <1>9 DEF SeatTables, SeatRow
  <2>2. coaches[seats'[s].coach] # None
    <3>1. CASE s \in p.gone
      BY <1>2, <1>3, <3>1, SeatAfter DEF TrainsInv
    <3>2. CASE s \in DOMAIN p.rows
      <4>1. \/ seats'[s].coach \in {p.source, p.target}
            \/ seats[s] # None /\ seats'[s].coach = seats[s].coach
        BY <1>2, <1>3, <3>2, SeatAfter DEF TrainsInv
      <4> QED
        BY <1>7, <4>1 DEF TrainsInv, SeatsHaveCoaches
    <3>3. CASE s \notin Touched(p)
      BY <1>2, <1>3, <3>3, SeatAfter DEF TrainsInv, SeatsHaveCoaches
    <3> QED
      BY <3>1, <3>2, <3>3 DEF Touched
  <2> QED
    BY <1>6, <2>1, <2>2
<1>16. CoachesCounted'
  <2> SUFFICES ASSUME NEW c \in Coach \ miscounted', coaches'[c] # None
               PROVE  coaches'[c].totalSeats = Cardinality(SeatsOf(SeatsAfter(p), c))
    BY <1>3 DEF CoachesCounted, SeatsOf
  <2>1. coaches[c] # None /\ c \notin p.overtaken
    BY <1>3, <1>8
  <2>2. CASE c \in p.counted
    <3>1. CASE p.totals[c] # None
      BY <1>2, <1>6, <2>1, <2>2, <3>1 DEF CountHolds
    <3>2. CASE p.totals[c] = None
      BY <1>1, <1>2, <1>6, <1>7, <2>1, <2>2, <3>2 DEF CountHolds, ReadingsHold
    <3> QED
      BY <3>1, <3>2
  <2>3. CASE c \notin p.counted
    <3>1. c \notin miscounted
      BY <1>3, <2>3
    <3>2. p.totals[c] = None
      BY <1>2, <2>3 DEF InStep
    <3>3. SeatsOf(SeatsAfter(p), c) = SeatsOf(seats, c)
      BY <1>1, <1>2, <2>1, <2>3, CountsElsewhere DEF TrainsInv
    <3> QED
      BY <1>6, <2>1, <3>1, <3>2, <3>3 DEF TrainsInv, CoachesCounted
  <2> QED
    BY <2>2, <2>3
<1> QED
  BY <1>9, <1>13, <1>14, <1>15, <1>16 DEF TrainsInv

LEMMA TrainsUnchanged == TrainsInv /\ UNCHANGED trainVars => TrainsInv'
<1> SUFFICES ASSUME TrainsInv, UNCHANGED trainVars PROVE TrainsInv'
  OBVIOUS
<1> USE DEF TrainsInv, trainVars
<1>1. SeatTables' /\ SeatsHaveCoaches' /\ RowsApart' /\ CoachesCounted'
  BY DEF SeatTables, SeatsHaveCoaches, RowsApart, CoachesCounted, SeatsOf
<1>2. seatEdit' = Overtake(seatEdit, {})
  BY NobodyOvertaken
<1>3. OpenEditsHold'
  BY <1>1, <1>2, EditsGoOn
<1> QED
  BY <1>1, <1>3

LEMMA TrainsStep ==
  ASSUME TrainsInv, NEW onJourneys, TrainsNext(onJourneys)
  PROVE  TrainsInv'
<1>1. CASE \E t \in Train, isActive \in BOOLEAN : SetTrainActive(t, isActive)
  BY <1>1, TrainSwitched
<1>2. CASE \E c \in Coach, values \in CoachInputs : CreateCoach(c, values)
  BY <1>2, CoachCreated
<1>3. CASE \E c \in Coach, values \in CoachPatches : UpdateCoach(c, values)
  BY <1>3, CoachUpdated
<1>4. CASE \E e \in SeatEditor, c \in Coach, layout \in Layouts : OpenGeneration(e, c, layout)
  BY <1>4, GenerationOpened
<1>5. CASE \E e \in SeatEditor, c \in Coach : ReadCoach(e, c)
  BY <1>5, CoachRead
<1>6. CASE \E e \in SeatEditor, c \in Coach : CountCoach(e, c)
  BY <1>6, CoachCounted
<1>7. CASE \E e \in SeatEditor, s \in Seat, values \in SeatPatches : OpenUpdate(e, s, values)
  BY <1>7, UpdateOpened
<1>8. CASE \E e \in SeatEditor : WriteSeat(e)
  BY <1>8, SeatWritten
<1>9. CASE \E e \in SeatEditor : GenerateSeats(e)
  BY <1>9, SeatsGenerated
<1>10. CASE \E e \in SeatEditor : CommitSeats(e, onJourneys)
  BY <1>10, SeatsCommitted
<1>11. CASE \E e \in SeatEditor : RollbackSeats(e)
  BY <1>11, EditRolledBack
<1> QED
  BY <1>1, <1>2, <1>3, <1>4, <1>5, <1>6, <1>7, <1>8, <1>9, <1>10, <1>11 DEF TrainsNext

LEMMA TimetableTrainsStep == TrainsInv /\ [TimetableNext]_timetableVars => TrainsInv'
<1> SUFFICES ASSUME TrainsInv, [TimetableNext]_timetableVars PROVE TrainsInv'
  OBVIOUS
<1>1. CASE UNCHANGED trainVars
  BY <1>1, TrainsUnchanged
<1>2. CASE TrainsNext(SeatsOnJourneys)
  BY <1>2, TrainsStep
<1> QED
  BY <1>1, <1>2 DEF TimetableNext, timetableVars

\* In every timetable the coaches, their seats and the transactions open on them
\* satisfy the invariant.
THEOREM TrainsInvariant == TimetableSpec => []TrainsInv
<1>1. TimetableInit => TrainsInv
  BY TrainsStart DEF TimetableInit
<1> QED
  BY <1>1, TimetableTrainsStep, PTL DEF TimetableSpec

\* Every coach declares the seats it has, whatever transactions overlap, unless its
\* total was last given by hand or by a transaction that another one's change of its
\* seats or total overtook, be it with a wrong count or with one that is not
\* written (#syncCoachCapacity of seat.service.js).
THEOREM CoachesDeclareTheirSeats == TimetableSpec => []CapacityCountsSeats
<1>1. TrainsInv => CapacityCountsSeats
  <2> SUFFICES ASSUME TrainsInv PROVE CapacityCountsSeats
    OBVIOUS
  <2>1. ASSUME NEW t \in Train,
               NEW c \in DOMAIN CalculateCapacity(t, TRUE).capacityDifference \ miscounted
        PROVE  CalculateCapacity(t, TRUE).capacityDifference[c] = 0
    <3>1. /\ c \in Coach /\ coaches[c] # None
          /\ CalculateCapacity(t, TRUE).capacityDifference[c]
               = coaches[c].totalSeats - Cardinality({s \in SeatsOf(seats, c) : TRUE})
      BY <2>1 DEF CalculateCapacity
    <3>2. {s \in SeatsOf(seats, c) : TRUE} = SeatsOf(seats, c)
      OBVIOUS
    <3>3. coaches[c].totalSeats = Cardinality(SeatsOf(seats, c))
      BY <2>1, <3>1 DEF TrainsInv, CoachesCounted
    <3>4. Cardinality(SeatsOf(seats, c)) \in Nat
      BY SeatsOfFinite
    <3>5. coaches[c].totalSeats - Cardinality(SeatsOf(seats, c)) = 0
      BY <3>3, <3>4
    <3>6. CalculateCapacity(t, TRUE).capacityDifference[c]
            = coaches[c].totalSeats - Cardinality(SeatsOf(seats, c))
      BY <3>1, <3>2, Zenon
    <3> QED
      BY <3>5, <3>6, Zenon
  <2> QED
    BY <2>1 DEF CapacityCountsSeats
<1> QED
  BY <1>1, TrainsInvariant, PTL

-------------------------------------------------------------------------------
(* Journeys: what a booking refers to                                        *)

\* The rows of journey_stations and journey_seats are tables, a booked journey has
\* some, and the seats that journeys refer to are there.
JourneyTables ==
  /\ journeyStations = [j \in Journey |-> journeyStations[j]]
  /\ journeySeats = [j \in Journey |-> journeySeats[j]]
  /\ generation = [g \in Generator |-> generation[g]]
  /\ \A j \in Journey : journeyStations[j] = [s \in DOMAIN journeyStations[j] |-> journeyStations[j][s]]
  /\ \A j \in Journey : \A s \in DOMAIN journeyStations[j] :
       "number" \in DOMAIN journeyStations[j][s]
  /\ \A g \in Generator : generation[g] # None =>
       generation[g].journey \in Journey /\ generation[g].seats \subseteq Seat

BookedHaveSnapshots == booked \subseteq Journey /\ \A j \in booked : HasSnapshots(j)

JourneySeatsThere ==
  \A j \in Journey : journeySeats[j] \subseteq {s \in Seat : seats[s] # None}

BookingsInv == JourneyTables /\ BookedHaveSnapshots /\ JourneySeatsThere

\* What a step does to the rows of the journeys in `kept`.
SnapshotsKept(kept) ==
  \A j \in kept :
    /\ journeySeats'[j] = journeySeats[j]
    /\ \A s \in journeySeats[j] : seats'[s] # None
    /\ [s \in DOMAIN journeyStations'[j] |-> journeyStations'[j][s].number]
         = [s \in DOMAIN journeyStations[j] |-> journeyStations[j][s].number]

LEMMA BookingsStart == TimetableInit => BookingsInv
<1> SUFFICES ASSUME TimetableInit PROVE BookingsInv
  OBVIOUS
<1> USE DEF TimetableInit, JourneysInit
<1>1. JourneyTables
  BY DEF JourneyTables, NoRows
<1>2. BookedHaveSnapshots /\ JourneySeatsThere
  BY DEF BookedHaveSnapshots, JourneySeatsThere
<1> QED
  BY <1>1, <1>2 DEF BookingsInv

\* A seat that a journey refers to outlives every edit of its train.
LEMMA SeatsOutliveEdits ==
  ASSUME TrainsInv, NEW onJourneys, TrainsNext(onJourneys),
         NEW s \in Seat \intersect onJourneys, seats[s] # None
  PROVE  seats'[s] # None
<1>1. CASE seats' = seats
  BY <1>1
<1>2. ASSUME NEW e \in SeatEditor, CommitSeats(e, onJourneys) PROVE seats'[s] # None
  <2>1. PICK p : p = seatEdit[e]
    OBVIOUS
  <2>2. p # None /\ seats' = SeatsAfter(p) /\ s \notin p.gone
    BY <1>2, <2>1 DEF CommitSeats
  <2>3. p \in SeatEdit /\ SeatsHeld(p)
    BY <2>1, <2>2, SeatEditOpen
  <2>4. CASE s \in DOMAIN p.rows
    BY <2>2, <2>4, <2>3, SeatAfter, TrainAssumption DEF TrainsInv
  <2>5. CASE s \notin Touched(p)
    BY <2>2, <2>5, <2>3, SeatAfter DEF TrainsInv
  <2> QED
    BY <2>2, <2>4, <2>5 DEF Touched
<1>3. seats' = seats \/ \E e \in SeatEditor : CommitSeats(e, onJourneys)
  BY DEF TrainsNext, SetTrainActive, CreateCoach, UpdateCoach, OpenGeneration, OpenUpdate,
         ReadCoach, WriteSeat, CountCoach, GenerateSeats, RollbackSeats
<1> QED
  BY <1>1, <1>2, <1>3

\* The rows of journeys stay when nothing but seats changes.
LEMMA SnapshotsUnchanged ==
  ASSUME BookingsInv, UNCHANGED <<journeyStations, journeySeats, generation, booked>>,
         \A j \in Journey : \A s \in journeySeats[j] : seats'[s] # None
  PROVE  BookingsInv' /\ SnapshotsKept(booked)
<1>1. JourneyTables'
  BY DEF BookingsInv, JourneyTables
<1>2. BookedHaveSnapshots'
  BY DEF BookingsInv, BookedHaveSnapshots, HasSnapshots
<1>3. JourneySeatsThere'
  BY DEF BookingsInv, JourneySeatsThere
<1>4. SnapshotsKept(booked)
  BY DEF BookingsInv, BookedHaveSnapshots, SnapshotsKept
<1> QED
  BY <1>1, <1>2, <1>3, <1>4 DEF BookingsInv

LEMMA SeatsOfJourneysThere ==
  ASSUME BookingsInv, seats' = seats
  PROVE  \A j \in Journey : \A s \in journeySeats[j] : seats'[s] # None
  BY DEF BookingsInv, JourneySeatsThere

LEMMA JourneyDelayed ==
  ASSUME BookingsInv, NEW j \in Journey, NEW delayMinutes \in Delays,
         DelayJourney(j, delayMinutes), seats' = seats
  PROVE  BookingsInv' /\ SnapshotsKept(booked)
<1> PICK old, new : old = journeyStations[j] /\ new = ShiftedStations(old, delayMinutes)
  OBVIOUS
<1>1. /\ journeyStations' = [journeyStations EXCEPT ![j] = new]
      /\ UNCHANGED <<journeySeats, generation, booked>>
  BY DEF DelayJourney
<1>2. /\ old = [s \in DOMAIN old |-> old[s]]
      /\ \A s \in DOMAIN old : "number" \in DOMAIN old[s]
  BY DEF BookingsInv, JourneyTables
<1>3. DOMAIN new = DOMAIN old /\ new = [s \in DOMAIN new |-> new[s]]
  BY DEF ShiftedStations
<1>4. ASSUME NEW s \in DOMAIN old
      PROVE  "number" \in DOMAIN new[s] /\ new[s].number = old[s].number
  BY <1>2, <1>4 DEF ShiftedStations
<1>5. old # NoRows => new # NoRows
  BY <1>2, <1>3 DEF NoRows
<1>6. /\ journeyStations'[j] = new
      /\ \A i \in Journey \ {j} : journeyStations'[i] = journeyStations[i]
      /\ journeyStations' = [i \in Journey |-> journeyStations'[i]]
  BY <1>1 DEF BookingsInv, JourneyTables
<1>7. JourneyTables'
  <2>1. \A i \in Journey :
          /\ journeyStations'[i] = [s \in DOMAIN journeyStations'[i] |-> journeyStations'[i][s]]
          /\ \A s \in DOMAIN journeyStations'[i] : "number" \in DOMAIN journeyStations'[i][s]
    BY <1>3, <1>4, <1>6 DEF BookingsInv, JourneyTables
  <2> QED
    BY <1>1, <1>6, <2>1 DEF BookingsInv, JourneyTables
<1>8. BookedHaveSnapshots'
  BY <1>1, <1>5, <1>6 DEF BookingsInv, BookedHaveSnapshots, HasSnapshots
<1>9. JourneySeatsThere'
  BY <1>1 DEF BookingsInv, JourneySeatsThere
<1>10. SnapshotsKept(booked)
  <2> SUFFICES ASSUME NEW i \in booked
               PROVE  /\ journeySeats'[i] = journeySeats[i]
                      /\ \A s \in journeySeats[i] : seats'[s] # None
                      /\ [s \in DOMAIN journeyStations'[i] |-> journeyStations'[i][s].number]
                           = [s \in DOMAIN journeyStations[i] |-> journeyStations[i][s].number]
    BY DEF SnapshotsKept
  <2>1. i \in Journey
    BY DEF BookingsInv, BookedHaveSnapshots
  <2>2. [s \in DOMAIN new |-> new[s].number] = [s \in DOMAIN old |-> old[s].number]
    BY <1>3, <1>4
  <2> QED
    BY <1>1, <1>6, <2>1, <2>2, SeatsOfJourneysThere
<1> QED
  BY <1>7, <1>8, <1>9, <1>10 DEF BookingsInv

\* New rows are written where no booking refers to the old ones.
LEMMA SnapshotsCommitted ==
  ASSUME BookingsInv, NEW g \in Generator, CommitSnapshots(g), seats' = seats
  PROVE  BookingsInv' /\ SnapshotsKept(booked)
<1> PICK p, j, new : /\ p = generation[g] /\ j = p.journey
                     /\ new = StationSnapshots(p.stations, p.read.scheduledDepartureAt)
  OBVIOUS
<1>1. /\ p # None /\ MayWriteSnapshots(p) /\ \A s \in p.seats : seats[s] # None
      /\ journeyStations' = [journeyStations EXCEPT ![j] = new]
      /\ journeySeats' = [journeySeats EXCEPT ![j] = p.seats]
      /\ generation' = [generation EXCEPT ![g] = None]
      /\ booked' = booked
  BY DEF CommitSnapshots
<1>2. j \in Journey /\ p.seats \subseteq Seat
  BY <1>1 DEF BookingsInv, JourneyTables
<1>3. j \notin booked
  BY <1>1 DEF MayWriteSnapshots, BookingsInv, BookedHaveSnapshots
<1>4. /\ new = [s \in DOMAIN new |-> new[s]]
      /\ \A s \in DOMAIN new : "number" \in DOMAIN new[s]
  BY DEF StationSnapshots
<1>5. /\ journeyStations'[j] = new /\ journeySeats'[j] = p.seats
      /\ \A i \in Journey \ {j} :
           journeyStations'[i] = journeyStations[i] /\ journeySeats'[i] = journeySeats[i]
      /\ journeyStations' = [i \in Journey |-> journeyStations'[i]]
      /\ journeySeats' = [i \in Journey |-> journeySeats'[i]]
  BY <1>1, <1>2 DEF BookingsInv, JourneyTables
<1>6. JourneyTables'
  <2>1. \A i \in Journey :
          /\ journeyStations'[i] = [s \in DOMAIN journeyStations'[i] |-> journeyStations'[i][s]]
          /\ \A s \in DOMAIN journeyStations'[i] : "number" \in DOMAIN journeyStations'[i][s]
    BY <1>4, <1>5 DEF BookingsInv, JourneyTables
  <2>2. /\ generation' = [h \in Generator |-> generation'[h]]
        /\ \A h \in Generator : generation'[h] # None => h # g /\ generation'[h] = generation[h]
    BY <1>1 DEF BookingsInv, JourneyTables
  <2> QED
    BY <1>5, <2>1, <2>2 DEF BookingsInv, JourneyTables
<1>7. BookedHaveSnapshots'
  BY <1>1, <1>3, <1>5 DEF BookingsInv, BookedHaveSnapshots, HasSnapshots
<1>8. JourneySeatsThere'
  BY <1>1, <1>2, <1>5 DEF BookingsInv, JourneySeatsThere
<1>9. SnapshotsKept(booked)
  <2>1. \A i \in booked : i \in Journey \ {j}
    BY <1>3 DEF BookingsInv, BookedHaveSnapshots
  <2> QED
    BY <1>5, <2>1, SeatsOfJourneysThere DEF SnapshotsKept
<1> QED
  BY <1>6, <1>7, <1>8, <1>9 DEF BookingsInv

LEMMA SnapshotsRead ==
  ASSUME BookingsInv, NEW g \in Generator, NEW j \in Journey, NEW replace \in BOOLEAN,
         ReadForSnapshots(g, j, replace), seats' = seats
  PROVE  BookingsInv' /\ SnapshotsKept(booked)
<1> PICK p : p = [journey |-> j, read |-> journeys[j], existing |-> HasSnapshots(j),
                  stations |-> routeStations[journeys[j].route],
                  checked |-> journeys[j].route \notin unchecked,
                  coaches |-> [c \in ActiveCoaches(journeys[j].train) |-> coaches[c].coachClass],
                  seats |-> ActiveSeats(journeys[j].train)]
  OBVIOUS
<1>1. /\ generation' = [generation EXCEPT ![g] = p]
      /\ UNCHANGED <<journeyStations, journeySeats, booked>>
  BY DEF ReadForSnapshots
<1>2. p.journey = j /\ p.seats \subseteq Seat
  BY DEF ActiveSeats
<1>3. /\ generation' = [h \in Generator |-> generation'[h]] /\ generation'[g] = p
      /\ \A h \in Generator \ {g} : generation'[h] = generation[h]
  BY <1>1 DEF BookingsInv, JourneyTables
<1>4. JourneyTables'
  BY <1>1, <1>2, <1>3 DEF BookingsInv, JourneyTables
<1>5. BookedHaveSnapshots' /\ JourneySeatsThere'
  BY <1>1 DEF BookingsInv, BookedHaveSnapshots, JourneySeatsThere, HasSnapshots
<1>6. SnapshotsKept(booked)
  BY <1>1, SeatsOfJourneysThere DEF SnapshotsKept, BookingsInv, BookedHaveSnapshots
<1> QED
  BY <1>4, <1>5, <1>6 DEF BookingsInv

LEMMA SnapshotsRolledBack ==
  ASSUME BookingsInv, NEW g \in Generator, RollbackSnapshots(g), seats' = seats
  PROVE  BookingsInv' /\ SnapshotsKept(booked)
<1>1. /\ generation' = [generation EXCEPT ![g] = None]
      /\ UNCHANGED <<journeyStations, journeySeats, booked>>
  BY DEF RollbackSnapshots
<1>2. /\ generation' = [h \in Generator |-> generation'[h]]
      /\ \A h \in Generator : generation'[h] # None => generation'[h] = generation[h]
  BY <1>1 DEF BookingsInv, JourneyTables
<1>3. JourneyTables'
  BY <1>1, <1>2 DEF BookingsInv, JourneyTables
<1>4. BookedHaveSnapshots' /\ JourneySeatsThere'
  BY <1>1 DEF BookingsInv, BookedHaveSnapshots, JourneySeatsThere, HasSnapshots
<1>5. SnapshotsKept(booked)
  BY <1>1, SeatsOfJourneysThere DEF SnapshotsKept, BookingsInv, BookedHaveSnapshots
<1> QED
  BY <1>3, <1>4, <1>5 DEF BookingsInv

LEMMA JourneyBooked ==
  ASSUME BookingsInv, NEW j \in Journey, Book(j), seats' = seats
  PROVE  BookingsInv' /\ SnapshotsKept(booked)
<1>1. /\ HasSnapshots(j) /\ booked' = booked \union {j}
      /\ UNCHANGED <<journeyStations, journeySeats, generation>>
  BY DEF Book
<1>2. JourneyTables' /\ JourneySeatsThere'
  BY <1>1 DEF BookingsInv, JourneyTables, JourneySeatsThere
<1>3. BookedHaveSnapshots'
  BY <1>1 DEF BookingsInv, BookedHaveSnapshots, HasSnapshots
<1>4. SnapshotsKept(booked)
  BY <1>1, SeatsOfJourneysThere DEF SnapshotsKept, BookingsInv, BookedHaveSnapshots
<1> QED
  BY <1>2, <1>3, <1>4 DEF BookingsInv

LEMMA JourneysStep ==
  ASSUME BookingsInv, JourneysNext, seats' = seats
  PROVE  BookingsInv' /\ SnapshotsKept(booked)
<1>1. ASSUME NEW j \in Journey,
             \/ \E values \in JourneyInputs : CreateJourney(j, values)
             \/ \E values \in JourneyPatches : UpdateJourney(j, values)
             \/ CancelJourney(j)
      PROVE  BookingsInv' /\ SnapshotsKept(booked)
  <2>1. UNCHANGED <<journeyStations, journeySeats, generation, booked>>
    BY <1>1 DEF CreateJourney, UpdateJourney, CancelJourney
  <2> QED
    BY <2>1, SeatsOfJourneysThere, SnapshotsUnchanged
<1>2. CASE \E j \in Journey : Book(j)
  BY <1>2, JourneyBooked
<1>3. CASE \E j \in Journey, delayMinutes \in Delays : DelayJourney(j, delayMinutes)
  BY <1>3, JourneyDelayed
<1>4. CASE \E g \in Generator, j \in Journey, replace \in BOOLEAN : ReadForSnapshots(g, j, replace)
  BY <1>4, SnapshotsRead
<1>5. CASE \E g \in Generator : CommitSnapshots(g)
  BY <1>5, SnapshotsCommitted
<1>6. CASE \E g \in Generator : RollbackSnapshots(g)
  BY <1>6, SnapshotsRolledBack
<1> QED
  BY <1>1, <1>2, <1>3, <1>4, <1>5, <1>6 DEF JourneysNext

LEMMA TimetableBookingsStep ==
  ASSUME TrainsInv, BookingsInv, [TimetableNext]_timetableVars
  PROVE  BookingsInv' /\ SnapshotsKept(booked)
<1>1. CASE UNCHANGED <<trainVars, journeyVars>>
  <2>1. seats' = seats /\ UNCHANGED <<journeyStations, journeySeats, generation, booked>>
    BY <1>1 DEF trainVars, journeyVars
  <2> QED
    BY <2>1, SeatsOfJourneysThere, SnapshotsUnchanged
<1>2. CASE TrainsNext(SeatsOnJourneys) /\ UNCHANGED journeyVars
  <2>1. \A j \in Journey : \A s \in journeySeats[j] :
          s \in Seat \intersect SeatsOnJourneys /\ seats[s] # None
    BY DEF BookingsInv, JourneySeatsThere, SeatsOnJourneys
  <2>2. \A j \in Journey : \A s \in journeySeats[j] : seats'[s] # None
    BY <1>2, <2>1, SeatsOutliveEdits
  <2>3. UNCHANGED <<journeyStations, journeySeats, generation, booked>>
    BY <1>2 DEF journeyVars
  <2> QED
    BY <2>2, <2>3, SnapshotsUnchanged
<1>3. CASE JourneysNext /\ UNCHANGED trainVars
  <2>1. seats' = seats
    BY <1>3 DEF trainVars
  <2> QED
    BY <1>3, <2>1, JourneysStep
<1> QED
  BY <1>1, <1>2, <1>3 DEF TimetableNext, timetableVars

\* Once a booking refers to the stations and seats of a journey, no edit of its
\* route or train, no delay and no new generation takes them away or renumbers
\* them (generateSnapshots of journey.service.js, the foreign keys of migrations
\* 008 and 010).
THEOREM BookedSnapshotsRemain == TimetableSpec => BookedSnapshotsStay
<1>1. TimetableInit => BookingsInv
  BY BookingsStart
<1>2. TrainsInv /\ BookingsInv /\ [TimetableNext]_timetableVars => BookingsInv'
  BY TimetableBookingsStep
<1>3. TrainsInv /\ BookingsInv /\ [TimetableNext]_timetableVars
        => [\A j \in booked :
              /\ journeySeats'[j] = journeySeats[j]
              /\ \A s \in journeySeats[j] : seats'[s] # None
              /\ [s \in DOMAIN journeyStations'[j] |-> journeyStations'[j][s].number]
                   = [s \in DOMAIN journeyStations[j] |-> journeyStations[j][s].number]]_timetableVars
  BY TimetableBookingsStep DEF SnapshotsKept
<1> QED
  BY <1>1, <1>2, <1>3, TrainsInvariant, PTL DEF TimetableSpec, BookedSnapshotsStay

-------------------------------------------------------------------------------
(* Routes: lists of stations                                                 *)

\* What the code's arrays of rows and ids are: each station once, the places
\* 0, 1, ... without a gap.
IsList(list) ==
  /\ DOMAIN list \subseteq Station
  /\ list \in Bijection(DOMAIN list, 0 .. Size(list) - 1)

LEMMA SizeIsNatural ==
  ASSUME NEW list, DOMAIN list \subseteq Station
  PROVE  /\ IsFiniteSet(DOMAIN list) /\ Size(list) \in Nat
         /\ \A S \in SUBSET DOMAIN list : IsFiniteSet(S) /\ Cardinality(S) \in Nat
BY RouteAssumption, FS_Subset, FS_CardinalityType DEF Size

LEMMA ListPlaces ==
  ASSUME NEW list, IsList(list)
  PROVE  /\ Size(list) \in Nat
         /\ list \in [DOMAIN list -> Nat]
         /\ \A s \in DOMAIN list : list[s] \in Nat /\ list[s] < Size(list)
         /\ \A place \in Nat : place < Size(list) => \E s \in DOMAIN list : list[s] = place
         /\ \A s, t \in DOMAIN list : list[s] = list[t] => s = t
<1>1. Size(list) \in Nat
  BY SizeIsNatural DEF IsList
<1>2. /\ list \in [DOMAIN list -> 0 .. Size(list) - 1]
      /\ \A place \in 0 .. Size(list) - 1 : \E s \in DOMAIN list : list[s] = place
      /\ \A s, t \in DOMAIN list : list[s] = list[t] => s = t
  BY DEF IsList, Bijection, Injection, Surjection, IsInjective
<1> QED
  BY <1>1, <1>2

\* The other way round.
LEMMA PlacesMakeList ==
  ASSUME NEW list, DOMAIN list \subseteq Station, list \in [DOMAIN list -> Int],
         \A s \in DOMAIN list : 0 <= list[s] /\ list[s] < Size(list),
         \A place \in Nat : place < Size(list) => \E s \in DOMAIN list : list[s] = place,
         \A s, t \in DOMAIN list : list[s] = list[t] => s = t
  PROVE  IsList(list)
<1>1. Size(list) \in Nat
  BY SizeIsNatural
<1>2. list \in [DOMAIN list -> 0 .. Size(list) - 1]
  BY <1>1
<1>3. \A place \in 0 .. Size(list) - 1 : \E s \in DOMAIN list : list[s] = place
  BY <1>1
<1> QED
  BY <1>2, <1>3 DEF IsList, Bijection, Injection, Surjection, IsInjective

LEMMA CountBelow ==
  ASSUME NEW n \in Nat
  PROVE  Cardinality(0 .. n - 1) = n
BY FS_Interval

\* Numbers without a gap are a list: there are too few of them for two stations to
\* share one.
LEMMA NumbersAreList ==
  ASSUME NEW list, DOMAIN list \subseteq Station, list = [s \in DOMAIN list |-> list[s]],
         {list[s] : s \in DOMAIN list} = 0 .. Size(list) - 1
  PROVE  IsList(list)
<1>1. Size(list) \in Nat /\ IsFiniteSet(DOMAIN list)
  BY SizeIsNatural
<1> DEFINE T == 0 .. Size(list) - 1
<1>2. Cardinality(T) = Size(list)
  <2>1. PICK n \in Nat : n = Size(list)
    BY <1>1
  <2> HIDE DEF T
  <2>2. Cardinality(0 .. n - 1) = n
    BY CountBelow
  <2> QED
    BY <2>1, <2>2 DEF T
<1>3. list \in Surjection(DOMAIN list, T)
  <2>1. list \in [DOMAIN list -> T]
    OBVIOUS
  <2>2. \A place \in T : \E s \in DOMAIN list : list[s] = place
    OBVIOUS
  <2> QED
    BY <2>1, <2>2 DEF Surjection
<1> HIDE DEF T
<1>4. list \in Injection(DOMAIN list, T)
  BY <1>1, <1>2, <1>3, FS_Surjection DEF Size
<1> QED
  BY <1>3, <1>4 DEF IsList, T, Bijection

LEMMA StationFound ==
  ASSUME NEW list, IsList(list), NEW place \in Nat, place < Size(list)
  PROVE  /\ StationAt(list, place) \in DOMAIN list
         /\ list[StationAt(list, place)] = place
         /\ \A s \in DOMAIN list : list[s] = place => s = StationAt(list, place)
BY ListPlaces DEF StationAt

\* There are as many stations before a station as its place says.
LEMMA PlacesCount ==
  ASSUME NEW list, IsList(list), NEW s \in DOMAIN list
  PROVE  Cardinality({t \in DOMAIN list : list[t] < list[s]}) = list[s]
<1> DEFINE before == {t \in DOMAIN list : list[t] < list[s]}
           places == [t \in before |-> list[t]]
           T == 0 .. list[s] - 1
<1>1. list[s] \in Nat /\ list[s] < Size(list) /\ Size(list) \in Nat
  BY ListPlaces
<1>2. IsFiniteSet(before)
  BY SizeIsNatural DEF IsList
<1>3. Cardinality(T) = list[s]
  BY <1>1, FS_Interval
<1>4. places \in [before -> T]
  BY <1>1, ListPlaces
<1>5. \A place \in T : \E t \in before : places[t] = place
  <2> SUFFICES ASSUME NEW place \in T PROVE \E t \in before : places[t] = place
    OBVIOUS
  <2>1. place \in Nat /\ place < list[s] /\ place < Size(list)
    BY <1>1
  <2>2. PICK t \in DOMAIN list : list[t] = place
    BY <2>1, ListPlaces
  <2> QED
    BY <2>1, <2>2
<1>6. \A t, u \in before : places[t] = places[u] => t = u
  BY ListPlaces
<1>7. DOMAIN places = before
  OBVIOUS
<1> HIDE DEF before, places, T
<1>8. places \in Surjection(before, T) /\ places \in Injection(before, T)
  BY <1>4, <1>5, <1>6, <1>7 DEF Surjection, Injection, IsInjective
<1>9. Cardinality(T) = Cardinality(before)
  BY <1>2, <1>8, FS_Surjection
<1> QED
  BY <1>3, <1>9 DEF before

\* Rows in the order of numbers without a gap are in the order of their numbers.
LEMMA InOrderOfList ==
  ASSUME NEW list, IsList(list)
  PROVE  InOrder(list, DOMAIN list) = list
<1>1. list = [s \in DOMAIN list |-> list[s]]
  BY ListPlaces
<1> QED
  BY <1>1, PlacesCount DEF InOrder

LEMMA ListReversed ==
  ASSUME NEW list, IsList(list)
  PROVE  IsList(Reversed(list)) /\ Size(Reversed(list)) = Size(list)
<1> DEFINE back == Reversed(list)
           n == Size(list)
<1>1. DOMAIN back = DOMAIN list /\ \A s \in DOMAIN list : back[s] = n - 1 - list[s]
  BY DEF Reversed
<1>2. Size(back) = n
  BY <1>1 DEF Size
<1>3. n \in Nat
  BY ListPlaces
<1>4. \A s \in DOMAIN list : list[s] \in Nat /\ list[s] < n
  BY ListPlaces
<1>5. \A s, t \in DOMAIN list : list[s] = list[t] => s = t
  BY ListPlaces
<1>6. back \in [DOMAIN back -> Int]
  BY <1>3, <1>4 DEF Reversed
<1>7. \A place \in Nat : place < Size(back) => \E s \in DOMAIN back : back[s] = place
  <2> SUFFICES ASSUME NEW place \in Nat, place < n PROVE \E s \in DOMAIN list : back[s] = place
    BY <1>1, <1>2
  <2>1. n - 1 - place \in Nat /\ n - 1 - place < n
    BY <1>3
  <2>2. PICK s \in DOMAIN list : list[s] = n - 1 - place
    <3> HIDE DEF n
    <3> QED
      BY <2>1, ListPlaces DEF n
  <2> QED
    BY <1>1, <1>3, <2>2
<1> HIDE DEF back, n
<1>8. DOMAIN back \subseteq Station
  BY <1>1 DEF IsList
<1>9. \A s \in DOMAIN back : 0 <= back[s] /\ back[s] < Size(back)
  BY <1>1, <1>2, <1>3, <1>4
<1>10. \A s, t \in DOMAIN back : back[s] = back[t] => s = t
  BY <1>1, <1>3, <1>4, <1>5
<1>11. IsList(back)
  BY <1>6, <1>7, <1>8, <1>9, <1>10, PlacesMakeList
<1> QED
  BY <1>2, <1>11 DEF back, n

LEMMA StationRemoved ==
  ASSUME NEW list, IsList(list), NEW s \in DOMAIN list
  PROVE  /\ IsList(Removed(list, s))
         /\ DOMAIN Removed(list, s) = DOMAIN list \ {s}
         /\ Size(Removed(list, s)) = Size(list) - 1
         /\ \A t, u \in DOMAIN list \ {s} :
              Removed(list, s)[t] <= Removed(list, s)[u] => list[t] <= list[u]
<1> DEFINE rest == Removed(list, s)
           n == Size(list)
<1>1. /\ DOMAIN rest = DOMAIN list \ {s}
      /\ \A t \in DOMAIN list \ {s} :
           rest[t] = IF list[t] < list[s] THEN list[t] ELSE list[t] - 1
  BY DEF Removed
<1>2. DOMAIN list \subseteq Station
  BY DEF IsList
<1>3. n \in Nat /\ list[s] \in Nat /\ list[s] < n
  BY ListPlaces
<1>4. \A t \in DOMAIN list : list[t] \in Nat /\ list[t] < n
  BY ListPlaces
<1>5. \A t, u \in DOMAIN list : list[t] = list[u] => t = u
  BY ListPlaces
<1>6. \A place \in Nat : place < n => \E t \in DOMAIN list : list[t] = place
  BY ListPlaces
<1>7. Size(rest) = n - 1
  BY <1>1, <1>2, SizeIsNatural, FS_RemoveElement DEF Size
<1>8. rest \in [DOMAIN rest -> Int]
  BY <1>3, <1>4 DEF Removed
<1> HIDE DEF rest, n
<1>9. \A t \in DOMAIN rest : 0 <= rest[t] /\ rest[t] < Size(rest)
  BY <1>1, <1>3, <1>4, <1>5, <1>7
<1>10. \A place \in Nat : place < Size(rest) => \E t \in DOMAIN rest : rest[t] = place
  <2> SUFFICES ASSUME NEW place \in Nat, place < n - 1 PROVE \E t \in DOMAIN rest : rest[t] = place
    BY <1>7
  <2>1. CASE place < list[s]
    BY <1>1, <1>3, <1>6, <2>1
  <2>2. CASE place >= list[s]
    <3>1. PICK t \in DOMAIN list : list[t] = place + 1
      BY <1>3, <1>6
    <3> QED
      BY <1>1, <1>3, <2>2, <3>1
  <2> QED
    BY <1>3, <2>1, <2>2
<1>11. \A t, u \in DOMAIN rest : rest[t] <= rest[u] => list[t] <= list[u]
  BY <1>1, <1>3, <1>4, <1>5
<1>12. \A t, u \in DOMAIN rest : rest[t] = rest[u] => t = u
  BY <1>1, <1>3, <1>4, <1>5
<1>13. IsList(rest)
  BY <1>1, <1>2, <1>8, <1>9, <1>10, <1>12, PlacesMakeList
<1> QED
  BY <1>1, <1>7, <1>11, <1>13 DEF rest, n

LEMMA StationInserted ==
  ASSUME NEW list, IsList(list), NEW s \in Station, s \notin DOMAIN list,
         NEW place \in Nat, place <= Size(list)
  PROVE  /\ IsList(Inserted(list, s, place))
         /\ DOMAIN Inserted(list, s, place) = DOMAIN list \union {s}
<1> DEFINE more == Inserted(list, s, place)
           n == Size(list)
<1>1. /\ DOMAIN more = DOMAIN list \union {s}
      /\ more[s] = place
      /\ \A t \in DOMAIN list :
           more[t] = IF list[t] < place THEN list[t] ELSE list[t] + 1
  BY DEF Inserted
<1>2. DOMAIN list \subseteq Station
  BY DEF IsList
<1>3. n \in Nat /\ place <= n
  BY ListPlaces
<1>4. \A t \in DOMAIN list : list[t] \in Nat /\ list[t] < n
  BY ListPlaces
<1>5. \A t, u \in DOMAIN list : list[t] = list[u] => t = u
  BY ListPlaces
<1>6. \A q \in Nat : q < n => \E t \in DOMAIN list : list[t] = q
  BY ListPlaces
<1>7. Size(more) = n + 1
  BY <1>1, <1>2, SizeIsNatural, FS_AddElement DEF Size
<1>8. more \in [DOMAIN more -> Int]
  BY <1>4 DEF Inserted
<1> HIDE DEF more, n
<1>9. \A t \in DOMAIN more : 0 <= more[t] /\ more[t] < Size(more)
  BY <1>1, <1>3, <1>4, <1>7
<1>10. \A q \in Nat : q < Size(more) => \E t \in DOMAIN more : more[t] = q
  <2> SUFFICES ASSUME NEW q \in Nat, q < n + 1 PROVE \E t \in DOMAIN more : more[t] = q
    BY <1>7
  <2>1. CASE q < place
    BY <1>1, <1>3, <1>6, <2>1
  <2>2. CASE q = place
    BY <1>1, <2>2
  <2>3. CASE q > place
    <3>1. PICK t \in DOMAIN list : list[t] = q - 1
      BY <1>3, <1>6, <2>3
    <3> QED
      BY <1>1, <1>3, <2>3, <3>1
  <2> QED
    BY <1>3, <2>1, <2>2, <2>3
<1>11. \A t, u \in DOMAIN more : more[t] = more[u] => t = u
  BY <1>1, <1>3, <1>4, <1>5
<1>12. IsList(more)
  BY <1>1, <1>2, <1>8, <1>9, <1>10, <1>11, PlacesMakeList
<1> QED
  BY <1>1, <1>12 DEF more

\* Rows of different numbers, in their order, are a list.
LEMMA RanksAreList ==
  ASSUME NEW numbers, NEW S, S \subseteq DOMAIN numbers, S \subseteq Station,
         \A s \in S : numbers[s] \in Nat,
         \A s, t \in S : numbers[s] = numbers[t] => s = t
  PROVE  IsList(InOrder(numbers, S)) /\ DOMAIN InOrder(numbers, S) = S
<1> DEFINE before(s) == {t \in S : numbers[t] < numbers[s]}
           list == InOrder(numbers, S)
           n == Cardinality(S)
           T == 0 .. n - 1
<1>1. DOMAIN list = S /\ \A s \in S : list[s] = Cardinality(before(s))
  BY DEF InOrder
<1>2. IsFiniteSet(S) /\ n \in Nat
  BY RouteAssumption, FS_Subset, FS_CardinalityType
<1>3. ASSUME NEW s \in S
      PROVE  IsFiniteSet(before(s)) /\ Cardinality(before(s)) \in Nat /\ Cardinality(before(s)) < n
  <2>1. before(s) \in SUBSET S /\ s \notin before(s)
    BY <1>3
  <2> HIDE DEF before
  <2>2. IsFiniteSet(before(s)) /\ Cardinality(before(s)) <= Cardinality(S)
        /\ Cardinality(before(s)) \in Nat
    BY <1>2, <2>1, FS_Subset, FS_CardinalityType
  <2>3. Cardinality(before(s)) # Cardinality(S)
    BY <1>2, <2>1, FS_Subset
  <2> QED
    BY <1>2, <2>2, <2>3
<1>4. ASSUME NEW s \in S, NEW t \in S, numbers[s] < numbers[t]
      PROVE  list[s] < list[t]
  <2>1. before(s) \in SUBSET before(t)
    BY <1>4
  <2>2. s \in before(t) /\ s \notin before(s)
    BY <1>4
  <2> HIDE DEF before, list
  <2>3. Cardinality(before(s)) <= Cardinality(before(t))
    BY <1>3, <2>1, FS_Subset
  <2>4. Cardinality(before(s)) # Cardinality(before(t))
    BY <1>3, <2>1, <2>2, FS_Subset
  <2> QED
    BY <1>1, <1>3, <2>3, <2>4
<1>5. list = [s \in S |-> list[s]]
  BY DEF InOrder
<1> HIDE DEF before, list
<1>6. \A s \in S : list[s] \in Nat /\ list[s] < n
  BY <1>1, <1>3
<1>7. list \in [S -> T]
  BY <1>2, <1>5, <1>6
<1>8. \A s, t \in S : list[s] = list[t] => s = t
  <2> SUFFICES ASSUME NEW s \in S, NEW t \in S, s # t PROVE list[s] # list[t]
    OBVIOUS
  <2>1. numbers[s] < numbers[t] \/ numbers[t] < numbers[s]
    OBVIOUS
  <2> QED
    BY <1>4, <1>6, <2>1
<1> HIDE DEF n
<1>9. Cardinality(T) = n /\ IsFiniteSet(T)
  BY <1>2, CountBelow, FS_Interval
<1> HIDE DEF T
<1>10. list \in Injection(S, T)
  BY <1>1, <1>7, <1>8 DEF Injection, IsInjective
<1>11. list \in Surjection(S, T)
  BY <1>9, <1>10, FS_Injection DEF n
<1>12. Size(list) = n
  BY <1>1 DEF Size, n
<1> QED
  BY <1>1, <1>10, <1>11, <1>12 DEF IsList, Bijection, T, list

-------------------------------------------------------------------------------
(* Routes: their rows                                                        *)

StopRows == UNION {[D -> StopRow] : D \in SUBSET Station}
Orders == UNION {[D -> Nat] : D \in SUBSET Station}

LEMMA RowsTyped ==
  ASSUME NEW rows \in StopRows
  PROVE  /\ DOMAIN rows \subseteq Station /\ rows \in [DOMAIN rows -> StopRow]
         /\ \A s \in DOMAIN rows : rows[s] \in StopRow
         /\ Numbers(rows) \in Orders /\ DOMAIN Numbers(rows) = DOMAIN rows
         /\ \A s \in DOMAIN rows : Numbers(rows)[s] = rows[s].number
BY DEF StopRows, StopRow, Numbers, Orders

\* No row of a route is a row of no route.
LEMMA NoRowsTyped == NoRows \in StopRows /\ NoRows \in Orders /\ DOMAIN NoRows = {}
BY DEF NoRows, StopRows, Orders

\* A row that may not have its number yet.
Unnumbered(row) ==
  /\ row = [number |-> row.number, km |-> row.km, arrives |-> row.arrives,
            departs |-> row.departs]
  /\ row.km \in Nat /\ row.arrives \in Offset /\ row.departs \in Offset

\* #resequence gives the rows of a list its places and keeps uq_route_sequence.
LEMMA RowsResequenced ==
  ASSUME NEW rows, rows = [s \in DOMAIN rows |-> rows[s]], DOMAIN rows \subseteq Station,
         NEW list, IsList(list), DOMAIN list \subseteq DOMAIN rows,
         CanResequence(rows, list),
         \A s \in DOMAIN list : Unnumbered(rows[s]),
         \A s \in DOMAIN rows \ DOMAIN list : rows[s] \in StopRow,
         \A s, t \in DOMAIN rows \ DOMAIN list : rows[s].number = rows[t].number => s = t
  PROVE  /\ Resequenced(rows, list) \in StopRows
         /\ IsInjective(Numbers(Resequenced(rows, list)))
         /\ DOMAIN Resequenced(rows, list) = DOMAIN rows
         /\ \A s \in DOMAIN rows : Resequenced(rows, list)[s].km = rows[s].km
         /\ DOMAIN list = DOMAIN rows => Numbers(Resequenced(rows, list)) = list
<1> DEFINE new == Resequenced(rows, list)
<1>1. /\ DOMAIN new = DOMAIN rows
      /\ new = [s \in DOMAIN rows |-> new[s]]
      /\ \A s \in DOMAIN list : new[s] = [rows[s] EXCEPT !.number = list[s]]
      /\ \A s \in DOMAIN rows \ DOMAIN list : new[s] = rows[s]
  BY DEF Resequenced
<1>2. \A s \in DOMAIN list : list[s] \in Nat /\ list[s] < Size(list)
  BY ListPlaces
<1> HIDE DEF new
<1>3. ASSUME NEW s \in DOMAIN list
      PROVE  new[s] \in StopRow /\ new[s].number = list[s] /\ new[s].km = rows[s].km
  <2>1. PICK row, place : row = rows[s] /\ place = list[s]
    OBVIOUS
  <2>2. Unnumbered(row) /\ place \in Nat /\ new[s] = [row EXCEPT !.number = place]
    BY <1>1, <1>2, <1>3, <2>1
  <2>3. [row EXCEPT !.number = place]
          = [number |-> place, km |-> row.km, arrives |-> row.arrives, departs |-> row.departs]
    BY <2>2 DEF Unnumbered
  <2> QED
    BY <2>1, <2>2, <2>3 DEF Unnumbered, StopRow
<1>4. new \in StopRows
  BY <1>1, <1>3 DEF StopRows
<1>5. \A s \in DOMAIN rows \ DOMAIN list : rows[s].number \notin 0 .. Size(list) - 1
  BY DEF CanResequence
<1>6. \A s \in DOMAIN rows \ DOMAIN list : \A t \in DOMAIN list : new[s].number # new[t].number
  <2>1. Size(list) \in Nat
    BY ListPlaces
  <2> QED
    BY <1>1, <1>2, <1>3, <1>5, <2>1
<1>7. \A s, t \in DOMAIN list : new[s].number = new[t].number => s = t
  BY <1>3, ListPlaces
<1>8. \A s, t \in DOMAIN rows : new[s].number = new[t].number => s = t
  BY <1>1, <1>6, <1>7
<1>9. DOMAIN list = DOMAIN rows => Numbers(new) = list
  <2>1. list = [s \in DOMAIN list |-> list[s]]
    BY ListPlaces
  <2> QED
    BY <1>1, <1>3, <2>1 DEF Numbers
<1>10. IsInjective(Numbers(new))
  BY <1>1, <1>8 DEF IsInjective, Numbers
<1> QED
  BY <1>1, <1>3, <1>4, <1>9, <1>10 DEF new

\* Rows that are numbered by a list along which distances never decrease, under a
\* route that names its ends, are in order.
LEMMA ListedRowsOrdered ==
  ASSUME NEW rows, NEW list, IsList(list), DOMAIN list = DOMAIN rows,
         Numbers(rows) = list, Ascending(rows, list), NEW route,
         Size(list) >= 2 =>
           /\ route.startStationId = StationAt(list, 0)
           /\ route.endStationId = LastOf(list)
           /\ route.totalDistanceKm >= rows[LastOf(list)].km
  PROVE  RouteOrdered(route, rows)
<1>1. {rows[s].number : s \in DOMAIN rows} = {list[s] : s \in DOMAIN list}
  BY DEF Numbers
<1>2. {list[s] : s \in DOMAIN list} = 0 .. Size(list) - 1
  BY DEF IsList, Bijection, Surjection
<1> QED
  BY <1>1, <1>2 DEF RouteOrdered

\* An ordered route's numbers are a list.
LEMMA OrderedNumbersAreList ==
  ASSUME NEW rows \in StopRows, NEW route, RouteOrdered(route, rows)
  PROVE  IsList(Numbers(rows))
<1> DEFINE list == Numbers(rows)
<1>1. list = [s \in DOMAIN list |-> list[s]] /\ DOMAIN list \subseteq Station
  BY RowsTyped DEF Numbers
<1>2. {list[s] : s \in DOMAIN list} = {rows[s].number : s \in DOMAIN rows}
  BY DEF Numbers
<1>3. {list[s] : s \in DOMAIN list} = 0 .. Size(list) - 1
  BY <1>2 DEF RouteOrdered
<1> HIDE DEF list
<1> QED
  BY <1>1, <1>3, NumbersAreList DEF list

LEMMA EndpointsSynced ==
  ASSUME NEW current \in RouteRow, NEW read, NEW rows, NEW list, IsList(list),
         DOMAIN list \subseteq DOMAIN rows, \A s \in DOMAIN list : rows[s].km \in Nat
  PROVE  /\ SyncedEndpoints(current, read, rows, list) \in RouteRow
         /\ Size(list) >= 2 /\ read = current =>
              /\ SyncedEndpoints(current, read, rows, list).startStationId = StationAt(list, 0)
              /\ SyncedEndpoints(current, read, rows, list).endStationId = LastOf(list)
              /\ SyncedEndpoints(current, read, rows, list).totalDistanceKm = rows[LastOf(list)].km
<1>1. CASE Size(list) < 2
  <2>1. Size(list) \in Nat
    BY ListPlaces
  <2> QED
    BY <1>1, <2>1 DEF SyncedEndpoints
<1>2. CASE Size(list) >= 2
  <2>1. Size(list) \in Nat
    BY ListPlaces
  <2>2. StationAt(list, 0) \in DOMAIN list /\ LastOf(list) \in DOMAIN list
    BY <1>2, <2>1, StationFound DEF LastOf
  <2>3. PICK first, last, km : first = StationAt(list, 0) /\ last = LastOf(list) /\ km = rows[last].km
    OBVIOUS
  <2>4. first \in Station /\ last \in Station /\ km \in Nat
    BY <2>2, <2>3 DEF IsList
  <2>5. SyncedEndpoints(current, read, rows, list)
          = Updated(current, read, [startStationId |-> first, endStationId |-> last,
                                    totalDistanceKm |-> km])
    BY <1>2, <2>1, <2>3 DEF SyncedEndpoints
  <2>6. PICK new : new = Updated(current, read, [startStationId |-> first, endStationId |-> last,
                                    totalDistanceKm |-> km])
    OBVIOUS
  <2>7. /\ new \in RouteRow
        /\ read = current => new.startStationId = first /\ new.endStationId = last
                             /\ new.totalDistanceKm = km
    BY <2>4, <2>6 DEF Updated, RouteRow
  <2> QED
    BY <2>3, <2>5, <2>6, <2>7
<1> QED
  BY <1>1, <1>2, ListPlaces

LEMMA PatchedRoute ==
  ASSUME NEW current \in RouteRow, NEW read, NEW values \in RoutePatches
  PROVE  /\ Updated(current, read, values) \in RouteRow
         /\ DOMAIN values = {"isActive"} =>
              Updated(current, read, values) = [current EXCEPT !.isActive = Updated(current, read, values).isActive]
BY RouteAssumption DEF Updated, RouteRow

-------------------------------------------------------------------------------
(* Routes: the inductive invariant                                           *)

Edit ==
  [phase : {"READ", "LOCKING"}, route : Route, row : RouteRow, present : SUBSET Station,
   order : Orders]

RouteTables ==
  /\ activeStations \subseteq Station
  /\ routes \in [Route -> RouteRow \union {None}]
  /\ routeStations \in [Route -> StopRows]
  /\ edit \in [Editor -> Edit \union {Idle}]
  /\ rowQueue \in [Route -> Seq(Editor)]
  /\ unchecked \subseteq Route
  /\ routeSteps \in 0 .. MaxRouteSteps

\* The foreign key of route_stations.
RowsHaveRoutes == \A r \in Route : routes[r] = None => routeStations[r] = NoRows

\* uq_route_sequence, now and when an open edit read the order.
NumbersUnique ==
  /\ \A r \in Route : IsInjective(Numbers(routeStations[r]))
  /\ \A e \in Editor : edit[e] # Idle => IsInjective(edit[e].order)

RoutesInv == RouteTables /\ RowsHaveRoutes /\ NumbersUnique /\ RoutesStayOrdered

LEMMA RoutesStart == RoutesInit => RoutesInv
<1> SUFFICES ASSUME RoutesInit PROVE RoutesInv
  OBVIOUS
<1>1. RouteTables
  BY NoRowsTyped, RouteAssumption DEF RoutesInit, RouteTables
<1>2. RowsHaveRoutes /\ NumbersUnique /\ RoutesStayOrdered
  BY NoRowsTyped DEF RoutesInit, RowsHaveRoutes, NumbersUnique, RoutesStayOrdered, IsInjective, Numbers
<1> QED
  BY <1>1, <1>2 DEF RoutesInv

\* A request is counted, or a step is not one.
LEMMA RouteStepCounted ==
  ASSUME routeSteps \in 0 .. MaxRouteSteps, CountRouteStep
  PROVE  routeSteps' \in 0 .. MaxRouteSteps
BY RouteAssumption DEF CountRouteStep

\* The edits that are open stay typed and ordered when one begins, waits or ends.
LEMMA EditChanged ==
  ASSUME RoutesInv, NEW e \in Editor, NEW next \in Edit \union {Idle},
         edit' = [edit EXCEPT ![e] = next],
         next # Idle => IsInjective(next.order)
  PROVE  /\ edit' \in [Editor -> Edit \union {Idle}]
         /\ \A d \in Editor : edit'[d] # Idle => IsInjective(edit'[d].order)
BY DEF RoutesInv, RouteTables, NumbersUnique

LEMMA EditOver ==
  ASSUME RoutesInv, NEW e \in Editor, HasRows(e), EndEdit(e)
  PROVE  /\ edit' \in [Editor -> Edit \union {Idle}]
         /\ \A d \in Editor : edit'[d] # Idle => IsInjective(edit'[d].order)
         /\ rowQueue' \in [Route -> Seq(Editor)]
         /\ activeStations' \subseteq Station /\ routeSteps' \in 0 .. MaxRouteSteps
<1>1. edit' = [edit EXCEPT ![e] = Idle]
  BY DEF EndEdit
<1>2. rowQueue' \in [Route -> Seq(Editor)]
  <2>1. edit[e].route \in Route /\ rowQueue[edit[e].route] # <<>>
    BY DEF HasRows, RoutesInv, RouteTables, Edit, Idle
  <2>2. PICK r \in Route : r = edit[e].route
    BY <2>1
  <2>3. rowQueue[r] \in Seq(Editor) /\ rowQueue[r] # <<>>
    BY <2>1, <2>2 DEF RoutesInv, RouteTables
  <2>4. Tail(rowQueue[r]) \in Seq(Editor)
    BY <2>3
  <2> QED
    BY <2>2, <2>4 DEF EndEdit, RoutesInv, RouteTables
<1>3. activeStations' \subseteq Station /\ routeSteps' \in 0 .. MaxRouteSteps
  BY DEF EndEdit, RoutesInv, RouteTables
<1> QED
  BY <1>1, <1>2, <1>3, EditChanged

\* What an edit that has the rows works on.
LEMMA RecordsListed ==
  ASSUME RoutesInv, NEW e \in Editor, HasRows(e), NEW r, r = edit[e].route
  PROVE  /\ r \in Route /\ edit[e] \in Edit /\ routeStations[r] \in StopRows
         /\ IsList(Records(e)) /\ DOMAIN Records(e) \subseteq DOMAIN routeStations[r]
         /\ r \notin unchecked /\ routes[r] # None /\ ~OrderIsStale(e) =>
              /\ Records(e) = Numbers(routeStations[r])
              /\ DOMAIN Records(e) = DOMAIN routeStations[r]
<1>1. r \in Route /\ edit[e] \in Edit /\ edit[e] # Idle
  BY DEF HasRows, RoutesInv, RouteTables, Edit, Idle
<1>2. routeStations[r] \in StopRows
  BY <1>1 DEF RoutesInv, RouteTables
<1> DEFINE order == edit[e].order
           S == DOMAIN order \intersect DOMAIN routeStations[r]
<1>3. Records(e) = InOrder(order, S)
  BY DEF Records
<1>4. IsInjective(order) /\ order \in Orders
  BY <1>1 DEF RoutesInv, NumbersUnique, Edit
<1>5. /\ S \subseteq DOMAIN order /\ S \subseteq Station
      /\ \A s \in S : order[s] \in Nat
      /\ \A s, t \in S : order[s] = order[t] => s = t
  BY <1>4 DEF Orders, IsInjective
<1> HIDE DEF order
<1>6. IsList(InOrder(order, S)) /\ DOMAIN InOrder(order, S) = S
  BY <1>5, RanksAreList
<1>7. ASSUME r \notin unchecked, routes[r] # None, ~OrderIsStale(e)
      PROVE  Records(e) = Numbers(routeStations[r]) /\ S = DOMAIN routeStations[r]
  <2>1. order = Numbers(routeStations[r])
    BY <1>7 DEF OrderIsStale, order
  <2>2. S = DOMAIN order /\ S = DOMAIN routeStations[r]
    BY <2>1 DEF Numbers
  <2>3. IsList(order)
    BY <1>1, <1>2, <1>7, <2>1, OrderedNumbersAreList DEF RoutesInv, RoutesStayOrdered
  <2>4. InOrder(order, DOMAIN order) = order
    BY <2>3, InOrderOfList
  <2> HIDE DEF S
  <2> QED
    BY <1>3, <2>1, <2>2, <2>4
<1> QED
  BY <1>1, <1>2, <1>3, <1>6, <1>7

LEMMA EditCommitted ==
  ASSUME RoutesInv, NEW e \in Editor, HasRows(e), NEW r, r = edit[e].route,
         NEW row \in RouteRow, NEW rows \in StopRows, NEW stale \in BOOLEAN,
         CommitEdit(e, row, rows, stale), IsInjective(Numbers(rows)),
         ~stale /\ r \notin unchecked => RouteOrdered(row, rows)
  PROVE  RoutesInv'
<1>1. r \in Route
  BY RecordsListed
<1>2. /\ routes' = [routes EXCEPT ![r] = row]
      /\ routeStations' = [routeStations EXCEPT ![r] = rows]
      /\ unchecked' = IF stale THEN unchecked \union {r} ELSE unchecked
      /\ EndEdit(e)
  BY DEF CommitEdit
<1>3. RouteTables'
  BY <1>1, <1>2, EditOver DEF RoutesInv, RouteTables
<1>4. /\ routes'[r] = row /\ routeStations'[r] = rows /\ row # None
      /\ \A q \in Route \ {r} : routes'[q] = routes[q] /\ routeStations'[q] = routeStations[q]
  BY <1>1, <1>2, RouteAssumption DEF RoutesInv, RouteTables
<1>5. RowsHaveRoutes'
  BY <1>4 DEF RoutesInv, RowsHaveRoutes
<1>6. NumbersUnique'
  <2>1. ASSUME NEW q \in Route PROVE IsInjective(Numbers(routeStations'[q]))
    BY <1>4 DEF RoutesInv, NumbersUnique
  <2> QED
    BY <1>2, <2>1, EditOver DEF NumbersUnique
<1>7. RoutesStayOrdered'
  <2> SUFFICES ASSUME NEW q \in Route \ unchecked', routes'[q] # None
               PROVE  RouteOrdered(routes'[q], routeStations'[q])
    BY DEF RoutesStayOrdered
  <2>1. q \notin unchecked /\ (q = r => ~stale)
    BY <1>2
  <2> QED
    BY <1>4, <2>1 DEF RoutesInv, RoutesStayOrdered
<1> QED
  BY <1>3, <1>5, <1>6, <1>7 DEF RoutesInv

\* The edits that number the rows again and bring the route's ends up to date: what
\* they have made sure of when they commit.
Resequencing(e, read, rows, list, stale) ==
  LET r == edit[e].route
  IN  /\ HasRows(e) /\ routes[r] # None
      /\ rows = [s \in DOMAIN rows |-> rows[s]] /\ DOMAIN rows \subseteq Station
      /\ IsList(list) /\ DOMAIN list \subseteq DOMAIN rows
      /\ CanResequence(rows, list)
      /\ \A s \in DOMAIN list : Unnumbered(rows[s])
      /\ \A s \in DOMAIN rows \ DOMAIN list : rows[s] \in StopRow
      /\ \A s, t \in DOMAIN rows \ DOMAIN list : rows[s].number = rows[t].number => s = t
      /\ ~stale /\ r \notin unchecked =>
           read = routes[r] /\ DOMAIN list = DOMAIN rows /\ Ascending(rows, list)
      /\ CommitEdit(e, SyncedEndpoints(routes[r], read, rows, list), Resequenced(rows, list), stale)

LEMMA ResequencingCommitted ==
  ASSUME RoutesInv, NEW e \in Editor, NEW read, NEW rows, NEW list, NEW stale \in BOOLEAN,
         Resequencing(e, read, rows, list, stale)
  PROVE  RoutesInv'
<1> PICK r : r = edit[e].route
  OBVIOUS
<1> USE DEF Resequencing
<1> DEFINE new == Resequenced(rows, list)
           row == SyncedEndpoints(routes[r], read, rows, list)
<1>1. /\ new \in StopRows /\ IsInjective(Numbers(new)) /\ DOMAIN new = DOMAIN rows
      /\ \A s \in DOMAIN rows : new[s].km = rows[s].km
      /\ DOMAIN list = DOMAIN rows => Numbers(new) = list
  BY RowsResequenced
<1>2. routes[r] \in RouteRow
  BY RecordsListed DEF RoutesInv, RouteTables
<1>3. \A s \in DOMAIN list : rows[s].km \in Nat
  BY DEF Unnumbered
<1>4. /\ row \in RouteRow
      /\ Size(list) >= 2 /\ read = routes[r] =>
           /\ row.startStationId = StationAt(list, 0)
           /\ row.endStationId = LastOf(list)
           /\ row.totalDistanceKm = rows[LastOf(list)].km
  BY <1>2, <1>3, EndpointsSynced
<1> HIDE DEF new, row
<1>5. ASSUME ~stale, r \notin unchecked PROVE RouteOrdered(row, new)
  <2>1. read = routes[r] /\ DOMAIN list = DOMAIN rows /\ Ascending(rows, list)
    BY <1>5
  <2>2. Ascending(new, list)
    BY <1>1, <2>1 DEF Ascending
  <2>3. ASSUME Size(list) >= 2
        PROVE  /\ row.startStationId = StationAt(list, 0)
               /\ row.endStationId = LastOf(list)
               /\ row.totalDistanceKm >= new[LastOf(list)].km
    <3>1. Size(list) \in Nat
      BY ListPlaces
    <3>2. LastOf(list) \in DOMAIN list
      BY <2>3, <3>1, StationFound DEF LastOf
    <3> QED
      BY <1>1, <1>3, <1>4, <2>1, <2>3, <3>2
  <2> QED
    BY <1>1, <2>1, <2>2, <2>3, ListedRowsOrdered
<1>6. CommitEdit(e, row, new, stale)
  BY DEF row, new
<1> QED
  BY <1>1, <1>4, <1>5, <1>6, EditCommitted

\* A row of the table is one that #resequence may number again.
LEMMA StopsUnnumbered ==
  ASSUME NEW row \in StopRow PROVE Unnumbered(row)
BY DEF StopRow, Unnumbered

LEMMA StationAdded ==
  ASSUME RoutesInv, NEW e \in Editor, NEW input \in StopInput, NEW place,
         AddStation(e, input, place)
  PROVE  RoutesInv'
<1> DEFINE r == edit[e].route
           s == input.stationId
           old == routeStations[r]
           records == Records(e)
           temporary == TemporarySequence(old, DOMAIN records)
           list == Inserted(records, s, place)
           rows == [t \in DOMAIN old \union {s} |->
                      IF t = s THEN [number |-> temporary, km |-> input.km,
                                     arrives |-> input.arrives, departs |-> input.departs]
                      ELSE old[t]]
           stale == OrderIsStale(e) \/ RowIsStale(e)
<1>1. /\ HasRows(e) /\ routes[r] # None /\ s \notin DOMAIN old
      /\ place \in 0 .. Size(records)
      /\ DistancesValid(rows, list) /\ CanResequence(rows, list)
      /\ CommitEdit(e, SyncedEndpoints(routes[r], edit[e].row, rows, list),
                    Resequenced(rows, list), stale)
  BY DEF AddStation
<1>2. /\ r \in Route /\ old \in StopRows /\ IsList(records) /\ DOMAIN records \subseteq DOMAIN old
      /\ r \notin unchecked /\ ~OrderIsStale(e) => DOMAIN records = DOMAIN old
  BY <1>1, RecordsListed
<1>3. s \in Station /\ input.km \in Nat /\ input.arrives \in Offset /\ input.departs \in Offset
  BY RouteAssumption
<1>4. DOMAIN old \subseteq Station /\ \A t \in DOMAIN old : old[t] \in StopRow /\ Unnumbered(old[t])
  BY <1>2, RowsTyped, StopsUnnumbered
<1>5. \A t, u \in DOMAIN old : old[t].number = old[u].number => t = u
  BY <1>2 DEF RoutesInv, NumbersUnique, IsInjective, Numbers
<1>6. IsList(list) /\ DOMAIN list = DOMAIN records \union {s}
  <2>1. place \in Nat /\ place <= Size(records)
    BY <1>1, <1>2, ListPlaces
  <2>2. s \notin DOMAIN records
    BY <1>1, <1>2
  <2> QED
    BY <1>2, <1>3, <2>1, <2>2, StationInserted
<1>7. /\ rows = [t \in DOMAIN rows |-> rows[t]] /\ DOMAIN rows = DOMAIN old \union {s}
      /\ \A t \in DOMAIN old : t # s => rows[t] = old[t]
      /\ rows[s] = [number |-> temporary, km |-> input.km,
                    arrives |-> input.arrives, departs |-> input.departs]
  OBVIOUS
<1> HIDE DEF rows, list, temporary
<1>8. Unnumbered(rows[s])
  BY <1>3, <1>7 DEF Unnumbered
<1>9. ~stale /\ r \notin unchecked =>
        edit[e].row = routes[r] /\ DOMAIN list = DOMAIN rows /\ Ascending(rows, list)
  BY <1>1, <1>2, <1>6, <1>7 DEF RowIsStale, DistancesValid
<1>10. /\ DOMAIN rows \subseteq Station /\ DOMAIN list \subseteq DOMAIN rows
       /\ \A t \in DOMAIN list : Unnumbered(rows[t])
       /\ \A t \in DOMAIN rows \ DOMAIN list : rows[t] \in StopRow
       /\ \A t, u \in DOMAIN rows \ DOMAIN list : rows[t].number = rows[u].number => t = u
  BY <1>1, <1>2, <1>3, <1>4, <1>5, <1>6, <1>7, <1>8
<1>11. stale \in BOOLEAN
  BY DEF OrderIsStale, RowIsStale
<1>12. Resequencing(e, edit[e].row, rows, list, stale)
  <2> HIDE DEF stale
  <2> QED
    BY <1>1, <1>6, <1>7, <1>9, <1>10, <1>11 DEF Resequencing
<1> HIDE DEF stale
<1> QED
  BY <1>12, <1>11, ResequencingCommitted

LEMMA StationTakenOut ==
  ASSUME RoutesInv, NEW e \in Editor, NEW s, RemoveStation(e, s)
  PROVE  RoutesInv'
<1> DEFINE r == edit[e].route
           old == routeStations[r]
           records == Records(e)
           list == Removed(records, s)
           rows == Restrict(old, DOMAIN old \ {s})
           stale == OrderIsStale(e) \/ RowIsStale(e)
<1>1. /\ HasRows(e) /\ s \in DOMAIN records /\ CanResequence(rows, list)
      /\ CommitEdit(e, SyncedEndpoints(routes[r], edit[e].row, rows, list),
                    Resequenced(rows, list), stale)
  BY DEF RemoveStation
<1>2. /\ r \in Route /\ old \in StopRows /\ IsList(records) /\ DOMAIN records \subseteq DOMAIN old
      /\ r \notin unchecked /\ routes[r] # None /\ ~OrderIsStale(e) =>
           records = Numbers(old) /\ DOMAIN records = DOMAIN old
  BY <1>1, RecordsListed
<1>3. routes[r] # None
  BY <1>1, <1>2, NoRowsTyped DEF RoutesInv, RowsHaveRoutes
<1>4. DOMAIN old \subseteq Station /\ \A t \in DOMAIN old : old[t] \in StopRow /\ Unnumbered(old[t])
  BY <1>2, RowsTyped, StopsUnnumbered
<1>5. \A t, u \in DOMAIN old : old[t].number = old[u].number => t = u
  BY <1>2 DEF RoutesInv, NumbersUnique, IsInjective, Numbers
<1>6. /\ IsList(list) /\ DOMAIN list = DOMAIN records \ {s}
      /\ \A t, u \in DOMAIN records \ {s} : list[t] <= list[u] => records[t] <= records[u]
  BY <1>1, <1>2, StationRemoved
<1>7. /\ rows = [t \in DOMAIN rows |-> rows[t]] /\ DOMAIN rows = DOMAIN old \ {s}
      /\ \A t \in DOMAIN rows : rows[t] = old[t]
  BY DEF Restrict
<1> HIDE DEF rows, list
<1>8. ASSUME ~stale, r \notin unchecked
      PROVE  edit[e].row = routes[r] /\ DOMAIN list = DOMAIN rows /\ Ascending(rows, list)
  <2>1. records = Numbers(old) /\ DOMAIN records = DOMAIN old
    BY <1>2, <1>3, <1>8
  <2>2. Ascending(old, records)
    BY <1>2, <1>3, <1>8, <2>1 DEF RoutesInv, RoutesStayOrdered, RouteOrdered
  <2>3. Ascending(rows, list)
    BY <1>6, <1>7, <2>1, <2>2 DEF Ascending
  <2> QED
    BY <1>6, <1>7, <1>8, <2>1, <2>3 DEF RowIsStale
<1>9. /\ DOMAIN rows \subseteq Station /\ DOMAIN list \subseteq DOMAIN rows
      /\ \A t \in DOMAIN list : Unnumbered(rows[t])
      /\ \A t \in DOMAIN rows \ DOMAIN list : rows[t] \in StopRow
      /\ \A t, u \in DOMAIN rows \ DOMAIN list : rows[t].number = rows[u].number => t = u
  BY <1>2, <1>4, <1>5, <1>6, <1>7
<1>10. stale \in BOOLEAN
  BY DEF OrderIsStale, RowIsStale
<1>11. Resequencing(e, edit[e].row, rows, list, stale)
  <2> HIDE DEF stale
  <2> QED
    BY <1>1, <1>3, <1>6, <1>7, <1>8, <1>9, <1>10 DEF Resequencing
<1> HIDE DEF stale
<1> QED
  BY <1>11, <1>10, ResequencingCommitted

LEMMA StationsReordered ==
  ASSUME RoutesInv, NEW e \in Editor, Reorder(e)
  PROVE  RoutesInv'
<1> DEFINE r == edit[e].route
           old == routeStations[r]
           records == Records(e)
<1>1. PICK list \in Bijection(DOMAIN records, 0 .. Size(records) - 1),
           distances \in [DOMAIN records -> Distances] :
        ReorderRouteStations(e, list, distances)
  BY DEF Reorder
<1> DEFINE rows == [s \in DOMAIN old |->
                      IF s \in DOMAIN list THEN [old[s] EXCEPT !.km = distances[s]] ELSE old[s]]
           stale == OrderIsStale(e)
<1>2. /\ HasRows(e) /\ Size(list) >= 2 /\ DistancesValid(rows, list) /\ CanResequence(rows, list)
      /\ CommitEdit(e, SyncedEndpoints(routes[r], routes[r], rows, list),
                    Resequenced(rows, list), stale)
  BY <1>1 DEF ReorderRouteStations
<1>3. /\ r \in Route /\ old \in StopRows /\ IsList(records) /\ DOMAIN records \subseteq DOMAIN old
      /\ r \notin unchecked /\ routes[r] # None /\ ~OrderIsStale(e) => DOMAIN records = DOMAIN old
  BY <1>2, RecordsListed
<1>4. DOMAIN list = DOMAIN records /\ IsList(list)
  <2>1. DOMAIN list = DOMAIN records
    BY <1>1 DEF Bijection, Injection
  <2>2. Size(list) = Size(records)
    BY <2>1 DEF Size
  <2> QED
    BY <1>1, <1>3, <2>1, <2>2 DEF IsList
<1>5. routes[r] # None
  <2>1. StationAt(list, 0) \in DOMAIN list
    BY <1>2, <1>4, StationFound, ListPlaces
  <2> QED
    BY <1>3, <1>4, <2>1, NoRowsTyped DEF RoutesInv, RowsHaveRoutes
<1>6. DOMAIN old \subseteq Station /\ \A t \in DOMAIN old : old[t] \in StopRow
  BY <1>3, RowsTyped
<1>7. \A t, u \in DOMAIN old : old[t].number = old[u].number => t = u
  BY <1>3 DEF RoutesInv, NumbersUnique, IsInjective, Numbers
<1>8. /\ rows = [t \in DOMAIN rows |-> rows[t]] /\ DOMAIN rows = DOMAIN old
      /\ \A t \in DOMAIN list : rows[t] = [old[t] EXCEPT !.km = distances[t]]
      /\ \A t \in DOMAIN old \ DOMAIN list : rows[t] = old[t]
  BY <1>3, <1>4
<1> HIDE DEF rows
<1>9. ASSUME NEW t \in DOMAIN list PROVE Unnumbered(rows[t])
  <2>1. PICK row, km : row = old[t] /\ km = distances[t]
    OBVIOUS
  <2>2. row \in StopRow /\ km \in Nat /\ rows[t] = [row EXCEPT !.km = km]
    BY <1>1, <1>3, <1>4, <1>6, <1>8, <1>9, <2>1, RouteAssumption
  <2>3. [row EXCEPT !.km = km] \in StopRow
    BY <2>2 DEF StopRow
  <2> QED
    BY <2>2, <2>3, StopsUnnumbered
<1>10. /\ DOMAIN rows \subseteq Station /\ DOMAIN list \subseteq DOMAIN rows
       /\ \A t \in DOMAIN rows \ DOMAIN list : rows[t] \in StopRow
       /\ \A t, u \in DOMAIN rows \ DOMAIN list : rows[t].number = rows[u].number => t = u
       /\ ~stale /\ r \notin unchecked => DOMAIN list = DOMAIN rows /\ Ascending(rows, list)
  BY <1>2, <1>3, <1>4, <1>5, <1>6, <1>7, <1>8 DEF DistancesValid
<1>11. stale \in BOOLEAN
  BY DEF OrderIsStale
<1>12. Resequencing(e, routes[edit[e].route], rows, list, stale)
  <2> HIDE DEF stale
  <2> QED
    BY <1>2, <1>4, <1>5, <1>8, <1>9, <1>10, <1>11 DEF Resequencing
<1> HIDE DEF stale
<1> QED
  BY <1>12, <1>11, ResequencingCommitted

LEMMA RouteStationUpdated ==
  ASSUME RoutesInv, NEW e \in Editor, NEW input \in StopInput, UpdateRouteStation(e, input)
  PROVE  RoutesInv'
<1> DEFINE r == edit[e].route
           s == input.stationId
           old == routeStations[r]
           rows == [old EXCEPT ![s].km = input.km, ![s].arrives = input.arrives,
                               ![s].departs = input.departs]
           records == Records(e)
           list == InOrder(Numbers(rows), DOMAIN records)
           row == [routes[r] EXCEPT !.totalDistanceKm = rows[LastOf(list)].km]
           stale == OrderIsStale(e)
<1>1. /\ HasRows(e) /\ s \in DOMAIN records /\ DistancesValid(rows, list)
      /\ CommitEdit(e, row, rows, stale)
  BY DEF UpdateRouteStation
<1>2. /\ r \in Route /\ old \in StopRows /\ IsList(records) /\ DOMAIN records \subseteq DOMAIN old
      /\ r \notin unchecked /\ routes[r] # None /\ ~OrderIsStale(e) =>
           records = Numbers(old) /\ DOMAIN records = DOMAIN old
  BY <1>1, RecordsListed
<1>3. routes[r] # None /\ routes[r] \in RouteRow
  BY <1>1, <1>2, NoRowsTyped DEF RoutesInv, RouteTables, RowsHaveRoutes
<1>4. DOMAIN old \subseteq Station /\ old \in [DOMAIN old -> StopRow] /\ s \in DOMAIN old
  BY <1>1, <1>2, RowsTyped
<1>5. rows \in [DOMAIN old -> StopRow] /\ \A t \in DOMAIN old : rows[t].number = old[t].number
  <2>1. input.km \in Nat /\ input.arrives \in Offset /\ input.departs \in Offset
    BY RouteAssumption
  <2>2. PICK stop : stop = [old[s] EXCEPT !.km = input.km, !.arrives = input.arrives,
                                        !.departs = input.departs]
    OBVIOUS
  <2>3. stop \in StopRow /\ stop.number = old[s].number
    BY <1>4, <2>1, <2>2 DEF StopRow
  <2>4. rows = [old EXCEPT ![s] = stop]
    BY <1>4, <2>2
  <2> HIDE DEF rows
  <2> QED
    BY <1>4, <2>3, <2>4
<1> HIDE DEF rows
<1>6. rows \in StopRows /\ DOMAIN rows = DOMAIN old /\ Numbers(rows) = Numbers(old)
  BY <1>4, <1>5 DEF StopRows, Numbers
<1>7. IsInjective(Numbers(old))
  BY <1>2 DEF RoutesInv, NumbersUnique
<1>8. IsList(list) /\ DOMAIN list = DOMAIN records
  <2>1. PICK numbers : numbers = Numbers(rows)
    OBVIOUS
  <2>2. DOMAIN numbers = DOMAIN old /\ \A t \in DOMAIN old : numbers[t] \in Nat
    BY <1>2, <1>6, <2>1, RowsTyped DEF Orders
  <2>3. \A t, u \in DOMAIN old : numbers[t] = numbers[u] => t = u
    BY <1>6, <1>7, <2>1, <2>2 DEF IsInjective
  <2> QED
    BY <1>2, <1>4, <2>1, <2>2, <2>3, RanksAreList
<1>9. PICK last : last = LastOf(list)
  OBVIOUS
<1>10. last \in DOMAIN list
  <2>1. Size(list) \in Nat /\ \A t \in DOMAIN list : list[t] \in Nat /\ list[t] < Size(list)
    BY <1>8, ListPlaces
  <2>2. Size(list) >= 1
    BY <1>1, <1>8, <2>1
  <2> HIDE DEF list
  <2> QED
    BY <1>8, <1>9, <2>1, <2>2, StationFound DEF LastOf
<1>11. rows[last].km \in Nat
  BY <1>2, <1>5, <1>8, <1>10 DEF StopRow
<1>12. row = [routes[r] EXCEPT !.totalDistanceKm = rows[last].km]
  BY <1>9
<1>13. row \in RouteRow /\ row.startStationId = routes[r].startStationId
       /\ row.endStationId = routes[r].endStationId /\ row.totalDistanceKm = rows[last].km
  <2>1. PICK old_row, km : old_row = routes[r] /\ km = rows[last].km
    OBVIOUS
  <2> HIDE DEF row
  <2>2. row = [old_row EXCEPT !.totalDistanceKm = km] /\ old_row \in RouteRow /\ km \in Nat
    BY <1>3, <1>11, <1>12, <2>1
  <2> QED
    BY <2>1, <2>2 DEF RouteRow
<1> HIDE DEF list, row
<1>14. ASSUME ~stale, r \notin unchecked PROVE RouteOrdered(row, rows)
  <2>1. records = Numbers(old) /\ DOMAIN records = DOMAIN old
    BY <1>2, <1>3, <1>14
  <2>2. list = Numbers(rows)
    <3>1. list = InOrder(records, DOMAIN records)
      BY <1>6, <2>1 DEF list
    <3> QED
      BY <1>2, <1>6, <2>1, <3>1, InOrderOfList
  <2>3. RouteOrdered(routes[r], old)
    BY <1>2, <1>3, <1>14 DEF RoutesInv, RoutesStayOrdered
  <2>4. Size(list) >= 2 =>
          /\ row.startStationId = StationAt(list, 0)
          /\ row.endStationId = LastOf(list)
          /\ row.totalDistanceKm >= rows[LastOf(list)].km
    BY <1>6, <1>9, <1>11, <1>13, <2>2, <2>3 DEF RouteOrdered
  <2> QED
    BY <1>1, <1>6, <1>8, <2>1, <2>2, <2>4, ListedRowsOrdered DEF DistancesValid
<1>15. stale \in BOOLEAN
  BY DEF OrderIsStale
<1> HIDE DEF stale, r
<1>16. r = edit[e].route
  BY DEF r
<1> QED
  BY <1>1, <1>6, <1>7, <1>13, <1>14, <1>15, <1>16, EditCommitted

\* A finite set of numbers has a greatest one: of its subsets that have none there
\* would be a least one.
LEMMA GreatestExists ==
  ASSUME NEW S, IsFiniteSet(S), S \subseteq Int, S # {}
  PROVE  Max(S) \in S /\ \A n \in S : Max(S) >= n
<1> DEFINE Has(s) == \E m \in s : \A n \in s : m >= n
           F == {s \in SUBSET S : s # {} /\ ~Has(s)}
<1>1. F = {}
  <2> SUFFICES ASSUME F # {} PROVE FALSE
    OBVIOUS
  <2>1. F \subseteq SUBSET S /\ IsFiniteSet(S) /\ F # {}
    OBVIOUS
  <2>2. \E s \in F : \A t \in F : t \subseteq s => t = s
    <3> HIDE DEF F, Has
    <3> QED
      BY ONLY <2>1, LeastSubset
  <2>3. PICK s \in F : \A t \in F : t \subseteq s => t = s
    BY <2>2
  <2>4. PICK x \in s : TRUE
    OBVIOUS
  <2>5. s \ {x} \in SUBSET S /\ s \ {x} # s
    BY <2>1, <2>4
  <2>6. s \ {x} = {} \/ Has(s \ {x})
    BY <2>3, <2>5
  <2>7. x \in Int
    BY <2>1, <2>4
  <2>8. CASE s \ {x} = {}
    <3>1. \A n \in s : x >= n
      BY <2>7, <2>8
    <3> QED
      BY <2>4, <3>1
  <2>9. CASE Has(s \ {x})
    <3>1. PICK m \in s \ {x} : \A n \in s \ {x} : m >= n
      BY <2>9
    <3>2. m \in Int /\ \A n \in s : n \in Int
      BY <2>1, <3>1
    <3>3. CASE m >= x
      BY <3>1, <3>3
    <3>4. CASE x >= m
      <4>1. \A n \in s : x >= n
        BY <2>7, <3>1, <3>2, <3>4
      <4> QED
        BY <2>4, <4>1
    <3> QED
      BY <2>7, <3>2, <3>3, <3>4
  <2> QED
    BY <2>6, <2>8, <2>9
<1>2. Has(S)
  BY <1>1
<1>3. PICK m \in S : \A n \in S : m >= n
  BY <1>2
<1> HIDE DEF Has, F
<1> QED
  BY <1>3 DEF Max

\* The rows of the clone: the last offset is a number, so every offset is one or none.
LEMMA OffsetsReversed ==
  ASSUME NEW rows \in StopRows, NEW list, IsList(list), DOMAIN list \subseteq DOMAIN rows,
         DOMAIN list # {}, NEW total \in Nat, \A s \in DOMAIN list : rows[s].km <= total
  PROVE  /\ ReversedRows(rows, list, total) \in StopRows
         /\ DOMAIN ReversedRows(rows, list, total) = DOMAIN list
         /\ Numbers(ReversedRows(rows, list, total)) = Reversed(list)
         /\ \A s \in DOMAIN list : ReversedRows(rows, list, total)[s].km = total - rows[s].km
<1> DEFINE known(offset) == IF offset = NoValue THEN 0 ELSE offset
           D == DOMAIN list
           A == {known(rows[s].arrives) : s \in D}
           B == {known(rows[s].departs) : s \in D}
           offsets == UNION {{known(rows[s].arrives), known(rows[s].departs)} : s \in D}
<1>1. \A s \in D : rows[s] \in StopRow
  BY RowsTyped
<1>2. \A s \in D : known(rows[s].arrives) \in Int /\ known(rows[s].departs) \in Int
  BY <1>1 DEF StopRow, Offset
<1>3. IsFiniteSet(D)
  BY SizeIsNatural DEF IsList
<1> HIDE DEF known
<1>4. IsFiniteSet(A)
  <2>1. [s \in D |-> known(rows[s].arrives)] \in Surjection(D, A)
    BY DEF Surjection
  <2> QED
    BY <1>3, <2>1, FS_Surjection
<1>5. IsFiniteSet(B)
  <2>1. [s \in D |-> known(rows[s].departs)] \in Surjection(D, B)
    BY DEF Surjection
  <2> QED
    BY <1>3, <2>1, FS_Surjection
<1>6. offsets = A \union B
  OBVIOUS
<1>7. A \union B \subseteq Int /\ A \union B # {}
  BY <1>2
<1> HIDE DEF A, B
<1>8. IsFiniteSet(A \union B)
  BY <1>4, <1>5, FS_Union
<1>9. Max(offsets) \in Int
  <2>1. PICK S : S = A \union B
    OBVIOUS
  <2>2. Max(S) \in S
    BY <1>7, <1>8, <2>1, GreatestExists
  <2> QED
    BY <1>6, <1>7, <2>1, <2>2
<1>10. PICK last \in Int : last = Max(offsets)
  BY <1>9
<1> DEFINE new == ReversedRows(rows, list, total)
<1>11. new = [s \in D |->
                [number |-> Reversed(list)[s], km |-> total - rows[s].km,
                 arrives |-> ReverseOffset(last, rows[s].departs),
                 departs |-> ReverseOffset(last, rows[s].arrives)]]
  BY <1>10 DEF ReversedRows, known
<1>12. IsList(Reversed(list)) /\ DOMAIN Reversed(list) = D
  BY ListReversed DEF Reversed
<1> HIDE DEF new, offsets
<1>13. ASSUME NEW s \in D
       PROVE  new[s] \in StopRow /\ new[s].km = total - rows[s].km
              /\ new[s].number = Reversed(list)[s]
  <2>1. Reversed(list)[s] \in Nat
    BY <1>12, ListPlaces
  <2>2. total - rows[s].km \in Nat
    BY <1>1 DEF StopRow
  <2>3. /\ ReverseOffset(last, rows[s].departs) \in Offset
        /\ ReverseOffset(last, rows[s].arrives) \in Offset
    BY <1>1, <1>10 DEF StopRow, Offset, ReverseOffset
  <2> QED
    BY <1>11, <2>1, <2>2, <2>3 DEF StopRow
<1>14. new \in StopRows /\ DOMAIN new = D
  <2>1. D \subseteq Station
    BY DEF IsList
  <2> QED
    BY <1>11, <1>13, <2>1 DEF StopRows
<1>15. Numbers(new) = Reversed(list)
  <2>1. Reversed(list) = [s \in D |-> Reversed(list)[s]]
    BY DEF Reversed
  <2> QED
    BY <1>13, <1>14, <2>1 DEF Numbers
<1> QED
  BY <1>13, <1>14, <1>15 DEF new

\* A route is made with its stations.
LEMMA RouteMade ==
  ASSUME RoutesInv, NEW r \in Route, routes[r] = None, NEW row \in RouteRow,
         NEW rows \in StopRows, IsInjective(Numbers(rows)),
         routes' = [routes EXCEPT ![r] = row],
         routeStations' = [routeStations EXCEPT ![r] = rows],
         unchecked \subseteq unchecked', unchecked' \subseteq Route,
         activeStations' \subseteq Station, routeSteps' \in 0 .. MaxRouteSteps,
         rowQueue' \in [Route -> Seq(Editor)],
         edit' \in [Editor -> Edit \union {Idle}],
         \A d \in Editor : edit'[d] # Idle => IsInjective(edit'[d].order),
         r \notin unchecked' => RouteOrdered(row, rows)
  PROVE  RoutesInv'
<1>1. RouteTables'
  BY DEF RoutesInv, RouteTables
<1>2. /\ routes'[r] = row /\ routeStations'[r] = rows /\ row # None
      /\ \A q \in Route \ {r} : routes'[q] = routes[q] /\ routeStations'[q] = routeStations[q]
  BY RouteAssumption DEF RoutesInv, RouteTables
<1>3. RowsHaveRoutes'
  BY <1>2 DEF RoutesInv, RowsHaveRoutes
<1>4. NumbersUnique'
  <2>1. ASSUME NEW q \in Route PROVE IsInjective(Numbers(routeStations'[q]))
    BY <1>2 DEF RoutesInv, NumbersUnique
  <2> QED
    BY <2>1 DEF NumbersUnique
<1>5. RoutesStayOrdered'
  <2> SUFFICES ASSUME NEW q \in Route \ unchecked', routes'[q] # None
               PROVE  RouteOrdered(routes'[q], routeStations'[q])
    BY DEF RoutesStayOrdered
  <2> QED
    BY <1>2 DEF RoutesInv, RoutesStayOrdered
<1> QED
  BY <1>1, <1>3, <1>4, <1>5 DEF RoutesInv

LEMMA RouteDrafted ==
  ASSUME RoutesInv, NEW r \in Route, NEW stops \in RouteDrafts, CreateRouteWithStations(r, stops)
  PROVE  RoutesInv'
<1> DEFINE list == Numbers(stops)
           row == [startStationId |-> StationAt(list, 0), endStationId |-> LastOf(list),
                   totalDistanceKm |-> stops[LastOf(list)].km, isActive |-> TRUE]
<1>1. /\ CountRouteStep /\ routes[r] = None /\ DraftValid(stops)
      /\ routes' = [routes EXCEPT ![r] = row]
      /\ routeStations' = [routeStations EXCEPT ![r] = stops]
      /\ UNCHANGED <<activeStations, edit, rowQueue, unchecked>>
  BY DEF CreateRouteWithStations, CodeAvailable
<1>2. stops \in StopRows
  BY RouteAssumption DEF StopRows
<1>3. DOMAIN list = DOMAIN stops /\ list = [s \in DOMAIN list |-> list[s]]
      /\ DOMAIN list \subseteq Station
  BY <1>2, RowsTyped DEF Numbers
<1>4. {list[s] : s \in DOMAIN list} = 0 .. Size(list) - 1 /\ Size(list) >= 2
  <2>1. {list[s] : s \in DOMAIN list} = {stops[s].number : s \in DOMAIN stops}
    BY DEF Numbers
  <2>2. Size(list) = Size(stops)
    BY <1>3 DEF Size
  <2> QED
    BY <1>1, <2>1, <2>2 DEF DraftValid
<1> HIDE DEF list
<1>5. IsList(list)
  BY <1>3, <1>4, NumbersAreList
<1>6. StationAt(list, 0) \in DOMAIN list /\ LastOf(list) \in DOMAIN list
  BY <1>4, <1>5, StationFound, ListPlaces DEF LastOf
<1>7. stops[LastOf(list)].km \in Nat
  BY <1>2, <1>3, <1>6, RowsTyped DEF StopRow
<1>8. row \in RouteRow
  BY <1>3, <1>6, <1>7 DEF RouteRow
<1>9. Ascending(stops, list)
  BY <1>1 DEF DraftValid, DistancesValid, list
<1>10. /\ row.startStationId = StationAt(list, 0) /\ row.endStationId = LastOf(list)
       /\ row.totalDistanceKm = stops[LastOf(list)].km
  OBVIOUS
<1> HIDE DEF row
<1>11. RouteOrdered(row, stops)
  <2>1. Numbers(stops) = list
    BY DEF list
  <2> QED
    BY <1>3, <1>5, <1>7, <1>9, <1>10, <2>1, ListedRowsOrdered
<1>12. IsInjective(Numbers(stops))
  BY <1>5, ListPlaces DEF list, IsInjective
<1>13. /\ activeStations' \subseteq Station /\ rowQueue' \in [Route -> Seq(Editor)]
       /\ edit' \in [Editor -> Edit \union {Idle}] /\ unchecked' = unchecked /\ unchecked' \subseteq Route
       /\ \A d \in Editor : edit'[d] # Idle => IsInjective(edit'[d].order)
       /\ routeSteps' \in 0 .. MaxRouteSteps
  BY <1>1, RouteStepCounted DEF RoutesInv, RouteTables, NumbersUnique
<1> QED
  BY <1>1, <1>2, <1>8, <1>11, <1>12, <1>13, RouteMade

LEMMA RouteReversed ==
  ASSUME RoutesInv, NEW e \in Editor, NEW clone \in Route,
         NEW overrides \in RoutePatches \union {NoRows}, CloneReverseRoute(e, clone, overrides)
  PROVE  RoutesInv'
<1> DEFINE r == edit[e].route
           source == edit[e].row
           list == Records(e)
           back == Reversed(list)
           swapped == [source EXCEPT !.startStationId = source.endStationId,
                                     !.endStationId = source.startStationId]
           row == Updated(swapped, [f \in DOMAIN source |-> None], overrides)
           total == IF source.totalDistanceKm = NoValue
                    THEN routeStations[r][LastOf(list)].km ELSE source.totalDistanceKm
           rows == ReversedRows(routeStations[r], list, total)
<1>1. /\ HasRows(e) /\ routes[clone] = None /\ Size(list) >= 2
      /\ row.totalDistanceKm # NoValue
      /\ \A s \in DOMAIN list : routeStations[r][s].km <= total
      /\ routeStations' = [routeStations EXCEPT ![clone] = rows]
      /\ routes' = [routes EXCEPT ![clone] = row]
      /\ unchecked' =
           IF r \in unchecked \/ OrderIsStale(e) \/ RowIsStale(e) \/ DOMAIN overrides # {}
           THEN unchecked \union {clone} ELSE unchecked
      /\ EndEdit(e)
  BY DEF CloneReverseRoute, CodeAvailable
<1>2. /\ r \in Route /\ edit[e] \in Edit /\ routeStations[r] \in StopRows
      /\ IsList(list) /\ DOMAIN list \subseteq DOMAIN routeStations[r]
      /\ r \notin unchecked /\ routes[r] # None /\ ~OrderIsStale(e) =>
           list = Numbers(routeStations[r]) /\ DOMAIN list = DOMAIN routeStations[r]
  BY <1>1, RecordsListed
<1>3. source \in RouteRow
  BY <1>2 DEF Edit
<1>4. StationAt(list, 0) \in DOMAIN list /\ LastOf(list) \in DOMAIN list
  BY <1>1, <1>2, StationFound, ListPlaces DEF LastOf
<1>5. routes[r] # None
  BY <1>2, <1>4, NoRowsTyped DEF RoutesInv, RowsHaveRoutes
<1>6. \A s \in DOMAIN list : routeStations[r][s].km \in Nat
  BY <1>2, RowsTyped DEF StopRow
<1>7. total \in Nat
  BY <1>3, <1>4, <1>6 DEF RouteRow
<1> HIDE DEF total
<1>8. /\ rows \in StopRows /\ DOMAIN rows = DOMAIN list /\ Numbers(rows) = back
      /\ \A s \in DOMAIN list : rows[s].km = total - routeStations[r][s].km
  BY <1>1, <1>2, <1>4, <1>7, OffsetsReversed
<1>9. IsList(back) /\ Size(back) = Size(list) /\ DOMAIN back = DOMAIN list
  BY <1>2, ListReversed DEF Reversed
<1>10. IsInjective(Numbers(rows))
  BY <1>8, <1>9, ListPlaces DEF IsInjective
<1>11. /\ row \in RouteRow
       /\ DOMAIN overrides = {} =>
            /\ row.startStationId = source.endStationId
            /\ row.endStationId = source.startStationId
            /\ row.totalDistanceKm = source.totalDistanceKm
  <2>1. PICK s, base, blank : /\ s = source /\ base = swapped
                              /\ blank = [f \in DOMAIN source |-> None]
    OBVIOUS
  <2>2. /\ base \in RouteRow /\ base.startStationId = s.endStationId
        /\ base.endStationId = s.startStationId /\ base.totalDistanceKm = s.totalDistanceKm
    BY <1>3, <2>1 DEF RouteRow
  <2>3. PICK new : new = Updated(base, blank, overrides) /\ row = new
    BY <2>1
  <2> HIDE DEF row, swapped
  <2>4. CASE overrides \in RoutePatches
    <3>1. new \in RouteRow
      BY <2>2, <2>3, <2>4, PatchedRoute
    <3>2. DOMAIN overrides = {} => new = base
      BY <2>2, <2>3 DEF Updated, RouteRow
    <3> QED
      BY <2>1, <2>2, <2>3, <3>1, <3>2
  <2>5. CASE overrides = NoRows
    <3>1. new = base
      BY <2>2, <2>3, <2>5, NoRowsTyped DEF Updated, RouteRow
    <3> QED
      BY <2>1, <2>2, <2>3, <3>1
  <2> QED
    BY <2>4, <2>5
<1> HIDE DEF rows, row, back
<1>12. ASSUME clone \notin unchecked'
       PROVE  RouteOrdered(row, rows)
  <2>1. /\ r \notin unchecked /\ ~OrderIsStale(e) /\ source = routes[r] /\ DOMAIN overrides = {}
        /\ list = Numbers(routeStations[r]) /\ DOMAIN list = DOMAIN routeStations[r]
    BY <1>1, <1>2, <1>5, <1>12 DEF RowIsStale
  <2>2. RouteOrdered(source, routeStations[r])
    BY <1>2, <1>5, <2>1 DEF RoutesInv, RoutesStayOrdered
  <2>3. /\ Ascending(routeStations[r], list)
        /\ source.startStationId = StationAt(list, 0) /\ source.endStationId = LastOf(list)
    BY <1>1, <2>1, <2>2 DEF RouteOrdered
  <2>4. Size(list) \in Nat /\ \A s \in DOMAIN list :
          list[s] \in Nat /\ list[s] < Size(list) /\ back[s] = Size(list) - 1 - list[s]
    BY <1>2, ListPlaces DEF back, Reversed
  <2>5. Ascending(rows, back)
    <3> SUFFICES ASSUME NEW s \in DOMAIN list, NEW t \in DOMAIN list, back[s] <= back[t]
                 PROVE  rows[s].km <= rows[t].km
      BY <1>9 DEF Ascending
    <3>1. list[t] <= list[s]
      BY <2>4
    <3>2. routeStations[r][t].km <= routeStations[r][s].km
      BY <2>3, <3>1 DEF Ascending
    <3> QED
      BY <1>6, <1>7, <1>8, <3>2
  <2>6. StationAt(back, 0) = LastOf(list) /\ LastOf(back) = StationAt(list, 0)
    <3>1. list[LastOf(list)] = Size(list) - 1 /\ list[StationAt(list, 0)] = 0
      BY <1>1, <1>2, <2>4, StationFound DEF LastOf
    <3>2. back[LastOf(list)] = 0 /\ back[StationAt(list, 0)] = Size(back) - 1
      BY <1>4, <1>9, <2>4, <3>1
    <3> QED
      BY <1>1, <1>4, <1>9, <2>4, <3>2, StationFound DEF LastOf
  <2>7. row.totalDistanceKm >= rows[LastOf(back)].km
    <3>1. row.totalDistanceKm = total
      BY <1>1, <1>11, <2>1 DEF total
    <3> QED
      BY <1>4, <1>6, <1>7, <1>8, <2>6, <3>1
  <2> QED
    BY <1>8, <1>9, <1>11, <2>1, <2>3, <2>5, <2>6, <2>7, ListedRowsOrdered
<1>13. unchecked \subseteq unchecked' /\ unchecked' \subseteq Route
  BY <1>1 DEF RoutesInv, RouteTables
<1> QED
  BY <1>1, <1>8, <1>10, <1>11, <1>12, <1>13, EditOver, RouteMade

\* A step that leaves the edits alone changes at most the rows of one route, under a
\* route that is one.
LEMMA RouteChanged ==
  ASSUME RoutesInv, NEW r \in Route, NEW row \in RouteRow \union {None}, NEW rows \in StopRows,
         row = None => rows = NoRows, IsInjective(Numbers(rows)),
         routes' = [routes EXCEPT ![r] = row],
         routeStations' = [routeStations EXCEPT ![r] = rows],
         unchecked \subseteq unchecked' \union {r}, unchecked' \subseteq Route,
         row # None /\ r \notin unchecked' => RouteOrdered(row, rows),
         CountRouteStep, UNCHANGED <<activeStations, edit, rowQueue>>
  PROVE  RoutesInv'
<1>1. RouteTables'
  BY RouteStepCounted DEF RoutesInv, RouteTables
<1>2. /\ routes'[r] = row /\ routeStations'[r] = rows
      /\ \A q \in Route \ {r} : routes'[q] = routes[q] /\ routeStations'[q] = routeStations[q]
  BY DEF RoutesInv, RouteTables
<1>3. RowsHaveRoutes'
  BY <1>2 DEF RoutesInv, RowsHaveRoutes
<1>4. NumbersUnique'
  <2>1. ASSUME NEW q \in Route PROVE IsInjective(Numbers(routeStations'[q]))
    BY <1>2 DEF RoutesInv, NumbersUnique
  <2> QED
    BY <2>1 DEF RoutesInv, NumbersUnique
<1>5. RoutesStayOrdered'
  <2> SUFFICES ASSUME NEW q \in Route \ unchecked', routes'[q] # None
               PROVE  RouteOrdered(routes'[q], routeStations'[q])
    BY DEF RoutesStayOrdered
  <2> QED
    BY <1>2 DEF RoutesInv, RoutesStayOrdered
<1> QED
  BY <1>1, <1>3, <1>4, <1>5 DEF RoutesInv

\* The same when the route keeps its rows.
LEMMA RouteRowChanged ==
  ASSUME RoutesInv, NEW r \in Route, NEW row \in RouteRow,
         routes' = [routes EXCEPT ![r] = row], UNCHANGED routeStations,
         unchecked \subseteq unchecked' \union {r}, unchecked' \subseteq Route,
         r \notin unchecked' => RouteOrdered(row, routeStations[r]),
         CountRouteStep, UNCHANGED <<activeStations, edit, rowQueue>>
  PROVE  RoutesInv'
<1>1. PICK rows : rows = routeStations[r]
  OBVIOUS
<1>2. rows \in StopRows /\ routeStations' = [routeStations EXCEPT ![r] = rows]
  BY <1>1 DEF RoutesInv, RouteTables
<1>3. IsInjective(Numbers(rows))
  BY <1>1 DEF RoutesInv, NumbersUnique
<1>4. row # None
  BY RouteAssumption
<1> QED
  BY <1>1, <1>2, <1>3, <1>4, RouteChanged

\* A route without stations is in order.
LEMMA NoStationsOrdered == ASSUME NEW route PROVE RouteOrdered(route, NoRows)
<1>1. DOMAIN NoRows = {} /\ DOMAIN Numbers(NoRows) = {}
  BY NoRowsTyped DEF Numbers
<1>2. Size(Numbers(NoRows)) = 0
  BY <1>1, FS_EmptySet DEF Size
<1> QED
  BY <1>1, <1>2 DEF RouteOrdered, Ascending

LEMMA StationSwitched ==
  ASSUME RoutesInv, NEW s \in Station, NEW isActive \in BOOLEAN, SetStationActive(s, isActive)
  PROVE  RoutesInv'
<1>1. RouteTables'
  BY RouteStepCounted DEF SetStationActive, RoutesInv, RouteTables
<1>2. RowsHaveRoutes' /\ NumbersUnique' /\ RoutesStayOrdered'
  BY DEF SetStationActive, RoutesInv, RowsHaveRoutes, NumbersUnique, RoutesStayOrdered
<1> QED
  BY <1>1, <1>2 DEF RoutesInv

LEMMA RouteCreated ==
  ASSUME RoutesInv, NEW r \in Route, NEW start \in Station, NEW end \in Station,
         CreateRoute(r, start, end)
  PROVE  RoutesInv'
<1> DEFINE row == [startStationId |-> start, endStationId |-> end,
                   totalDistanceKm |-> NoValue, isActive |-> TRUE]
<1>1. row \in RouteRow
  BY DEF RouteRow
<1>2. routeStations[r] = NoRows
  BY DEF CreateRoute, CodeAvailable, RoutesInv, RowsHaveRoutes
<1>3. /\ routes' = [routes EXCEPT ![r] = row]
      /\ CountRouteStep /\ UNCHANGED <<activeStations, routeStations, edit, rowQueue, unchecked>>
  BY DEF CreateRoute
<1>4. RouteOrdered(row, routeStations[r])
  BY <1>2, NoStationsOrdered
<1> HIDE DEF row
<1>5. unchecked' \subseteq Route
  BY <1>3 DEF RoutesInv, RouteTables
<1> QED
  BY <1>1, <1>3, <1>4, <1>5, RouteRowChanged

\* Whether a route is active has no part in its order.
LEMMA ActivityUnordered ==
  ASSUME NEW route \in RouteRow, NEW isActive, NEW rows, RouteOrdered(route, rows)
  PROVE  RouteOrdered([route EXCEPT !.isActive = isActive], rows)
<1>1. PICK new : new = [route EXCEPT !.isActive = isActive]
  OBVIOUS
<1>2. /\ new.startStationId = route.startStationId /\ new.endStationId = route.endStationId
      /\ new.totalDistanceKm = route.totalDistanceKm
  BY <1>1 DEF RouteRow
<1> QED
  BY <1>1, <1>2 DEF RouteOrdered

LEMMA RouteUpdated ==
  ASSUME RoutesInv, NEW r \in Route, NEW values \in RoutePatches, UpdateRoute(r, values)
  PROVE  RoutesInv'
<1> DEFINE row == Updated(routes[r], routes[r], values)
<1>1. /\ routes[r] # None /\ routes' = [routes EXCEPT ![r] = row]
      /\ unchecked' = IF DOMAIN values = {"isActive"} THEN unchecked ELSE unchecked \union {r}
      /\ CountRouteStep /\ UNCHANGED <<activeStations, routeStations, edit, rowQueue>>
  BY DEF UpdateRoute
<1>2. routes[r] \in RouteRow
  BY <1>1 DEF RoutesInv, RouteTables
<1>3. /\ row \in RouteRow
      /\ DOMAIN values = {"isActive"} => row = [routes[r] EXCEPT !.isActive = row.isActive]
  BY <1>2, PatchedRoute
<1> HIDE DEF row
<1>4. unchecked \subseteq unchecked' \union {r} /\ unchecked' \subseteq Route
  BY <1>1 DEF RoutesInv, RouteTables
<1>5. ASSUME r \notin unchecked' PROVE RouteOrdered(row, routeStations[r])
  <2>1. r \notin unchecked /\ row = [routes[r] EXCEPT !.isActive = row.isActive]
    BY <1>1, <1>3, <1>5
  <2>2. RouteOrdered(routes[r], routeStations[r])
    BY <1>1, <2>1 DEF RoutesInv, RoutesStayOrdered
  <2>3. PICK active : active = row.isActive
    OBVIOUS
  <2>4. RouteOrdered([routes[r] EXCEPT !.isActive = active], routeStations[r])
    BY <1>2, <2>2, ActivityUnordered
  <2> QED
    BY <2>1, <2>3, <2>4
<1> QED
  BY <1>1, <1>3, <1>4, <1>5, RouteRowChanged

LEMMA RouteDeactivated ==
  ASSUME RoutesInv, NEW r \in Route, NEW hasJourneys, DeactivateRoute(r, r \in hasJourneys)
  PROVE  RoutesInv'
<1>1. routes[r] \in RouteRow /\ routes[r] # None
      /\ CountRouteStep /\ UNCHANGED <<activeStations, edit, rowQueue>>
  BY DEF DeactivateRoute, RoutesInv, RouteTables
<1>2. CASE r \in hasJourneys
  <2>1. PICK row : row = [routes[r] EXCEPT !.isActive = FALSE]
    OBVIOUS
  <2>2. row \in RouteRow
    BY <1>1, <2>1 DEF RouteRow
  <2>3. routes' = [routes EXCEPT ![r] = row] /\ UNCHANGED <<routeStations, unchecked>>
    BY <1>2, <2>1 DEF DeactivateRoute, RoutesInv, RouteTables
  <2>4. unchecked' \subseteq Route
    BY <2>3 DEF RoutesInv, RouteTables
  <2>5. r \notin unchecked' => RouteOrdered(row, routeStations[r])
    BY <1>1, <2>1, <2>3, ActivityUnordered DEF RoutesInv, RoutesStayOrdered
  <2> QED
    BY <1>1, <2>2, <2>3, <2>4, <2>5, RouteRowChanged
<1>3. CASE r \notin hasJourneys
  <2>1. /\ routes' = [routes EXCEPT ![r] = None]
        /\ routeStations' = [routeStations EXCEPT ![r] = NoRows]
        /\ unchecked' = unchecked \ {r}
    BY <1>3 DEF DeactivateRoute
  <2>2. NoRows \in StopRows /\ IsInjective(Numbers(NoRows))
    BY NoRowsTyped DEF IsInjective, Numbers
  <2>3. unchecked \subseteq unchecked' \union {r} /\ unchecked' \subseteq Route
    BY <2>1 DEF RoutesInv, RouteTables
  <2> HIDE DEF NoRows
  <2> QED
    BY <1>1, <2>1, <2>2, <2>3, RouteChanged
<1> QED
  BY <1>2, <1>3

-------------------------------------------------------------------------------
(* Routes: their edits and the invariant                                     *)

\* A step that changes the open edits only.
LEMMA EditsChanged ==
  ASSUME RoutesInv, edit' \in [Editor -> Edit \union {Idle}],
         \A d \in Editor : edit'[d] # Idle => IsInjective(edit'[d].order),
         rowQueue' \in [Route -> Seq(Editor)], routeSteps' \in 0 .. MaxRouteSteps,
         activeStations' \subseteq Station,
         UNCHANGED <<routes, routeStations, unchecked>>
  PROVE  RoutesInv'
<1>1. RouteTables'
  BY DEF RoutesInv, RouteTables
<1>2. RowsHaveRoutes' /\ NumbersUnique' /\ RoutesStayOrdered'
  BY DEF RoutesInv, RowsHaveRoutes, NumbersUnique, RoutesStayOrdered
<1> QED
  BY <1>1, <1>2 DEF RoutesInv

LEMMA RouteEditOpened ==
  ASSUME RoutesInv, NEW e \in Editor, NEW r \in Route, OpenEdit(e, r)
  PROVE  RoutesInv'
<1> DEFINE next == [phase |-> "READ", route |-> r, row |-> routes[r],
                    present |-> DOMAIN routeStations[r], order |-> NoRows]
<1>1. routes[r] \in RouteRow /\ routeStations[r] \in StopRows
  BY DEF OpenEdit, RoutesInv, RouteTables
<1>2. next \in Edit
  BY <1>1, RowsTyped, NoRowsTyped DEF Edit
<1>3. IsInjective(next.order)
  BY NoRowsTyped DEF IsInjective
<1>4. edit' = [edit EXCEPT ![e] = next]
  BY DEF OpenEdit
<1> HIDE DEF next
<1>5. /\ edit' \in [Editor -> Edit \union {Idle}]
      /\ \A d \in Editor : edit'[d] # Idle => IsInjective(edit'[d].order)
  BY <1>2, <1>3, <1>4, EditChanged
<1>6. rowQueue' \in [Route -> Seq(Editor)] /\ routeSteps' \in 0 .. MaxRouteSteps
      /\ activeStations' \subseteq Station /\ UNCHANGED <<routes, routeStations, unchecked>>
  BY RouteStepCounted DEF OpenEdit, RoutesInv, RouteTables
<1> QED
  BY <1>5, <1>6, EditsChanged

LEMMA RowsLocked ==
  ASSUME RoutesInv, NEW e \in Editor, LockRows(e)
  PROVE  RoutesInv'
<1>1. edit[e] \in Edit /\ edit[e].route \in Route
  BY DEF LockRows, RoutesInv, RouteTables, Edit, Idle
<1>2. PICK r \in Route : r = edit[e].route
  BY <1>1
<1>3. PICK open : open = edit[e]
  OBVIOUS
<1>4. PICK numbers : numbers = Numbers(routeStations[r])
  OBVIOUS
<1>5. numbers \in Orders /\ IsInjective(numbers)
  BY <1>4, RowsTyped DEF RoutesInv, RouteTables, NumbersUnique
<1>6. PICK next : next = [open EXCEPT !.phase = "LOCKING", !.order = numbers]
  OBVIOUS
<1>7. next \in Edit /\ next.order = numbers
  BY <1>1, <1>3, <1>5, <1>6 DEF Edit
<1>8. edit' = [edit EXCEPT ![e] = next]
  BY <1>2, <1>3, <1>4, <1>6 DEF LockRows, RoutesInv, RouteTables
<1>9. /\ edit' \in [Editor -> Edit \union {Idle}]
      /\ \A d \in Editor : edit'[d] # Idle => IsInjective(edit'[d].order)
  BY <1>5, <1>7, <1>8, EditChanged
<1>10. rowQueue' \in [Route -> Seq(Editor)]
  <2>1. rowQueue[r] \in Seq(Editor)
    BY DEF RoutesInv, RouteTables
  <2>2. Append(rowQueue[r], e) \in Seq(Editor)
    BY <2>1
  <2> QED
    BY <1>2, <2>2 DEF LockRows, RoutesInv, RouteTables
<1>11. routeSteps' \in 0 .. MaxRouteSteps /\ activeStations' \subseteq Station
       /\ UNCHANGED <<routes, routeStations, unchecked>>
  BY DEF LockRows, RoutesInv, RouteTables
<1> QED
  BY <1>9, <1>10, <1>11, EditsChanged

LEMMA EditRefused ==
  ASSUME RoutesInv, NEW e \in Editor, RefuseEdit(e)
  PROVE  RoutesInv'
BY EditOver, EditsChanged DEF RefuseEdit

LEMMA RouteEditStep ==
  ASSUME RoutesInv, NEW e \in Editor, EditStep(e)
  PROVE  RoutesInv'
<1>1. CASE \E r \in Route : OpenEdit(e, r)
  BY <1>1, RouteEditOpened
<1>2. CASE LockRows(e)
  BY <1>2, RowsLocked
<1>3. CASE RefuseEdit(e)
  BY <1>3, EditRefused
<1>4. ASSUME NEW input \in StopInput, NEW sequenceNumber \in 0 .. Cardinality(Station),
             AddStation(e, input, sequenceNumber)
      PROVE  RoutesInv'
  BY <1>4, StationAdded
<1>5. ASSUME NEW input \in StopInput, UpdateRouteStation(e, input)
      PROVE  RoutesInv'
  BY <1>5, RouteStationUpdated
<1>6. CASE \E s \in Station : RemoveStation(e, s)
  BY <1>6, StationTakenOut
<1>7. CASE Reorder(e)
  BY <1>7, StationsReordered
<1>8. CASE \E clone \in Route, overrides \in RoutePatches \union {NoRows} :
             CloneReverseRoute(e, clone, overrides)
  BY <1>8, RouteReversed
<1> QED
  BY <1>1, <1>2, <1>3, <1>4, <1>5, <1>6, <1>7, <1>8 DEF EditStep

LEMMA RoutesStep ==
  ASSUME NEW hasJourneys
  PROVE  RoutesInv /\ RoutesNext(hasJourneys) => RoutesInv'
<1> SUFFICES ASSUME RoutesInv, RoutesNext(hasJourneys) PROVE RoutesInv'
  OBVIOUS
<1>1. CASE \E s \in Station, isActive \in BOOLEAN : SetStationActive(s, isActive)
  BY <1>1, StationSwitched
<1>2. ASSUME NEW r \in Route, \E stops \in RouteDrafts : CreateRouteWithStations(r, stops)
      PROVE  RoutesInv'
  BY <1>2, RouteDrafted
<1>3. ASSUME NEW r \in Route, \E start, end \in Station : CreateRoute(r, start, end)
      PROVE  RoutesInv'
  BY <1>3, RouteCreated
<1>4. ASSUME NEW r \in Route, \E values \in RoutePatches : UpdateRoute(r, values)
      PROVE  RoutesInv'
  BY <1>4, RouteUpdated
<1>5. ASSUME NEW r \in Route, DeactivateRoute(r, r \in hasJourneys)
      PROVE  RoutesInv'
  BY <1>5, RouteDeactivated
<1>6. CASE \E e \in Editor : EditStep(e)
  BY <1>6, RouteEditStep
<1> QED
  BY <1>1, <1>2, <1>3, <1>4, <1>5, <1>6 DEF RoutesNext

LEMMA RoutesUnchanged == RoutesInv /\ UNCHANGED routeVars => RoutesInv'
<1> SUFFICES ASSUME RoutesInv, UNCHANGED routeVars PROVE RoutesInv'
  OBVIOUS
<1>1. /\ edit' = edit /\ rowQueue' = rowQueue /\ routeSteps' = routeSteps
      /\ activeStations' = activeStations /\ UNCHANGED <<routes, routeStations, unchecked>>
  BY DEF routeVars
<1>2. /\ edit' \in [Editor -> Edit \union {Idle}]
      /\ \A d \in Editor : edit'[d] # Idle => IsInjective(edit'[d].order)
      /\ rowQueue' \in [Route -> Seq(Editor)] /\ routeSteps' \in 0 .. MaxRouteSteps
      /\ activeStations' \subseteq Station
  BY <1>1 DEF RoutesInv, RouteTables, NumbersUnique
<1> QED
  BY <1>1, <1>2, EditsChanged

LEMMA TimetableRoutesStep == RoutesInv /\ [TimetableNext]_timetableVars => RoutesInv'
<1> SUFFICES ASSUME RoutesInv, [TimetableNext]_timetableVars PROVE RoutesInv'
  OBVIOUS
<1>1. CASE RoutesNext(RoutesInUse)
  BY <1>1, RoutesStep
<1>2. CASE UNCHANGED routeVars
  BY <1>2, RoutesUnchanged
<1> QED
  BY <1>1, <1>2 DEF TimetableNext, timetableVars

\* In every timetable the routes and their open edits satisfy the invariant.
THEOREM RoutesInvariant == TimetableSpec => []RoutesInv
<1>1. TimetableInit => RoutesInv
  BY RoutesStart DEF TimetableInit
<1> QED
  BY <1>1, TimetableRoutesStep, PTL DEF TimetableSpec

\* Along every route whose edits each saw the other's work the stations are numbered
\* without a gap, the distances never decrease and the route's own row names its ends.
THEOREM RoutesAreOrdered == TimetableSpec => []RoutesStayOrdered
<1>1. RoutesInv => RoutesStayOrdered
  BY DEF RoutesInv
<1> QED
  BY <1>1, RoutesInvariant, PTL

-------------------------------------------------------------------------------
(* Journeys: the times and distances of their stations                       *)

JourneyStops == UNION {[D -> JourneyStationRow] : D \in SUBSET Station}
CoachClasses == UNION {[D -> STRING] : D \in SUBSET Coach}
Generation ==
  [journey : Journey, read : JourneyRow, existing : BOOLEAN, stations : StopRows,
   checked : BOOLEAN, coaches : CoachClasses, seats : SUBSET Seat]

\* Distances grow with the numbers of the stations.
Ascends(rows) ==
  \A s, t \in DOMAIN rows : rows[s].number <= rows[t].number => rows[s].km <= rows[t].km

Follow(rows, departure) ==
  \A s \in DOMAIN rows :
    /\ rows[s].scheduledArrivalAt = AddMinutes(departure, rows[s].arrives)
    /\ rows[s].scheduledDepartureAt = AddMinutes(departure, rows[s].departs)

\* The rows and histories that say nothing of times and distances.
OtherTables ==
  /\ journeyCoaches \in [Journey -> CoachClasses]
  /\ journeySeats \in [Journey -> SUBSET Seat]
  /\ booked \union adrift \union unordered \subseteq Journey
  /\ journeySteps \in 0 .. MaxJourneySteps

\* What a generation holds came from a journey that is there and, if it says so,
\* from a route in order.
GenerationsHold ==
  /\ generation \in [Generator -> Generation \union {None}]
  /\ \A g \in Generator : generation[g] # None =>
       /\ journeys[generation[g].journey] # None
       /\ generation[g].checked => Ascends(generation[g].stations)

JourneysInv ==
  /\ journeys \in [Journey -> JourneyRow \union {None}]
  /\ journeyStations \in [Journey -> JourneyStops]
  /\ OtherTables
  /\ GenerationsHold
  /\ \A j \in Journey : HasSnapshots(j) => journeys[j] # None
  /\ \A j \in Journey \ adrift : Follow(journeyStations[j], journeys[j].scheduledDepartureAt)
  /\ \A j \in Journey \ unordered : Ascends(journeyStations[j])

LEMMA NoStopsTyped ==
  /\ NoRows \in JourneyStops /\ NoRows \in CoachClasses
  /\ Ascends(NoRows) /\ \A departure : Follow(NoRows, departure)
BY DEF NoRows, JourneyStops, CoachClasses, Ascends, Follow

LEMMA JourneysStart == JourneysInit => JourneysInv
<1> SUFFICES ASSUME JourneysInit PROVE JourneysInv
  OBVIOUS
<1>1. OtherTables
  BY NoStopsTyped, JourneyAssumption DEF JourneysInit, OtherTables
<1>2. GenerationsHold
  BY DEF JourneysInit, GenerationsHold
<1>3. /\ journeys \in [Journey -> JourneyRow \union {None}]
      /\ journeyStations \in [Journey -> JourneyStops]
      /\ \A j \in Journey : journeyStations[j] = NoRows
  BY NoStopsTyped DEF JourneysInit
<1>4. \A j \in Journey : ~HasSnapshots(j)
  BY <1>3 DEF HasSnapshots
<1>5. \A j \in Journey : Ascends(journeyStations[j])
                         /\ Follow(journeyStations[j], journeys[j].scheduledDepartureAt)
  BY <1>3, NoStopsTyped
<1> QED
  BY <1>1, <1>2, <1>3, <1>4, <1>5 DEF JourneysInv

\* Arithmetic of times: an unknown one stays unknown.
LEMMA TimesMove ==
  ASSUME NEW time \in Time, NEW minutes \in Time
  PROVE  AddMinutes(time, minutes) \in Time
BY RouteAssumption DEF Time, AddMinutes

LEMMA TimesMoveTogether ==
  ASSUME NEW time \in Int, NEW offset \in Time, NEW minutes \in Int
  PROVE  AddMinutes(AddMinutes(time, offset), minutes) = AddMinutes(AddMinutes(time, minutes), offset)
<1>1. CASE offset = NoValue
  BY <1>1 DEF AddMinutes
<1>2. CASE offset \in Int
  <2>1. /\ AddMinutes(time, offset) = time + offset /\ time + offset \in Int
        /\ AddMinutes(time, minutes) = time + minutes /\ time + minutes \in Int
    BY <1>2, RouteAssumption DEF AddMinutes
  <2>2. /\ AddMinutes(time + offset, minutes) = (time + offset) + minutes
        /\ AddMinutes(time + minutes, offset) = (time + minutes) + offset
    BY <1>2, <2>1, RouteAssumption DEF AddMinutes
  <2> QED
    BY <1>2, <2>1, <2>2
<1> QED
  BY <1>1, <1>2 DEF Time

\* A step that changes the row of one journey or the rows of its stations, and ends a
\* generation or none.
LEMMA JourneyChanged ==
  ASSUME JourneysInv, NEW j \in Journey, NEW row \in JourneyRow, NEW rows \in JourneyStops,
         journeys' = [journeys EXCEPT ![j] = row],
         journeyStations' = [journeyStations EXCEPT ![j] = rows],
         adrift \subseteq adrift' \union {j}, unordered \subseteq unordered' \union {j},
         j \notin adrift' => Follow(rows, row.scheduledDepartureAt),
         j \notin unordered' => Ascends(rows),
         generation' \in [Generator -> Generation \union {None}],
         \A g \in Generator : generation'[g] # None => generation'[g] = generation[g],
         OtherTables'
  PROVE  JourneysInv'
<1>1. /\ journeys' \in [Journey -> JourneyRow \union {None}]
      /\ journeyStations' \in [Journey -> JourneyStops]
      /\ journeys'[j] = row /\ row # None /\ journeyStations'[j] = rows
      /\ \A i \in Journey \ {j} :
           journeys'[i] = journeys[i] /\ journeyStations'[i] = journeyStations[i]
  BY JourneyAssumption DEF JourneysInv
<1>2. GenerationsHold'
  <2> SUFFICES ASSUME NEW g \in Generator, generation'[g] # None
               PROVE  /\ journeys'[generation'[g].journey] # None
                      /\ generation'[g].checked => Ascends(generation'[g].stations)
    BY DEF GenerationsHold
  <2>1. PICK p \in Generation : p = generation[g] /\ p = generation'[g] /\ p # None
    BY DEF JourneysInv, GenerationsHold
  <2>2. p.journey \in Journey
    BY DEF Generation
  <2>3. journeys[p.journey] # None /\ (p.checked => Ascends(p.stations))
    BY <2>1 DEF JourneysInv, GenerationsHold
  <2>4. journeys'[p.journey] # None
    BY <1>1, <2>2, <2>3
  <2> QED
    BY <2>1, <2>3, <2>4
<1>3. \A i \in Journey : HasSnapshots(i)' => journeys'[i] # None
  BY <1>1 DEF JourneysInv, HasSnapshots
<1>4. ASSUME NEW i \in Journey \ adrift'
      PROVE  Follow(journeyStations'[i], journeys'[i].scheduledDepartureAt)
  BY <1>1 DEF JourneysInv
<1>5. ASSUME NEW i \in Journey \ unordered' PROVE Ascends(journeyStations'[i])
  BY <1>1 DEF JourneysInv
<1> QED
  BY <1>1, <1>2, <1>3, <1>4, <1>5 DEF JourneysInv

\* A step that leaves journeys and their stations alone.
LEMMA JourneysKept ==
  ASSUME JourneysInv, UNCHANGED <<journeys, journeyStations, adrift, unordered>>,
         GenerationsHold', OtherTables'
  PROVE  JourneysInv'
<1>1. /\ \A i \in Journey : HasSnapshots(i)' => journeys'[i] # None
      /\ \A i \in Journey \ adrift' : Follow(journeyStations'[i], journeys'[i].scheduledDepartureAt)
      /\ \A i \in Journey \ unordered' : Ascends(journeyStations'[i])
  BY DEF JourneysInv, HasSnapshots
<1> QED
  BY <1>1 DEF JourneysInv

LEMMA JourneyStepCounted ==
  ASSUME journeySteps \in 0 .. MaxJourneySteps, CountJourneyStep
  PROVE  journeySteps' \in 0 .. MaxJourneySteps
BY JourneyAssumption DEF CountJourneyStep

\* The rows of a journey's stations as they are.
LEMMA StopsNow ==
  ASSUME JourneysInv, NEW j \in Journey
  PROVE  \E rows \in JourneyStops :
           /\ rows = journeyStations[j]
           /\ journeyStations = [journeyStations EXCEPT ![j] = rows]
           /\ j \notin adrift => Follow(rows, journeys[j].scheduledDepartureAt)
           /\ j \notin unordered => Ascends(rows)
           /\ journeys[j] = None => rows = NoRows
BY DEF JourneysInv, HasSnapshots

LEMMA GenerationsNow ==
  ASSUME JourneysInv, UNCHANGED generation
  PROVE  /\ generation' \in [Generator -> Generation \union {None}]
         /\ \A g \in Generator : generation'[g] # None => generation'[g] = generation[g]
BY DEF JourneysInv, GenerationsHold

LEMMA JourneyIsCreated ==
  ASSUME JourneysInv, NEW j \in Journey, NEW values \in JourneyInputs, CreateJourney(j, values)
  PROVE  JourneysInv'
<1>1. /\ journeys[j] = None /\ journeys' = [journeys EXCEPT ![j] = values]
      /\ UNCHANGED <<journeyStations, journeyCoaches, journeySeats, generation, booked,
                     adrift, unordered>>
      /\ CountJourneyStep
  BY DEF CreateJourney
<1>2. values \in JourneyRow
  BY JourneyAssumption
<1>3. PICK rows \in JourneyStops :
        /\ journeyStations = [journeyStations EXCEPT ![j] = rows] /\ rows = NoRows
  BY <1>1, StopsNow
<1>4. Ascends(rows) /\ Follow(rows, values.scheduledDepartureAt)
  BY <1>3, NoStopsTyped
<1>5. OtherTables'
  BY <1>1, JourneyStepCounted DEF JourneysInv, OtherTables
<1>6. journeyStations' = [journeyStations EXCEPT ![j] = rows]
  BY <1>1, <1>3
<1> QED
  BY <1>1, <1>2, <1>4, <1>5, <1>6, GenerationsNow, JourneyChanged

LEMMA PatchedJourney ==
  ASSUME NEW row \in JourneyRow, NEW values \in JourneyPatches
  PROVE  Overwritten(row, values) \in JourneyRow
BY JourneyAssumption DEF Overwritten, JourneyRow

LEMMA JourneyIsUpdated ==
  ASSUME JourneysInv, NEW j \in Journey, NEW values \in JourneyPatches, UpdateJourney(j, values)
  PROVE  JourneysInv'
<1> DEFINE row == Overwritten(journeys[j], values)
<1>1. /\ journeys[j] # None /\ journeys' = [journeys EXCEPT ![j] = row]
      /\ adrift' = IF row.scheduledDepartureAt # journeys[j].scheduledDepartureAt /\ HasSnapshots(j)
                   THEN adrift \union {j} ELSE adrift
      /\ UNCHANGED <<journeyStations, journeyCoaches, journeySeats, generation, booked, unordered>>
      /\ CountJourneyStep
  BY DEF UpdateJourney
<1>2. row \in JourneyRow
  BY <1>1, PatchedJourney DEF JourneysInv
<1> HIDE DEF row
<1>3. PICK rows \in JourneyStops :
        /\ rows = journeyStations[j]
        /\ journeyStations = [journeyStations EXCEPT ![j] = rows]
        /\ j \notin adrift => Follow(rows, journeys[j].scheduledDepartureAt)
        /\ j \notin unordered => Ascends(rows)
  BY StopsNow
<1>4. ASSUME j \notin adrift' PROVE Follow(rows, row.scheduledDepartureAt)
  <2>1. CASE HasSnapshots(j)
    BY <1>1, <1>3, <1>4, <2>1
  <2>2. CASE ~HasSnapshots(j)
    BY <1>3, <2>2, NoStopsTyped DEF HasSnapshots
  <2> QED
    BY <2>1, <2>2
<1>5. OtherTables'
  BY <1>1, JourneyStepCounted DEF JourneysInv, OtherTables
<1>6. /\ journeyStations' = [journeyStations EXCEPT ![j] = rows]
      /\ adrift \subseteq adrift' \union {j} /\ unordered \subseteq unordered' \union {j}
      /\ j \notin unordered' => Ascends(rows)
  BY <1>1, <1>3
<1> QED
  BY <1>1, <1>2, <1>4, <1>5, <1>6, GenerationsNow, JourneyChanged

LEMMA JourneyIsCancelled ==
  ASSUME JourneysInv, NEW j \in Journey, CancelJourney(j)
  PROVE  JourneysInv'
<1>1. PICK old, row : old = journeys[j] /\ row = [old EXCEPT !.status = "CANCELLED"]
  OBVIOUS
<1>2. /\ old \in JourneyRow /\ journeys' = [journeys EXCEPT ![j] = row]
      /\ UNCHANGED <<journeyStations, journeyCoaches, journeySeats, generation, booked,
                     adrift, unordered>>
      /\ CountJourneyStep
  BY <1>1 DEF CancelJourney, JourneysInv
<1>3. row \in JourneyRow /\ row.scheduledDepartureAt = old.scheduledDepartureAt
  BY <1>1, <1>2 DEF JourneyRow, JourneyStatus
<1>4. PICK rows \in JourneyStops :
        /\ journeyStations = [journeyStations EXCEPT ![j] = rows]
        /\ j \notin adrift => Follow(rows, old.scheduledDepartureAt)
        /\ j \notin unordered => Ascends(rows)
  BY <1>1, StopsNow
<1>5. OtherTables'
  BY <1>2, JourneyStepCounted DEF JourneysInv, OtherTables
<1>6. /\ journeyStations' = [journeyStations EXCEPT ![j] = rows]
      /\ adrift \subseteq adrift' \union {j} /\ unordered \subseteq unordered' \union {j}
      /\ j \notin unordered' => Ascends(rows)
      /\ j \notin adrift' => Follow(rows, row.scheduledDepartureAt)
  BY <1>2, <1>3, <1>4
<1> QED
  BY <1>2, <1>3, <1>5, <1>6, GenerationsNow, JourneyChanged

\* The stations of a delayed journey follow its new departure.
LEMMA StationsShifted ==
  ASSUME NEW rows \in JourneyStops, NEW minutes \in Int, NEW departure \in Int
  PROVE  /\ ShiftedStations(rows, minutes) \in JourneyStops
         /\ Ascends(rows) => Ascends(ShiftedStations(rows, minutes))
         /\ Follow(rows, departure) => Follow(ShiftedStations(rows, minutes), AddMinutes(departure, minutes))
<1> DEFINE new == ShiftedStations(rows, minutes)
<1>1. /\ DOMAIN rows \subseteq Station /\ new = [s \in DOMAIN rows |-> new[s]]
      /\ DOMAIN new = DOMAIN rows
      /\ \A s \in DOMAIN rows : rows[s] \in JourneyStationRow
  BY DEF JourneyStops, ShiftedStations
<1>2. ASSUME NEW s \in DOMAIN rows
      PROVE  /\ new[s] \in JourneyStationRow
             /\ new[s].number = rows[s].number /\ new[s].km = rows[s].km
             /\ new[s].arrives = rows[s].arrives /\ new[s].departs = rows[s].departs
             /\ new[s].scheduledArrivalAt = AddMinutes(rows[s].scheduledArrivalAt, minutes)
             /\ new[s].scheduledDepartureAt = AddMinutes(rows[s].scheduledDepartureAt, minutes)
  <2>1. PICK stop \in JourneyStationRow : stop = rows[s]
    BY <1>1, <1>2
  <2>2. PICK arrival, leaving : /\ arrival = AddMinutes(stop.scheduledArrivalAt, minutes)
                                /\ leaving = AddMinutes(stop.scheduledDepartureAt, minutes)
    OBVIOUS
  <2>3. arrival \in Time /\ leaving \in Time
    BY <2>2, TimesMove DEF JourneyStationRow, Time
  <2>4. new[s] = [stop EXCEPT !.scheduledArrivalAt = arrival, !.scheduledDepartureAt = leaving]
    BY <1>2, <2>1, <2>2 DEF ShiftedStations, JourneyStationRow
  <2> HIDE DEF new
  <2> QED
    BY <2>1, <2>2, <2>3, <2>4 DEF JourneyStationRow
<1> HIDE DEF new
<1>3. new \in JourneyStops
  BY <1>1, <1>2 DEF JourneyStops
<1>4. Ascends(rows) => Ascends(new)
  BY <1>1, <1>2 DEF Ascends
<1>5. ASSUME Follow(rows, departure) PROVE Follow(new, AddMinutes(departure, minutes))
  <2> SUFFICES ASSUME NEW s \in DOMAIN rows
               PROVE  /\ new[s].scheduledArrivalAt = AddMinutes(AddMinutes(departure, minutes), new[s].arrives)
                      /\ new[s].scheduledDepartureAt = AddMinutes(AddMinutes(departure, minutes), new[s].departs)
    BY <1>1 DEF Follow
  <2>1. /\ rows[s].scheduledArrivalAt = AddMinutes(departure, rows[s].arrives)
        /\ rows[s].scheduledDepartureAt = AddMinutes(departure, rows[s].departs)
    BY <1>5 DEF Follow
  <2>2. PICK arrives, departs : arrives = rows[s].arrives /\ departs = rows[s].departs
    OBVIOUS
  <2>3. arrives \in Time /\ departs \in Time
    BY <1>1, <2>2 DEF JourneyStationRow, Offset, Time
  <2>4. /\ AddMinutes(AddMinutes(departure, arrives), minutes) = AddMinutes(AddMinutes(departure, minutes), arrives)
        /\ AddMinutes(AddMinutes(departure, departs), minutes) = AddMinutes(AddMinutes(departure, minutes), departs)
    BY <2>3, TimesMoveTogether
  <2> QED
    BY <1>2, <2>1, <2>2, <2>4
<1> QED
  BY <1>3, <1>4, <1>5 DEF new

LEMMA JourneyIsDelayed ==
  ASSUME JourneysInv, NEW j \in Journey, NEW delayMinutes \in Delays, DelayJourney(j, delayMinutes)
  PROVE  JourneysInv'
<1>1. PICK old, row, stops :
        /\ old = journeys[j] /\ stops = journeyStations[j]
        /\ row = [old EXCEPT !.status = "DELAYED",
                    !.scheduledDepartureAt = AddMinutes(old.scheduledDepartureAt, delayMinutes),
                    !.scheduledArrivalAt = AddMinutes(old.scheduledArrivalAt, delayMinutes)]
  OBVIOUS
<1>2. /\ old \in JourneyRow
      /\ journeyStations' = [journeyStations EXCEPT ![j] = ShiftedStations(stops, delayMinutes)]
      /\ UNCHANGED <<journeyCoaches, journeySeats, generation, booked, adrift, unordered>>
      /\ CountJourneyStep
  BY <1>1 DEF DelayJourney, JourneysInv
<1>3. journeys' = [journeys EXCEPT ![j] = row]
  BY <1>1, <1>2 DEF DelayJourney, JourneyRow
<1>4. /\ delayMinutes \in Nat /\ old.scheduledDepartureAt \in Nat /\ old.scheduledArrivalAt \in Time
  BY <1>2, JourneyAssumption DEF JourneyRow
<1>5. PICK departure, arrival :
        /\ departure = AddMinutes(old.scheduledDepartureAt, delayMinutes)
        /\ arrival = AddMinutes(old.scheduledArrivalAt, delayMinutes)
  OBVIOUS
<1>6. departure \in Nat /\ arrival \in Time
  <2>1. departure \in Nat
    BY <1>4, <1>5, RouteAssumption DEF AddMinutes
  <2>2. delayMinutes \in Time
    BY <1>4 DEF Time
  <2> QED
    BY <1>4, <1>5, <2>1, <2>2, TimesMove
<1>7. row \in JourneyRow /\ row.scheduledDepartureAt = departure
  BY <1>1, <1>2, <1>5, <1>6 DEF JourneyRow, JourneyStatus
<1>8. /\ stops \in JourneyStops
      /\ j \notin adrift => Follow(stops, old.scheduledDepartureAt)
      /\ j \notin unordered => Ascends(stops)
  BY <1>1 DEF JourneysInv
<1>9. PICK new : new = ShiftedStations(stops, delayMinutes)
  OBVIOUS
<1>10. /\ new \in JourneyStops
       /\ j \notin adrift => Follow(new, departure)
       /\ j \notin unordered => Ascends(new)
  BY <1>4, <1>5, <1>8, <1>9, StationsShifted
<1>11. OtherTables'
  BY <1>2, JourneyStepCounted DEF JourneysInv, OtherTables
<1>12. /\ journeyStations' = [journeyStations EXCEPT ![j] = new]
       /\ adrift \subseteq adrift' \union {j} /\ unordered \subseteq unordered' \union {j}
       /\ j \notin unordered' => Ascends(new)
       /\ j \notin adrift' => Follow(new, row.scheduledDepartureAt)
  BY <1>2, <1>7, <1>9, <1>10
<1> QED
  BY <1>2, <1>3, <1>7, <1>10, <1>11, <1>12, GenerationsNow, JourneyChanged

LEMMA JourneyIsBooked ==
  ASSUME JourneysInv, NEW j \in Journey, Book(j)
  PROVE  JourneysInv'
<1>1. OtherTables'
  BY DEF Book, JourneysInv, OtherTables
<1>2. GenerationsHold'
  BY DEF Book, JourneysInv, GenerationsHold
<1> QED
  BY <1>1, <1>2, JourneysKept DEF Book

\* What a generation reads is of the journey's route as it is.
LEMMA RouteSnapshotsRead ==
  ASSUME RoutesInv, TrainsInv, JourneysInv, NEW g \in Generator, NEW j \in Journey,
         NEW replace \in BOOLEAN, ReadForSnapshots(g, j, replace)
  PROVE  JourneysInv'
<1>1. PICK row \in JourneyRow : row = journeys[j] /\ row # None
  BY DEF ReadForSnapshots, JourneysInv
<1>2. PICK r, t : r = row.route /\ t = row.train
  OBVIOUS
<1>3. PICK rows : rows = routeStations[r]
  OBVIOUS
<1>4. r \in Route /\ rows \in StopRows /\ rows # NoRows
  <2>1. r \in Route
    BY <1>1, <1>2 DEF JourneyRow
  <2>2. rows \in StopRows
    BY <1>3, <2>1 DEF RoutesInv, RouteTables
  <2> QED
    BY <1>1, <1>2, <1>3, <2>1, <2>2 DEF ReadForSnapshots
<1>5. PICK classes, places :
        /\ classes = [c \in ActiveCoaches(t) |-> coaches[c].coachClass]
        /\ places = ActiveSeats(t)
  OBVIOUS
<1>6. classes \in CoachClasses /\ places \subseteq Seat
  <2>1. \A c \in ActiveCoaches(t) : c \in Coach /\ coaches[c] \in CoachRow
    BY DEF ActiveCoaches, TrainsInv, SeatTables
  <2>2. \A c \in ActiveCoaches(t) : coaches[c].coachClass \in STRING
    BY <2>1 DEF CoachRow
  <2>3. ActiveCoaches(t) \subseteq Coach
    BY <2>1
  <2> HIDE DEF ActiveCoaches
  <2>4. classes \in [ActiveCoaches(t) -> STRING]
    BY <1>5, <2>2
  <2>5. places \subseteq Seat
    BY <1>5 DEF ActiveSeats
  <2> QED
    BY <2>3, <2>4, <2>5 DEF CoachClasses
<1>7. PICK existing, checked :
        /\ existing = HasSnapshots(j) /\ checked = (r \notin unchecked)
        /\ existing \in BOOLEAN /\ checked \in BOOLEAN
  BY DEF HasSnapshots
<1>8. PICK p : p = [journey |-> j, read |-> row, existing |-> existing, stations |-> rows,
                    checked |-> checked, coaches |-> classes, seats |-> places]
  OBVIOUS
<1>9. p \in Generation /\ p.journey = j /\ p.stations = rows /\ p.checked = checked
  BY <1>1, <1>4, <1>6, <1>7, <1>8 DEF Generation
<1>10. /\ generation' = [generation EXCEPT ![g] = p]
       /\ UNCHANGED <<journeys, journeyStations, journeyCoaches, journeySeats, booked,
                      adrift, unordered>>
       /\ CountJourneyStep
  BY <1>1, <1>2, <1>3, <1>5, <1>7, <1>8 DEF ReadForSnapshots
<1>11. ASSUME checked PROVE Ascends(rows)
  <2>1. r \notin unchecked
    BY <1>7, <1>11
  <2>2. routes[r] # None
    BY <1>3, <1>4 DEF RoutesInv, RowsHaveRoutes
  <2>3. RouteOrdered(routes[r], rows)
    BY <1>3, <1>4, <2>1, <2>2 DEF RoutesInv, RoutesStayOrdered
  <2>4. Ascending(rows, Numbers(rows))
    BY <2>3 DEF RouteOrdered
  <2> QED
    BY <1>4, <2>4, RowsTyped DEF Ascending, Ascends
<1>12. GenerationsHold'
  <2>1. generation' \in [Generator -> Generation \union {None}]
    BY <1>9, <1>10 DEF JourneysInv, GenerationsHold
  <2>2. ASSUME NEW h \in Generator, generation'[h] # None
        PROVE  /\ journeys'[generation'[h].journey] # None
               /\ generation'[h].checked => Ascends(generation'[h].stations)
    <3>1. CASE h = g
      BY <1>1, <1>9, <1>10, <1>11, <3>1 DEF JourneysInv, GenerationsHold
    <3>2. CASE h # g
      BY <1>10, <2>2, <3>2 DEF JourneysInv, GenerationsHold
    <3> QED
      BY <3>1, <3>2
  <2> QED
    BY <2>1, <2>2 DEF GenerationsHold
<1>13. OtherTables'
  BY <1>10, JourneyStepCounted DEF JourneysInv, OtherTables
<1> QED
  BY <1>10, <1>12, <1>13, JourneysKept

LEMMA StationsSnapshot ==
  ASSUME NEW stations \in StopRows, NEW departure \in Int
  PROVE  /\ StationSnapshots(stations, departure) \in JourneyStops
         /\ Follow(StationSnapshots(stations, departure), departure)
         /\ Ascends(stations) => Ascends(StationSnapshots(stations, departure))
<1> DEFINE new == StationSnapshots(stations, departure)
<1>1. /\ DOMAIN stations \subseteq Station /\ DOMAIN new = DOMAIN stations
      /\ new = [s \in DOMAIN stations |-> new[s]]
      /\ \A s \in DOMAIN stations : stations[s] \in StopRow
  BY RowsTyped DEF StationSnapshots
<1>2. ASSUME NEW s \in DOMAIN stations
      PROVE  /\ new[s] \in JourneyStationRow
             /\ new[s].number = stations[s].number /\ new[s].km = stations[s].km
             /\ new[s].scheduledArrivalAt = AddMinutes(departure, new[s].arrives)
             /\ new[s].scheduledDepartureAt = AddMinutes(departure, new[s].departs)
  <2>1. PICK stop \in StopRow : stop = stations[s]
    BY <1>1
  <2>2. PICK arrival, leaving : /\ arrival = AddMinutes(departure, stop.arrives)
                                /\ leaving = AddMinutes(departure, stop.departs)
    OBVIOUS
  <2>3. arrival \in Time /\ leaving \in Time
    BY <2>2, TimesMove DEF StopRow, Offset, Time
  <2>4. new[s] = [number |-> stop.number, km |-> stop.km, scheduledArrivalAt |-> arrival,
                  scheduledDepartureAt |-> leaving, arrives |-> stop.arrives, departs |-> stop.departs]
    BY <2>1, <2>2 DEF StationSnapshots
  <2> HIDE DEF new
  <2> QED
    BY <2>1, <2>2, <2>3, <2>4 DEF StopRow, JourneyStationRow
<1> HIDE DEF new
<1>3. new \in JourneyStops
  BY <1>1, <1>2 DEF JourneyStops
<1>4. Follow(new, departure)
  BY <1>1, <1>2 DEF Follow
<1>5. Ascends(stations) => Ascends(new)
  BY <1>1, <1>2 DEF Ascends
<1> QED
  BY <1>3, <1>4, <1>5 DEF new

\* A generation that is over, whichever way.
LEMMA GenerationOver ==
  ASSUME JourneysInv, NEW g \in Generator, generation' = [generation EXCEPT ![g] = None]
  PROVE  /\ generation' \in [Generator -> Generation \union {None}]
         /\ \A h \in Generator : generation'[h] # None => generation'[h] = generation[h]
BY DEF JourneysInv, GenerationsHold

LEMMA SnapshotsWritten ==
  ASSUME JourneysInv, NEW g \in Generator, CommitSnapshots(g)
  PROVE  JourneysInv'
<1>1. PICK p \in Generation : p = generation[g] /\ p # None
  BY DEF CommitSnapshots, JourneysInv, GenerationsHold
<1>2. PICK j \in Journey, departure \in Nat :
        j = p.journey /\ departure = p.read.scheduledDepartureAt
  BY DEF Generation, JourneyRow
<1>3. PICK new : new = StationSnapshots(p.stations, departure)
  OBVIOUS
<1>4. /\ journeyStations' = [journeyStations EXCEPT ![j] = new]
      /\ journeyCoaches' = [journeyCoaches EXCEPT ![j] = p.coaches]
      /\ journeySeats' = [journeySeats EXCEPT ![j] = p.seats]
      /\ adrift' = IF departure # journeys[j].scheduledDepartureAt
                   THEN adrift \union {j} ELSE adrift \ {j}
      /\ unordered' = IF p.checked THEN unordered \ {j} ELSE unordered \union {j}
      /\ generation' = [generation EXCEPT ![g] = None]
      /\ UNCHANGED <<journeys, booked, journeySteps>>
  BY <1>1, <1>2, <1>3 DEF CommitSnapshots
<1>5. /\ p.stations \in StopRows /\ p.coaches \in CoachClasses /\ p.seats \in SUBSET Seat
      /\ journeys[j] # None /\ (p.checked => Ascends(p.stations))
  BY <1>1, <1>2 DEF Generation, JourneysInv, GenerationsHold
<1>6. PICK row \in JourneyRow : row = journeys[j] /\ journeys' = [journeys EXCEPT ![j] = row]
  BY <1>4, <1>5 DEF JourneysInv
<1>7. /\ new \in JourneyStops /\ Follow(new, departure)
      /\ p.checked => Ascends(new)
  BY <1>3, <1>5, StationsSnapshot
<1>8. /\ j \notin adrift' => Follow(new, row.scheduledDepartureAt)
      /\ j \notin unordered' => Ascends(new)
      /\ adrift \subseteq adrift' \union {j} /\ unordered \subseteq unordered' \union {j}
  BY <1>4, <1>6, <1>7
<1>9. OtherTables'
  <2>1. /\ journeyCoaches' \in [Journey -> CoachClasses]
        /\ journeySeats' \in [Journey -> SUBSET Seat]
    BY <1>4, <1>5 DEF JourneysInv, OtherTables
  <2>2. booked' \union adrift' \union unordered' \subseteq Journey
    BY <1>4 DEF JourneysInv, OtherTables
  <2> QED
    BY <1>4, <2>1, <2>2 DEF JourneysInv, OtherTables
<1> QED
  BY <1>4, <1>6, <1>7, <1>8, <1>9, GenerationOver, JourneyChanged

LEMMA SnapshotsGivenUp ==
  ASSUME JourneysInv, NEW g \in Generator, RollbackSnapshots(g)
  PROVE  JourneysInv'
<1>1. /\ generation' = [generation EXCEPT ![g] = None]
      /\ UNCHANGED <<journeys, journeyStations, journeyCoaches, journeySeats, booked,
                     adrift, unordered, journeySteps>>
  BY DEF RollbackSnapshots
<1>2. GenerationsHold'
  BY <1>1, GenerationOver DEF JourneysInv, GenerationsHold
<1>3. OtherTables'
  BY <1>1 DEF JourneysInv, OtherTables
<1> QED
  BY <1>1, <1>2, <1>3, JourneysKept

LEMMA JourneysInvStep ==
  ASSUME RoutesInv, TrainsInv, JourneysInv, JourneysNext
  PROVE  JourneysInv'
<1>1. ASSUME NEW j \in Journey, \E values \in JourneyInputs : CreateJourney(j, values)
      PROVE  JourneysInv'
  BY <1>1, JourneyIsCreated
<1>2. ASSUME NEW j \in Journey, \E values \in JourneyPatches : UpdateJourney(j, values)
      PROVE  JourneysInv'
  BY <1>2, JourneyIsUpdated
<1>3. CASE \E j \in Journey : CancelJourney(j)
  BY <1>3, JourneyIsCancelled
<1>4. CASE \E j \in Journey, delayMinutes \in Delays : DelayJourney(j, delayMinutes)
  BY <1>4, JourneyIsDelayed
<1>5. CASE \E j \in Journey : Book(j)
  BY <1>5, JourneyIsBooked
<1>6. CASE \E g \in Generator, j \in Journey, replace \in BOOLEAN : ReadForSnapshots(g, j, replace)
  BY <1>6, RouteSnapshotsRead
<1>7. CASE \E g \in Generator : CommitSnapshots(g)
  BY <1>7, SnapshotsWritten
<1>8. CASE \E g \in Generator : RollbackSnapshots(g)
  BY <1>8, SnapshotsGivenUp
<1> QED
  BY <1>1, <1>2, <1>3, <1>4, <1>5, <1>6, <1>7, <1>8 DEF JourneysNext

LEMMA JourneysInvUnchanged == JourneysInv /\ UNCHANGED journeyVars => JourneysInv'
<1> SUFFICES ASSUME JourneysInv, UNCHANGED journeyVars PROVE JourneysInv'
  OBVIOUS
<1>1. /\ UNCHANGED <<journeys, journeyStations, adrift, unordered>>
      /\ UNCHANGED <<journeyCoaches, journeySeats, generation, booked, journeySteps>>
  BY DEF journeyVars
<1>2. GenerationsHold' /\ OtherTables'
  BY <1>1 DEF JourneysInv, GenerationsHold, OtherTables
<1> QED
  BY <1>1, <1>2, JourneysKept

LEMMA TimetableJourneysStep ==
  RoutesInv /\ TrainsInv /\ JourneysInv /\ [TimetableNext]_timetableVars => JourneysInv'
<1> SUFFICES ASSUME RoutesInv, TrainsInv, JourneysInv, [TimetableNext]_timetableVars
             PROVE  JourneysInv'
  OBVIOUS
<1>1. CASE JourneysNext
  BY <1>1, JourneysInvStep
<1>2. CASE UNCHANGED journeyVars
  BY <1>2, JourneysInvUnchanged
<1> QED
  BY <1>1, <1>2 DEF TimetableNext, timetableVars

\* The rows of journeys follow the routes and departures they were made from.
THEOREM JourneysInvariant == TimetableSpec => []JourneysInv
<1>1. TimetableInit => JourneysInv
  BY JourneysStart DEF TimetableInit
<1> QED
  BY <1>1, TimetableJourneysStep, RoutesInvariant, TrainsInvariant, PTL DEF TimetableSpec

\* The tables of routes, trains and journeys and every open transaction on them keep
\* their types.
THEOREM TimetableTyped == TimetableSpec => []TimetableTypeOK
<1>1. RoutesInv => RoutesTypeOK
  <2> SUFFICES ASSUME RoutesInv PROVE RoutesTypeOK
    OBVIOUS
  <2>1. \A r \in Route : routeStations[r] \in StopRows /\ rowQueue[r] \in Seq(Editor)
    BY DEF RoutesInv, RouteTables
  <2>2. \A r \in Route : /\ DOMAIN routeStations[r] \subseteq Station
                         /\ routeStations[r] \in [DOMAIN routeStations[r] -> StopRow]
    BY <2>1, RowsTyped
  <2>3. ASSUME NEW e \in Editor, edit[e] # Idle
        PROVE  /\ edit[e].phase \in {"READ", "LOCKING"} /\ edit[e].route \in Route
               /\ edit[e].row \in RouteRow /\ edit[e].present \subseteq Station
               /\ DOMAIN edit[e].order \subseteq Station
               /\ edit[e].order \in [DOMAIN edit[e].order -> Nat]
    <3>1. edit[e] \in Edit
      BY <2>3 DEF RoutesInv, RouteTables
    <3> QED
      BY <3>1 DEF Edit, Orders
  <2> QED
    BY <2>1, <2>2, <2>3 DEF RoutesTypeOK, RoutesInv, RouteTables
<1>2. TrainsInv => TrainsTypeOK
  <2> SUFFICES ASSUME TrainsInv PROVE TrainsTypeOK
    OBVIOUS
  <2>1. ASSUME NEW e \in SeatEditor, seatEdit[e] # None
        PROVE  /\ seatEdit[e].gone \union seatEdit[e].created \subseteq Seat
               /\ DOMAIN seatEdit[e].rows \subseteq Seat
               /\ seatEdit[e].counted \subseteq {seatEdit[e].source, seatEdit[e].target}
               /\ seatEdit[e].counted \union seatEdit[e].overtaken \subseteq Coach
               /\ {seatEdit[e].readings, seatEdit[e].totals} \subseteq CoachTotals
    <3>1. PICK p : p = seatEdit[e]
      OBVIOUS
    <3>2. p \in SeatEdit /\ InStep(p)
      BY <2>1, <3>1, SeatEditOpen
    <3>3. /\ p.gone \union p.created \subseteq Seat /\ DOMAIN p.rows \subseteq Seat
          /\ p.counted \union p.overtaken \subseteq Coach
          /\ {p.readings, p.totals} \subseteq CoachTotals
      BY <3>2 DEF SeatEdit
    <3> QED
      BY <3>1, <3>2, <3>3 DEF InStep
  <2>2. \A s \in Seat : seats[s] = None \/ seats[s] \in SeatRow
    BY DEF TrainsInv, SeatTables
  <2> QED
    BY <2>1, <2>2 DEF TrainsTypeOK, TrainsInv, SeatTables
<1>3. JourneysInv => JourneysTypeOK
  <2> SUFFICES ASSUME JourneysInv PROVE JourneysTypeOK
    OBVIOUS
  <2>1. ASSUME NEW j \in Journey
        PROVE  /\ DOMAIN journeyStations[j] \subseteq Station
               /\ \A s \in DOMAIN journeyStations[j] : journeyStations[j][s] \in JourneyStationRow
               /\ DOMAIN journeyCoaches[j] \subseteq Coach
               /\ journeySeats[j] \subseteq Seat
    <3>1. journeyStations[j] \in JourneyStops /\ journeyCoaches[j] \in CoachClasses
          /\ journeySeats[j] \in SUBSET Seat
      BY DEF JourneysInv, OtherTables
    <3> QED
      BY <3>1 DEF JourneyStops, CoachClasses
  <2>2. ASSUME NEW g \in Generator, generation[g] # None
        PROVE  generation[g].journey \in Journey /\ generation[g].read \in JourneyRow
    <3>1. generation[g] \in Generation
      BY <2>2 DEF JourneysInv, GenerationsHold
    <3> QED
      BY <3>1 DEF Generation
  <2> QED
    BY <2>1, <2>2 DEF JourneysTypeOK, JourneysInv, OtherTables
<1> QED
  BY <1>1, <1>2, <1>3, RoutesInvariant, TrainsInvariant, JourneysInvariant, PTL DEF TimetableTypeOK

\* The times of a journey's stations are those of its route counted from the journey's
\* departure, through every delay and every new generation, except where the departure
\* was changed by hand or moved while the snapshots were being made (delayJourney and
\* generateSnapshots of journey.service.js).
THEOREM StationTimesAreKept == TimetableSpec => []StationTimesFollowDeparture
<1>1. JourneysInv => StationTimesFollowDeparture
  BY DEF JourneysInv, Follow, StationTimesFollowDeparture
<1> QED
  BY <1>1, JourneysInvariant, PTL

\* Of two rides on a journey made from a checked route, one within the other, the longer
\* one never costs less, for every rule, class and party: the edits of routes keep the
\* distances in the order of the stations, the snapshots copy them, and no rounding of
\* the fare turns the order of two distances round.
THEOREM LongerRidesCostNoLess == TimetableSpec => []LongerRidesNeverCheaper
<1>1. JourneysInv => LongerRidesNeverCheaper
  <2> SUFFICES ASSUME JourneysInv, NEW j \in Journey \ unordered, NEW rule \in FareRules,
                      NEW c \in DOMAIN journeyCoaches[j], NEW types \in PassengerLists,
                      NEW outer \in Rides(journeyStations[j]),
                      NEW inner \in Rides(journeyStations[j]),
                      Within(journeyStations[j], inner, outer)
               PROVE  BookingFare(rule, journeyCoaches[j][c],
                        Distance(journeyStations[j][outer[1]], journeyStations[j][outer[2]]), types).finalTotal
                      >= BookingFare(rule, journeyCoaches[j][c],
                        Distance(journeyStations[j][inner[1]], journeyStations[j][inner[2]]), types).finalTotal
    BY DEF LongerRidesNeverCheaper
  <2>1. PICK rows \in JourneyStops : rows = journeyStations[j] /\ Ascends(rows)
    BY DEF JourneysInv
  <2>2. /\ outer[1] \in DOMAIN rows /\ outer[2] \in DOMAIN rows
        /\ inner[1] \in DOMAIN rows /\ inner[2] \in DOMAIN rows
        /\ DistanceValid(rows[outer[1]], rows[outer[2]])
        /\ DistanceValid(rows[inner[1]], rows[inner[2]])
    BY <2>1 DEF Rides
  <2>3. PICK a, b, x, y : a = outer[1] /\ b = outer[2] /\ x = inner[1] /\ y = inner[2]
    OBVIOUS
  <2>4. \A s \in {a, b, x, y} : rows[s] \in JourneyStationRow
    BY <2>2, <2>3 DEF JourneyStops
  <2>5. rows[a].km <= rows[x].km /\ rows[y].km <= rows[b].km
    BY <2>1, <2>2, <2>3 DEF Ascends, Within
  <2>6. PICK long, short : /\ long = Distance(rows[a], rows[b])
                           /\ short = Distance(rows[x], rows[y])
    OBVIOUS
  <2>7. long \in Nat /\ short \in Nat /\ short <= long
    BY <2>2, <2>3, <2>4, <2>5, <2>6 DEF Distance, DistanceValid, JourneyStationRow
  <2>8. types \in Seq(STRING)
    BY JourneyAssumption
  <2>9. BookingFare(rule, journeyCoaches[j][c], short, types).finalTotal
          <= BookingFare(rule, journeyCoaches[j][c], long, types).finalTotal
    BY <2>7, <2>8, FaresGrowWithDistance
  <2>10. \A m, n : m <= n => n >= m
    OBVIOUS
  <2> QED
    BY <2>1, <2>3, <2>6, <2>9, <2>10
<1> QED
  BY <1>1, JourneysInvariant, PTL

-------------------------------------------------------------------------------
(* The party that travels                                                    *)

\* Nothing is entered any more once the passengers are stored: what was stored is
\* what the form, complete and valid, still shows.
PartyInv ==
  /\ form \in [Passenger -> Entry]
  /\ guests # None =>
       /\ FormComplete /\ IdentitiesValid
       /\ guests = [i \in Passenger |-> [identityType |-> form[i].identityType,
                                         hash |-> HashOf(form[i]), guardian |-> form[i].guardian]]

LEMMA PartyStart == PassengersInit => PartyInv
  BY DEF PassengersInit, PartyInv

LEMMA EntryTyped ==
  ASSUME NEW e \in Entry
  PROVE  /\ \A type \in IdentityTypes, g \in Passenger \union {None, 0} :
              [e EXCEPT !.identityType = type, !.guardian = g] \in Entry
         /\ \A number \in RawNumber \union {NoValue} : [e EXCEPT !.identityNumber = number] \in Entry
         /\ \A g \in Passenger : [e EXCEPT !.guardian = g] \in Entry
  BY DEF Entry

LEMMA PartyStep == PartyInv /\ [PassengersNext]_partyVars => PartyInv'
<1> SUFFICES ASSUME PartyInv, [PassengersNext]_partyVars PROVE PartyInv'
  OBVIOUS
<1>1. CASE UNCHANGED partyVars
  BY <1>1 DEF PartyInv, partyVars, FormComplete, IdentitiesValid, Prepared, HashOf, GuardianValid
<1>2. ASSUME guests = None, NEW i \in Passenger, NEW type \in IdentityTypes, PickIdentityType(i, type)
      PROVE  PartyInv'
  <2>1. PICK e, g : e = form[i] /\ g = IF type = "DEPENDENT" /\ e.guardian = None THEN 0 ELSE e.guardian
    OBVIOUS
  <2>2. e \in Entry /\ g \in Passenger \union {None, 0}
    BY <2>1 DEF PartyInv, Entry
  <2>3. form' = [form EXCEPT ![i] = [e EXCEPT !.identityType = type, !.guardian = g]]
    BY <1>2, <2>1, <2>2 DEF PickIdentityType, PartyInv, Entry
  <2>4. form' \in [Passenger -> Entry]
    BY <2>2, <2>3, EntryTyped DEF PartyInv
  <2> QED
    BY <1>2, <2>4 DEF PartyInv, PickIdentityType
<1>3. ASSUME guests = None, NEW i \in Passenger, NEW number \in RawNumber \union {NoValue},
             TypeNumber(i, number)
      PROVE  PartyInv'
  <2>1. PICK e : e = form[i]
    OBVIOUS
  <2>2. e \in Entry /\ form' = [form EXCEPT ![i] = [e EXCEPT !.identityNumber = number]]
    BY <1>3, <2>1 DEF PartyInv, TypeNumber
  <2>3. form' \in [Passenger -> Entry]
    BY <2>2, EntryTyped DEF PartyInv
  <2> QED
    BY <1>3, <2>3 DEF PartyInv, TypeNumber
<1>4. ASSUME guests = None, NEW i \in Passenger, NEW g \in Passenger, PickGuardian(i, g)
      PROVE  PartyInv'
  <2>1. PICK e : e = form[i]
    OBVIOUS
  <2>2. e \in Entry /\ form' = [form EXCEPT ![i] = [e EXCEPT !.guardian = g]]
    BY <1>4, <2>1 DEF PartyInv, PickGuardian
  <2>3. form' \in [Passenger -> Entry]
    BY <2>2, EntryTyped DEF PartyInv
  <2> QED
    BY <1>4, <2>3 DEF PartyInv, PickGuardian
<1>5. CASE StorePassengers
  BY <1>5 DEF PartyInv, StorePassengers, FormComplete, IdentitiesValid, Prepared, HashOf,
     GuardianValid
<1> QED
  BY <1>1, <1>2, <1>3, <1>4, <1>5 DEF PassengersNext

\* A complete and valid form leaves nobody of a party without an identity or an
\* identified adult of the same party who answers for him.
LEMMA ValidPartyIdentified == PartyInv => GuestPartiesIdentified
<1> SUFFICES ASSUME PartyInv, guests # None PROVE GuestPartiesIdentified
  BY DEF GuestPartiesIdentified
<1>1. /\ FormComplete /\ IdentitiesValid
      /\ \A i \in Passenger : guests[i].hash = HashOf(form[i]) /\ guests[i].guardian = form[i].guardian
  BY DEF PartyInv
<1>2. ASSUME NEW i \in Passenger PROVE HashOf(form[i]) = NoValue <=> form[i].identityType = "DEPENDENT"
  <2>1. PICK e : e = form[i]
    OBVIOUS
  <2>2. e \in Entry
    BY <2>1 DEF PartyInv
  <2>3. CASE e.identityType # "DEPENDENT"
    <3>1. e.identityNumber \in RawNumber
      BY <1>1, <2>1, <2>2, <2>3 DEF FormComplete, Entry
    <3>2. HashOf(e) \in IdentityTypes \X {NormalOf[n] : n \in RawNumber}
      BY <2>2, <2>3, <3>1 DEF HashOf, Entry
    <3> QED
      BY <2>1, <2>3, <3>2, PartyAssumption
  <2>4. CASE e.identityType = "DEPENDENT"
    BY <2>1, <2>4 DEF HashOf
  <2> QED
    BY <2>1, <2>3, <2>4
<1>3. 1 \in Passenger
  BY PartyAssumption DEF Passenger
<1>4. guests[1].hash # NoValue
  BY <1>1, <1>2, <1>3 DEF IdentitiesValid
<1>5. ASSUME NEW i \in Passenger, guests[i].hash = NoValue
      PROVE  /\ guests[i].guardian \in Passenger \ {i}
             /\ guests[guests[i].guardian].hash # NoValue
             /\ form[guests[i].guardian].born = "ADULT"
  <2>1. form[i].identityType = "DEPENDENT"
    BY <1>1, <1>2, <1>5
  <2>2. form[i].guardian \in Passenger
    BY <1>1, <2>1 DEF PartyInv, Entry, FormComplete
  <2>3. GuardianValid(i)
    BY <1>1, <2>1 DEF IdentitiesValid
  <2> QED
    BY <1>1, <1>2, <2>2, <2>3 DEF GuardianValid
<1>6. ASSUME NEW i \in Passenger, NEW j \in Passenger, i # j, guests[i].hash = guests[j].hash
      PROVE  guests[i].hash = NoValue
  BY <1>1, <1>6 DEF IdentitiesValid
<1> QED
  BY <1>4, <1>5, <1>6 DEF GuestPartiesIdentified

\* Whoever of a guest's party has no identity of his own is in the care of an
\* identified adult of the party, in whatever order the form was filled in and
\* changed (#validateIdentities of booking-passenger.service.js).
THEOREM PartiesAreIdentified == PassengersSpec => []GuestPartiesIdentified
  BY PartyStart, PartyStep, ValidPartyIdentified, PTL DEF PassengersSpec

-------------------------------------------------------------------------------
(* The pages of a passenger                                                  *)

\* A payment that an answer or a key names: the request that made it has ended.
Told(p) == payments[p] # None /\ \A c \in creating : c.payment # p

ThisPage(visit, b) ==
  visit \in 1 .. view.visit /\ (visit = view.visit => b = view.booking)

\* What a page has sent belongs to the booking of the page.
PostsOfPages ==
  \A m \in posts :
    /\ m.kind = "hold" => m.seats \subseteq SeatChoice
    /\ m.kind = "create" =>
         m.booking \in Trip /\ m.method \in PaymentMethod /\ ThisPage(m.visit, m.booking)

AnswersOfPages ==
  \A a \in answers :
    /\ a.kind = "hold" => a.booking \in Trip \union {None}
    /\ a.kind = "create" => a.payment \in PaymentId \union {None}
    /\ a.kind = "create" /\ a.payment # None =>
         Told(a.payment) /\ ThisPage(a.visit, payments[a.payment].booking)

KeysOfPages ==
  \A k \in keys :
    /\ ThisPage(k.key, k.booking)
    /\ k.payment # None => Told(k.payment) /\ payments[k.payment].booking = k.booking
    /\ \A l \in keys : l.booking = k.booking /\ l.key = k.key => l = k

\* The page shows the payment it was told of, and the store's is that one unless an
\* answer to an earlier page came in between.
PageShowsItsPayment ==
  /\ view.name = "PAYMENT" => view.booking \in Trip
  /\ view.response # None =>
       /\ Told(view.response) /\ payments[view.response].booking = view.booking
       /\ view.crossed \/ flow.paymentId = view.response
  /\ flow.paymentId # None => Told(flow.paymentId)

\* An attempt whose request is under way is the only live one of its booking, and
\* its key has no answer yet.
AttemptsUnderWay ==
  /\ \A c \in creating :
       /\ payments[c.payment] # None /\ payments[c.payment].status = "PENDING"
       /\ ThisPage(c.key, payments[c.payment].booking)
       /\ \A k \in keys :
            k.booking = payments[c.payment].booking /\ k.key = c.key => k.payment = None
  /\ \A c, d \in creating : payments[c.payment].booking = payments[d.payment].booking => c = d

\* What was told of a key is what the key keeps.
KeysKeepAnswers ==
  \A n \in named :
    /\ \E k \in keys : k.booking = n.booking /\ k.key = n.key
    /\ \A k \in keys : k.booking = n.booking /\ k.key = n.key => k.payment = n.payment

SlipsKept ==
  \A s \in slips :
    payments[s.payment] # None /\ (s.crossed \/ payments[s.payment].booking = s.booking)

PagesInv ==
  /\ PagesTypeOK
  /\ PostsOfPages
  /\ AnswersOfPages
  /\ KeysOfPages
  /\ PageShowsItsPayment
  /\ AttemptsUnderWay
  /\ KeysKeepAnswers
  /\ SlipsKept

\* Another page is open, or this one shows its seats otherwise.
LEMMA PageTurned ==
  ASSUME PagesInv, PagesTypeOK', UNCHANGED <<payments, keys, creating, named, slips, posts>>,
         answers' \subseteq answers, flow'.paymentId = flow.paymentId,
         \/ view' = view
         \/ /\ view'.visit = view.visit + 1 /\ view'.response = None
            /\ view'.name = "PAYMENT" => view'.booking \in Trip
  PROVE  PagesInv'
<1>1. \A visit, b : ThisPage(visit, b) => ThisPage(visit, b)'
  <2> SUFFICES ASSUME NEW visit, NEW b, ThisPage(visit, b) PROVE ThisPage(visit, b)'
    OBVIOUS
  <2>1. view.visit \in Nat /\ visit \in 1 .. view.visit
    BY DEF PagesInv, PagesTypeOK, Visit, ThisPage
  <2> QED
    BY <2>1 DEF ThisPage
<1>2. \A p : Told(p) => Told(p)'
  BY DEF Told
<1>3. PostsOfPages'
  BY <1>1 DEF PagesInv, PostsOfPages
<1>4. AnswersOfPages'
  BY <1>1, <1>2 DEF PagesInv, AnswersOfPages
<1>5. KeysOfPages'
  BY <1>1, <1>2 DEF PagesInv, KeysOfPages
<1>6. PageShowsItsPayment'
  BY <1>2 DEF PagesInv, PageShowsItsPayment
<1>7. AttemptsUnderWay'
  BY <1>1 DEF PagesInv, AttemptsUnderWay
<1>8. KeysKeepAnswers' /\ SlipsKept'
  BY DEF PagesInv, KeysKeepAnswers, SlipsKept
<1> QED
  BY <1>3, <1>4, <1>5, <1>6, <1>7, <1>8 DEF PagesInv

\* Requests and answers travel.
LEMMA MessagesMove ==
  ASSUME PagesInv, PagesTypeOK', PostsOfPages', AnswersOfPages',
         UNCHANGED <<view, flow, payments, keys, creating, named, slips>>
  PROVE  PagesInv'
<1>1. KeysOfPages' /\ PageShowsItsPayment' /\ AttemptsUnderWay'
  BY DEF PagesInv, KeysOfPages, PageShowsItsPayment, AttemptsUnderWay, Told, ThisPage
<1>2. KeysKeepAnswers' /\ SlipsKept'
  BY DEF PagesInv, KeysKeepAnswers, SlipsKept
<1> QED
  BY <1>1, <1>2 DEF PagesInv

\* The server turns a page of its tables only.
LEMMA PageUnmoved ==
  ASSUME PagesInv, UNCHANGED <<view, flow, payments, creating>>,
         posts' \subseteq posts, answers' \subseteq answers
  PROVE  PostsOfPages' /\ AnswersOfPages'
  BY DEF PagesInv, PostsOfPages, AnswersOfPages, ThisPage, Told

LEMMA PushTyped ==
  ASSUME PagesTypeOK, NEW name \in {"SEATS", "BOOKING", "PAYMENT", "TICKET"},
         NEW b \in Trip \union {None}, Push(name, b)
  PROVE  /\ view' \in [name : {"SEATS", "BOOKING", "PAYMENT", "TICKET"}, booking : Trip \union {None},
                       visit : Visit, response : PaymentId \union {None}, crossed : BOOLEAN]
         /\ view'.visit = view.visit + 1 /\ view'.response = None
         /\ view'.name = name /\ view'.booking = b
<1>1. view.visit \in Visit /\ view.visit < MaxVisits /\ MaxVisits \in Nat
  BY PagesAssumption DEF PagesTypeOK, Push
<1>2. view.visit + 1 \in Visit
  BY <1>1 DEF Visit
<1>3. PICK v : v = view.visit + 1
  OBVIOUS
<1>4. view' = [name |-> name, booking |-> b, visit |-> v, response |-> None, crossed |-> FALSE]
  BY <1>3 DEF Push, Opened
<1> QED
  BY <1>2, <1>3, <1>4

LEMMA PageSteps ==
  ASSUME PagesInv,
         \/ OpenSeats \/ RefreshMap \/ ChooseSeats \/ ReturnToDraft \/ OpenTicket
         \/ \E s \in SeatChoice : ToggleSeat(s)
         \/ \E b \in Trip : ReturnToPayment(b)
         \/ \E m \in PaymentMethod : PickMethod(m)
         \/ \E a \in answers : HoldAnswered(a)
  PROVE  PagesInv'
<1> USE DEF PagesInv
<1>1. CASE OpenSeats
  <2>1. view' \in [name : {"SEATS", "BOOKING", "PAYMENT", "TICKET"}, booking : Trip \union {None},
                   visit : Visit, response : PaymentId \union {None}, crossed : BOOLEAN]
        /\ view'.visit = view.visit + 1 /\ view'.response = None /\ view'.name = "SEATS"
    BY <1>1, PushTyped DEF OpenSeats
  <2>2. PagesTypeOK'
    BY <1>1, <2>1 DEF OpenSeats, PagesTypeOK, recordVars
  <2> QED
    BY <1>1, <2>1, <2>2, PageTurned DEF OpenSeats, recordVars
<1>2. CASE RefreshMap
  <2>1. PagesTypeOK'
    BY <1>2 DEF RefreshMap, PagesTypeOK, recordVars, Free
  <2> QED
    BY <1>2, <2>1, PageTurned DEF RefreshMap, recordVars
<1>3. CASE ChooseSeats
  <2>1. view' \in [name : {"SEATS", "BOOKING", "PAYMENT", "TICKET"}, booking : Trip \union {None},
                   visit : Visit, response : PaymentId \union {None}, crossed : BOOLEAN]
        /\ view'.visit = view.visit + 1 /\ view'.response = None /\ view'.name = "BOOKING"
    BY <1>3, PushTyped DEF ChooseSeats
  <2>2. PagesTypeOK'
    BY <1>3, <2>1 DEF ChooseSeats, PagesTypeOK, recordVars
  <2> QED
    BY <1>3, <2>1, <2>2, PageTurned DEF ChooseSeats, recordVars
<1>4. CASE ReturnToDraft
  <2>1. view' \in [name : {"SEATS", "BOOKING", "PAYMENT", "TICKET"}, booking : Trip \union {None},
                   visit : Visit, response : PaymentId \union {None}, crossed : BOOLEAN]
        /\ view'.visit = view.visit + 1 /\ view'.response = None /\ view'.name = "BOOKING"
    BY <1>4, PushTyped DEF ReturnToDraft
  <2>2. PagesTypeOK'
    BY <1>4, <2>1 DEF ReturnToDraft, PagesTypeOK, recordVars
  <2> QED
    BY <1>4, <2>1, <2>2, PageTurned DEF ReturnToDraft, recordVars
<1>5. CASE OpenTicket
  <2>1. view.booking \in Trip \union {None} /\ Push("TICKET", view.booking)
    BY <1>5 DEF OpenTicket, PagesTypeOK
  <2>2. view' \in [name : {"SEATS", "BOOKING", "PAYMENT", "TICKET"}, booking : Trip \union {None},
                   visit : Visit, response : PaymentId \union {None}, crossed : BOOLEAN]
        /\ view'.visit = view.visit + 1 /\ view'.response = None /\ view'.name = "TICKET"
    BY <2>1, PushTyped
  <2>3. PagesTypeOK'
    BY <1>5, <2>2 DEF OpenTicket, PagesTypeOK, recordVars
  <2> QED
    BY <1>5, <2>2, <2>3, PageTurned DEF OpenTicket, recordVars
<1>6. CASE \E s \in SeatChoice : ToggleSeat(s)
  <2>1. PagesTypeOK' /\ view' = view /\ flow' = flow /\ answers' = answers
        /\ UNCHANGED <<payments, keys, creating, named, slips, posts>>
    BY <1>6 DEF ToggleSeat, PagesTypeOK, recordVars
  <2> QED
    BY <2>1, PageTurned
<1>7. ASSUME NEW b \in Trip, ReturnToPayment(b) PROVE PagesInv'
  <2>1. view' \in [name : {"SEATS", "BOOKING", "PAYMENT", "TICKET"}, booking : Trip \union {None},
                   visit : Visit, response : PaymentId \union {None}, crossed : BOOLEAN]
        /\ view'.visit = view.visit + 1 /\ view'.response = None /\ view'.booking = b
    BY <1>7, PushTyped DEF ReturnToPayment
  <2>2. PagesTypeOK'
    BY <1>7, <2>1 DEF ReturnToPayment, PagesTypeOK, recordVars
  <2> QED
    BY <1>7, <2>1, <2>2, PageTurned DEF ReturnToPayment, recordVars
<1>8. ASSUME NEW m \in PaymentMethod, PickMethod(m) PROVE PagesInv'
  <2>1. flow' \in [method : PaymentMethod, paymentId : PaymentId \union {None}]
        /\ flow'.paymentId = flow.paymentId
    BY <1>8 DEF PickMethod, PagesTypeOK
  <2>2. PagesTypeOK'
    BY <1>8, <2>1 DEF PickMethod, PagesTypeOK, recordVars
  <2> QED
    BY <1>8, <2>1, <2>2, PageTurned DEF PickMethod, recordVars
<1>9. ASSUME NEW a \in answers, HoldAnswered(a) PROVE PagesInv'
  <2>1. a.booking \in Trip \union {None}
    BY <1>9 DEF HoldAnswered, AnswersOfPages
  <2>2. (a.booking \in Trip /\ Push("PAYMENT", a.booking)) \/ Push("SEATS", None)
    BY <1>9, <2>1 DEF HoldAnswered
  <2>3. view' \in [name : {"SEATS", "BOOKING", "PAYMENT", "TICKET"}, booking : Trip \union {None},
                   visit : Visit, response : PaymentId \union {None}, crossed : BOOLEAN]
        /\ view'.visit = view.visit + 1 /\ view'.response = None
        /\ (view'.name = "PAYMENT" => view'.booking \in Trip)
    <3>1. CASE a.booking \in Trip /\ Push("PAYMENT", a.booking)
      BY <3>1, PushTyped
    <3>2. CASE Push("SEATS", None)
      BY <3>2, PushTyped
    <3> QED
      BY <2>2, <3>1, <3>2
  <2>4. accesses' \subseteq Trip
    BY <1>9, <2>1 DEF HoldAnswered, PagesTypeOK
  <2>5. /\ selected' = {} /\ offered' = {} /\ answers' \subseteq answers
        /\ UNCHANGED <<flow, draft, posts>>
        /\ UNCHANGED <<trips, taken, payments, keys, creating, named, slips>>
    <3>1. selected' = {} /\ offered' = {} /\ answers' \subseteq answers
      BY <1>9 DEF HoldAnswered
    <3>2. UNCHANGED <<flow, draft, posts>>
      BY <1>9 DEF HoldAnswered
    <3>3. UNCHANGED <<trips, taken, payments, keys, creating, named, slips>>
      BY <1>9 DEF HoldAnswered, recordVars
    <3> QED
      BY <3>1, <3>2, <3>3
  <2>6. PagesTypeOK'
    BY <2>3, <2>4, <2>5 DEF PagesTypeOK
  <2> QED
    BY <2>3, <2>5, <2>6, PageTurned
<1> QED
  BY <1>1, <1>2, <1>3, <1>4, <1>5, <1>6, <1>7, <1>8, <1>9

LEMMA TablesTyped ==
  ASSUME PagesTypeOK, UNCHANGED <<tabVars, payments, keys, creating, named, slips>>,
         taken' \subseteq SeatChoice,
         trips' \in [Trip -> [status : {"NONE", "HELD", "CONFIRMED", "EXPIRED"}, seats : SUBSET SeatChoice]]
  PROVE  PagesTypeOK'
  BY DEF PagesTypeOK, tabVars

LEMMA MessageSteps ==
  ASSUME PagesInv,
         \/ SubmitHold \/ StartPayment
         \/ \E m \in posts \union answers : LoseMessage(m)
         \/ \E m \in posts : RefusePayment(m)
         \/ \E b \in Trip : ExpireTrip(b)
         \/ \E s \in SeatChoice : OthersHold(s)
  PROVE  PagesInv'
<1>1. CASE SubmitHold
  <2>1. UNCHANGED <<view, flow, payments, keys, creating, named, slips>> /\ answers' = answers
        /\ UNCHANGED <<tabVars, taken, trips>>
    BY <1>1 DEF SubmitHold, tabVars, recordVars
  <2>2. PagesTypeOK'
    BY <2>1, TablesTyped DEF PagesInv, PagesTypeOK
  <2>3. posts' = posts \union {[kind |-> "hold", visit |-> view.visit, seats |-> draft]}
    BY <1>1 DEF SubmitHold
  <2>4. PostsOfPages'
    BY <2>1, <2>3 DEF PagesInv, PagesTypeOK, PostsOfPages, ThisPage
  <2>5. AnswersOfPages'
    BY <2>1 DEF PagesInv, AnswersOfPages, ThisPage, Told
  <2> QED
    BY <2>1, <2>2, <2>4, <2>5, MessagesMove
<1>2. CASE StartPayment
  <2>1. UNCHANGED <<view, flow, payments, keys, creating, named, slips>> /\ answers' = answers
        /\ UNCHANGED <<tabVars, taken, trips>>
    BY <1>2 DEF StartPayment, tabVars, recordVars
  <2>2. PagesTypeOK'
    BY <2>1, TablesTyped DEF PagesInv, PagesTypeOK
  <2>3. /\ posts' = posts \union {[kind |-> "create", visit |-> view.visit,
                                   booking |-> view.booking, method |-> flow.method]}
        /\ view.booking \in Trip /\ view.visit \in 1 .. view.visit /\ flow.method \in PaymentMethod
    BY <1>2, PagesAssumption DEF StartPayment, PagesInv, PagesTypeOK, PageShowsItsPayment, Visit
  <2>4. PostsOfPages'
    BY <2>1, <2>3 DEF PagesInv, PostsOfPages, ThisPage
  <2>5. AnswersOfPages'
    BY <2>1 DEF PagesInv, AnswersOfPages, ThisPage, Told
  <2> QED
    BY <2>1, <2>2, <2>4, <2>5, MessagesMove
<1>3. ASSUME NEW m \in posts \union answers, LoseMessage(m) PROVE PagesInv'
  <2>1. UNCHANGED <<view, flow, payments, keys, creating, named, slips>>
        /\ UNCHANGED <<tabVars, taken, trips>>
    BY <1>3 DEF LoseMessage, tabVars, recordVars
  <2>2. PagesTypeOK'
    BY <2>1, TablesTyped DEF PagesInv, PagesTypeOK
  <2>3. PostsOfPages' /\ AnswersOfPages'
    BY <1>3, <2>1, PageUnmoved DEF LoseMessage
  <2> QED
    BY <2>1, <2>2, <2>3, MessagesMove
<1>4. ASSUME NEW m \in posts, RefusePayment(m) PROVE PagesInv'
  <2>1. UNCHANGED <<view, flow, payments, keys, creating, named, slips>>
        /\ UNCHANGED <<tabVars, taken, trips>>
    BY <1>4 DEF RefusePayment, tabVars, recordVars
  <2>2. PagesTypeOK'
    BY <2>1, TablesTyped DEF PagesInv, PagesTypeOK
  <2>3. PostsOfPages'
    BY <1>4, <2>1 DEF RefusePayment, PagesInv, PostsOfPages, ThisPage
  <2>4. answers' = answers \union {[kind |-> "create", visit |-> m.visit, payment |-> None]}
    BY <1>4 DEF RefusePayment, Answer
  <2>5. AnswersOfPages'
    BY <2>1, <2>4 DEF PagesInv, AnswersOfPages, ThisPage, Told
  <2> QED
    BY <2>1, <2>2, <2>3, <2>5, MessagesMove
<1>5. ASSUME NEW b \in Trip, ExpireTrip(b) PROVE PagesInv'
  <2>1. UNCHANGED <<view, flow, payments, keys, creating, named, slips>>
        /\ UNCHANGED <<tabVars, taken, posts, answers>>
    BY <1>5 DEF ExpireTrip, tabVars
  <2>2. trips' \in [Trip -> [status : {"NONE", "HELD", "CONFIRMED", "EXPIRED"}, seats : SUBSET SeatChoice]]
    BY <1>5 DEF ExpireTrip, PagesInv, PagesTypeOK
  <2>3. PagesTypeOK'
    BY <2>1, <2>2, TablesTyped DEF PagesInv, PagesTypeOK
  <2>4. PostsOfPages' /\ AnswersOfPages'
    BY <2>1, PageUnmoved
  <2> QED
    BY <2>1, <2>3, <2>4, MessagesMove
<1>6. ASSUME NEW s \in SeatChoice, OthersHold(s) PROVE PagesInv'
  <2>1. UNCHANGED <<view, flow, payments, keys, creating, named, slips>>
        /\ UNCHANGED <<tabVars, trips, posts, answers>>
    BY <1>6 DEF OthersHold, tabVars
  <2>2. taken' \subseteq SeatChoice
    BY <1>6 DEF OthersHold, PagesInv, PagesTypeOK
  <2>3. PagesTypeOK'
    BY <2>1, <2>2, TablesTyped DEF PagesInv, PagesTypeOK
  <2>4. PostsOfPages' /\ AnswersOfPages'
    BY <2>1, PageUnmoved
  <2> QED
    BY <2>1, <2>3, <2>4, MessagesMove
<1> QED
  BY <1>1, <1>2, <1>3, <1>4, <1>5, <1>6

LEMMA HoldServed ==
  ASSUME PagesInv, NEW m \in posts, ServeHold(m)
  PROVE  PagesInv'
<1>1. UNCHANGED <<view, flow, payments, keys, creating, named, slips>>
      /\ UNCHANGED <<tabVars, taken>>
  BY DEF ServeHold, tabVars
<1>2. m.kind = "hold" /\ m.seats \subseteq SeatChoice /\ posts' = posts \ {m}
  BY DEF ServeHold, PagesInv, PostsOfPages
<1>3. PICK b \in Trip \union {None} :
        answers' = answers \union {[kind |-> "hold", visit |-> m.visit, booking |-> b]}
  BY DEF ServeHold
<1>4. trips' \in [Trip -> [status : {"NONE", "HELD", "CONFIRMED", "EXPIRED"}, seats : SUBSET SeatChoice]]
  <2>1. CASE trips' = trips
    BY <2>1 DEF PagesInv, PagesTypeOK
  <2>2. CASE \E c \in Trip : trips' = [trips EXCEPT ![c] = [status |-> "HELD", seats |-> m.seats]]
    BY <1>2, <2>2 DEF PagesInv, PagesTypeOK
  <2> QED
    BY <2>1, <2>2 DEF ServeHold
<1>5. PagesTypeOK'
  BY <1>1, <1>4, TablesTyped DEF PagesInv, PagesTypeOK
<1>6. PostsOfPages'
  BY <1>1, <1>2 DEF PagesInv, PostsOfPages, ThisPage
<1>7. AnswersOfPages'
  BY <1>1, <1>3 DEF PagesInv, AnswersOfPages, ThisPage, Told
<1> QED
  BY <1>1, <1>5, <1>6, <1>7, MessagesMove

\* An answer acts on the store, and on its page when that is still open.
LEMMA PaymentTold ==
  ASSUME PagesInv, NEW a \in answers, PaymentAnswered(a)
  PROVE  PagesInv'
<1>1. /\ a.kind = "create" /\ answers' = answers \ {a} /\ posts' = posts
      /\ UNCHANGED <<payments, keys, creating, named, slips>>
      /\ UNCHANGED <<selected, draft, offered, accesses, trips, taken>>
  BY DEF PaymentAnswered, recordVars
<1>2. CASE a.payment = None
  <2>1. UNCHANGED <<view, flow>>
    BY <1>2 DEF PaymentAnswered
  <2>2. PagesTypeOK'
    BY <1>1, <2>1 DEF PagesInv, PagesTypeOK
  <2>3. PostsOfPages' /\ AnswersOfPages'
    BY <1>1, <2>1, PageUnmoved
  <2> QED
    BY <1>1, <2>1, <2>2, <2>3, MessagesMove
<1>3. CASE a.payment # None
  <2>1. PICK p \in PaymentId : p = a.payment
    BY <1>1, <1>3 DEF PagesInv, AnswersOfPages
  <2>2. Told(p) /\ ThisPage(a.visit, payments[p].booking)
    BY <1>1, <1>3, <2>1 DEF PagesInv, AnswersOfPages
  <2>3. /\ flow' = [flow EXCEPT !.paymentId = p]
        /\ view' = IF a.visit = view.visit THEN [view EXCEPT !.response = p]
                   ELSE [view EXCEPT !.crossed = TRUE]
    BY <1>3, <2>1 DEF PaymentAnswered
  <2>4. /\ view' \in [name : {"SEATS", "BOOKING", "PAYMENT", "TICKET"}, booking : Trip \union {None},
                      visit : Visit, response : PaymentId \union {None}, crossed : BOOLEAN]
        /\ view'.name = view.name /\ view'.booking = view.booking /\ view'.visit = view.visit
        /\ IF a.visit = view.visit THEN view'.response = p
           ELSE view'.response = view.response /\ view'.crossed
    BY <2>1, <2>3 DEF PagesInv, PagesTypeOK
  <2>5. flow' \in [method : PaymentMethod, paymentId : PaymentId \union {None}] /\ flow'.paymentId = p
    BY <2>1, <2>3 DEF PagesInv, PagesTypeOK
  <2>6. PagesTypeOK'
    BY <1>1, <2>4, <2>5 DEF PagesInv, PagesTypeOK
  <2>7. PostsOfPages' /\ AnswersOfPages' /\ KeysOfPages'
    BY <1>1, <2>4 DEF PagesInv, PostsOfPages, AnswersOfPages, KeysOfPages, ThisPage, Told
  <2>8. AttemptsUnderWay'
    BY <1>1, <2>4 DEF PagesInv, AttemptsUnderWay, ThisPage
  <2>9. PageShowsItsPayment'
    BY <1>1, <2>2, <2>4, <2>5 DEF PagesInv, PageShowsItsPayment, Told, ThisPage
  <2>10. KeysKeepAnswers' /\ SlipsKept'
    BY <1>1 DEF PagesInv, KeysKeepAnswers, SlipsKept
  <2> QED
    BY <2>6, <2>7, <2>8, <2>9, <2>10 DEF PagesInv
<1> QED
  BY <1>2, <1>3

LEMMA StatusChanged ==
  ASSUME PagesTypeOK, NEW p \in PaymentId, payments[p] # None,
         NEW status \in LiveAttempt \union {"REJECTED", "PAID", "FAILED"},
         payments' = [payments EXCEPT ![p].status = status]
  PROVE  /\ payments' \in [PaymentId -> Attempt \union {None}]
         /\ \A q \in PaymentId : payments[q] # None =>
              payments'[q] # None /\ payments'[q].booking = payments[q].booking
         /\ \A q \in PaymentId \ {p} : payments'[q] = payments[q]
         /\ payments'[p].status = status
<1>1. PICK row : row = payments[p]
  OBVIOUS
<1>2. row \in Attempt /\ payments' = [payments EXCEPT ![p] = [row EXCEPT !.status = status]]
  BY <1>1 DEF PagesTypeOK
<1>3. /\ [row EXCEPT !.status = status] \in Attempt
      /\ [row EXCEPT !.status = status].booking = row.booking
      /\ [row EXCEPT !.status = status].status = status
  BY <1>2 DEF Attempt
<1>4. PICK new : new = [row EXCEPT !.status = status]
  OBVIOUS
<1>5. payments' = [payments EXCEPT ![p] = new] /\ new \in Attempt /\ new.booking = row.booking
      /\ new.status = status
  BY <1>2, <1>3, <1>4
<1> QED
  BY <1>1, <1>5, PagesAssumption DEF PagesTypeOK

\* Attempts change, and requests go on or end, without a new one of either.
LEMMA AttemptsKept ==
  ASSUME PagesInv, PagesTypeOK', UNCHANGED <<view, flow, keys, named, posts>>,
         \A q \in PaymentId : payments[q] # None =>
           payments'[q] # None /\ payments'[q].booking = payments[q].booking,
         \A d \in creating' : \E c \in creating :
           c.payment = d.payment /\ c.key = d.key /\ payments'[c.payment] = payments[c.payment],
         \A c, d \in creating' : c.payment = d.payment => c = d,
         \A a \in answers' : a \in answers \/ (a.kind = "create" /\ a.payment = None),
         \A s \in slips' : s \in slips \/
           (payments[s.payment] # None /\ (s.crossed \/ payments[s.payment].booking = s.booking))
  PROVE  PagesInv'
<1>1. \A q \in PaymentId : Told(q) => Told(q)'
  BY DEF Told
<1>2. \A visit, b : ThisPage(visit, b) => ThisPage(visit, b)'
  BY DEF ThisPage
<1>3. \A q \in PaymentId : Told(q) => payments'[q].booking = payments[q].booking
  BY DEF Told
<1>4. PostsOfPages'
  BY <1>2 DEF PagesInv, PostsOfPages
<1>5. AnswersOfPages'
  BY <1>1, <1>2, <1>3, PagesAssumption DEF PagesInv, AnswersOfPages
<1>6. KeysOfPages'
  <2>1. \A k \in keys : k.payment \in PaymentId \union {None}
    BY DEF PagesInv, PagesTypeOK
  <2> QED
    BY <1>1, <1>2, <1>3, <2>1 DEF PagesInv, KeysOfPages
<1>7. PageShowsItsPayment'
  <2>1. view.response \in PaymentId \union {None} /\ flow.paymentId \in PaymentId \union {None}
    BY DEF PagesInv, PagesTypeOK
  <2> QED
    BY <1>1, <1>3, <2>1 DEF PagesInv, PageShowsItsPayment
<1>8. AttemptsUnderWay'
  BY <1>2 DEF PagesInv, AttemptsUnderWay
<1>9. KeysKeepAnswers'
  BY DEF PagesInv, KeysKeepAnswers
<1>10. SlipsKept'
  <2>1. \A s \in slips' : s.payment \in PaymentId
    BY DEF PagesTypeOK
  <2> QED
    BY <2>1 DEF PagesInv, SlipsKept
<1> QED
  BY <1>4, <1>5, <1>6, <1>7, <1>8, <1>9, <1>10 DEF PagesInv

\* A request whose attempt is under way is known by its attempt.
LEMMA OneRequestEach ==
  ASSUME PagesInv, NEW c \in creating, NEW d \in creating, c.payment = d.payment
  PROVE  c = d
  BY DEF PagesInv, AttemptsUnderWay

LEMMA SlipUploaded == PagesInv /\ UploadSlip => PagesInv'
<1> SUFFICES ASSUME PagesInv, UploadSlip PROVE PagesInv'
  OBVIOUS
<1> PICK p : p = flow.paymentId
  OBVIOUS
<1>1. /\ view.name = "PAYMENT" /\ p # None /\ view.response # None
      /\ payments' = [payments EXCEPT ![p].status = "AWAITING_VERIFICATION"]
      /\ slips' = slips \union {[payment |-> p, booking |-> view.booking, crossed |-> view.crossed]}
      /\ UNCHANGED <<tabVars, trips, taken, keys, creating, named, posts, answers>>
  BY DEF UploadSlip, UploadOffered
<1>2. /\ p \in PaymentId /\ Told(p) /\ view.booking \in Trip /\ view.crossed \in BOOLEAN
      /\ view.crossed \/ payments[p].booking = view.booking
  BY <1>1 DEF PagesInv, PagesTypeOK, PageShowsItsPayment
<1>3. UNCHANGED <<view, flow, selected, draft, offered, accesses>>
  BY <1>1 DEF tabVars
<1>4. /\ payments' \in [PaymentId -> Attempt \union {None}]
      /\ \A q \in PaymentId : payments[q] # None =>
           payments'[q] # None /\ payments'[q].booking = payments[q].booking
      /\ \A q \in PaymentId \ {p} : payments'[q] = payments[q]
  BY <1>1, <1>2, StatusChanged DEF PagesInv, Told, LiveAttempt
<1>5. PagesTypeOK'
  BY <1>1, <1>2, <1>3, <1>4 DEF PagesInv, PagesTypeOK
<1>6. \A d \in creating : d.payment \in PaymentId \ {p}
  BY <1>2 DEF PagesInv, PagesTypeOK, Told
<1>7. \A s \in slips' : s \in slips \/
        (payments[s.payment] # None /\ (s.crossed \/ payments[s.payment].booking = s.booking))
  BY <1>1, <1>2 DEF Told
<1> QED
  BY <1>1, <1>3, <1>4, <1>5, <1>6, <1>7, OneRequestEach, AttemptsKept

LEMMA AttemptPaid ==
  ASSUME PagesInv, NEW p \in PaymentId, PayAttempt(p)
  PROVE  PagesInv'
<1>1. PICK status \in {"PAID", "FAILED", "REJECTED"} :
        payments' = [payments EXCEPT ![p].status = status]
  BY DEF PayAttempt
<1>2. /\ payments[p] # None /\ payments[p].status # "PENDING"
      /\ UNCHANGED <<tabVars, taken, keys, creating, named, slips, posts, answers>>
  BY DEF PayAttempt, Created
<1>3. UNCHANGED <<view, flow, selected, draft, offered, accesses>>
  BY <1>2 DEF tabVars
<1>4. /\ payments' \in [PaymentId -> Attempt \union {None}]
      /\ \A q \in PaymentId : payments[q] # None =>
           payments'[q] # None /\ payments'[q].booking = payments[q].booking
      /\ \A q \in PaymentId \ {p} : payments'[q] = payments[q]
  BY <1>1, <1>2, StatusChanged DEF PagesInv
<1>5. trips' \in [Trip -> [status : {"NONE", "HELD", "CONFIRMED", "EXPIRED"}, seats : SUBSET SeatChoice]]
  <2>1. CASE trips' = trips
    BY <2>1 DEF PagesInv, PagesTypeOK
  <2>2. PICK b \in Trip : b = payments[p].booking
    BY <1>2 DEF PagesInv, PagesTypeOK, Attempt
  <2>3. CASE trips' = [trips EXCEPT ![b].status = IF @ = "HELD" THEN "CONFIRMED" ELSE @]
    BY <2>3 DEF PagesInv, PagesTypeOK
  <2> QED
    BY <2>1, <2>2, <2>3 DEF PayAttempt
<1>6. PagesTypeOK'
  BY <1>2, <1>3, <1>4, <1>5 DEF PagesInv, PagesTypeOK
<1>7. \A d \in creating : d.payment \in PaymentId \ {p}
  BY <1>2 DEF PagesInv, PagesTypeOK, AttemptsUnderWay
<1> QED
  BY <1>2, <1>3, <1>4, <1>6, <1>7, OneRequestEach, AttemptsKept

\* The browser gives up, or the server stops or is refused by Stripe.
LEMMA RequestEnds ==
  ASSUME PagesInv, NEW c \in creating, GiveUp(c) \/ ForgetRequest(c) \/ FailPayment(c)
  PROVE  PagesInv'
<1>1. /\ UNCHANGED <<tabVars, trips, taken, keys, named, slips, posts>>
      /\ c.payment \in PaymentId /\ payments[c.payment] # None
  BY DEF GiveUp, ForgetRequest, FailPayment, PagesInv, PagesTypeOK, AttemptsUnderWay
<1>2. UNCHANGED <<view, flow, selected, draft, offered, accesses>>
  BY <1>1 DEF tabVars
<1>3. CASE GiveUp(c)
  <2>1. PICK d : d = [c EXCEPT !.awaited = FALSE]
    OBVIOUS
  <2>2. d \in [payment : PaymentId, key : Visit, awaited : BOOLEAN]
        /\ d.payment = c.payment /\ d.key = c.key
    BY <2>1 DEF PagesInv, PagesTypeOK
  <2>3. creating' = (creating \ {c}) \union {d} /\ UNCHANGED <<payments, answers>>
    BY <1>3, <2>1 DEF GiveUp
  <2>4. PagesTypeOK'
    BY <1>1, <1>2, <2>2, <2>3 DEF PagesInv, PagesTypeOK
  <2>5. \A e \in creating' : \E f \in creating :
          f.payment = e.payment /\ f.key = e.key /\ payments'[f.payment] = payments[f.payment]
    BY <2>2, <2>3
  <2>6. \A e, f \in creating' : e.payment = f.payment => e = f
    BY <2>2, <2>3, OneRequestEach
  <2> QED
    BY <1>1, <1>2, <2>3, <2>4, <2>5, <2>6, AttemptsKept
<1>4. CASE ForgetRequest(c)
  <2>1. creating' = creating \ {c} /\ UNCHANGED <<payments, answers>>
    BY <1>4 DEF ForgetRequest
  <2>2. PagesTypeOK'
    BY <1>1, <1>2, <2>1 DEF PagesInv, PagesTypeOK
  <2> QED
    BY <1>1, <1>2, <2>1, <2>2, OneRequestEach, AttemptsKept
<1>5. CASE FailPayment(c)
  <2>1. PICK p \in PaymentId : p = c.payment
    BY <1>1
  <2>2. /\ creating' = creating \ {c}
        /\ payments' = [payments EXCEPT ![p].status = "FAILED"]
        /\ \A a \in answers' : a \in answers \/ (a.kind = "create" /\ a.payment = None)
    BY <1>5, <2>1 DEF FailPayment, Answer
  <2>3. /\ payments' \in [PaymentId -> Attempt \union {None}]
        /\ \A q \in PaymentId : payments[q] # None =>
             payments'[q] # None /\ payments'[q].booking = payments[q].booking
        /\ \A q \in PaymentId \ {p} : payments'[q] = payments[q]
    BY <1>1, <2>1, <2>2, StatusChanged DEF PagesInv
  <2>4. PagesTypeOK'
    BY <1>1, <1>2, <2>2, <2>3 DEF PagesInv, PagesTypeOK
  <2>5. \A d \in creating' : d.payment \in PaymentId \ {p}
    BY <2>1, <2>2, OneRequestEach DEF PagesInv, PagesTypeOK
  <2> QED
    BY <1>1, <1>2, <2>2, <2>3, <2>4, <2>5, OneRequestEach, AttemptsKept
<1> QED
  BY <1>3, <1>4, <1>5

\* The answer a key keeps is told again.
LEMMA AnswerReplayed ==
  ASSUME PagesInv, NEW m \in posts, ReplayAnswer(m)
  PROVE  PagesInv'
<1>1. /\ posts' = posts \ {m} /\ m.kind = "create"
      /\ UNCHANGED <<tabVars, trips, taken, payments, keys, creating, slips>>
  BY DEF ReplayAnswer
<1>2. UNCHANGED <<view, flow, selected, draft, offered, accesses>>
  BY <1>1 DEF tabVars
<1>3. PICK k \in keys :
        /\ k.booking = m.booking /\ k.key = m.visit /\ k.payment # None
        /\ answers' = answers \union {Answer(m, k.payment)}
        /\ named' = named \union {[booking |-> m.booking, key |-> m.visit, payment |-> k.payment]}
  BY DEF ReplayAnswer, KeyOf
<1>4. /\ k.booking \in Trip /\ k.key \in Visit /\ k.payment \in PaymentId
      /\ Told(k.payment) /\ payments[k.payment].booking = k.booking
      /\ ThisPage(k.key, k.booking)
      /\ \A l \in keys : l.booking = k.booking /\ l.key = k.key => l = k
  BY <1>3 DEF PagesInv, PagesTypeOK, KeysOfPages
<1>5. named' \subseteq [booking : Trip, key : Visit, payment : PaymentId]
  BY <1>3, <1>4 DEF PagesInv, PagesTypeOK
<1>6. PagesTypeOK'
  BY <1>1, <1>2, <1>5 DEF PagesInv, PagesTypeOK
<1>7. PostsOfPages'
  BY <1>1, <1>2 DEF PagesInv, PostsOfPages, ThisPage
<1>8. AnswersOfPages'
  <2>1. answers' = answers \union {[kind |-> "create", visit |-> k.key, payment |-> k.payment]}
    BY <1>3 DEF Answer
  <2> QED
    BY <1>1, <1>2, <1>4, <2>1 DEF PagesInv, AnswersOfPages, ThisPage, Told
<1>9. KeysOfPages' /\ PageShowsItsPayment' /\ AttemptsUnderWay' /\ SlipsKept'
  BY <1>1, <1>2
     DEF PagesInv, KeysOfPages, PageShowsItsPayment, AttemptsUnderWay, SlipsKept, Told, ThisPage
<1>10. KeysKeepAnswers'
  <2> SUFFICES ASSUME NEW n \in named'
               PROVE  /\ \E l \in keys : l.booking = n.booking /\ l.key = n.key
                      /\ \A l \in keys : l.booking = n.booking /\ l.key = n.key
                                           => l.payment = n.payment
    BY <1>1 DEF KeysKeepAnswers
  <2>1. CASE n \in named
    BY <2>1 DEF PagesInv, KeysKeepAnswers
  <2>2. CASE n = [booking |-> m.booking, key |-> m.visit, payment |-> k.payment]
    BY <1>3, <1>4, <2>2
  <2> QED
    BY <1>3, <2>1, <2>2
<1> QED
  BY <1>6, <1>7, <1>8, <1>9, <1>10 DEF PagesInv

\* A key without an answer has told nobody of a payment.
LEMMA NobodyToldYet ==
  ASSUME PagesInv, NEW b, NEW key,
         \A k \in keys : k.booking = b /\ k.key = key => k.payment = None
  PROVE  \A n \in named : ~ (n.booking = b /\ n.key = key)
<1> SUFFICES ASSUME NEW n \in named, n.booking = b, n.key = key PROVE FALSE
  OBVIOUS
<1>1. n.payment = None
  BY DEF PagesInv, KeysKeepAnswers
<1>2. n.payment \in Nat
  BY DEF PagesInv, PagesTypeOK, PaymentId
<1> QED
  BY <1>1, <1>2, PagesAssumption

LEMMA PaymentCreated ==
  ASSUME PagesInv, NEW m \in posts, CreatePayment(m)
  PROVE  PagesInv'
<1>1. /\ posts' = posts \ {m} /\ m.kind = "create"
      /\ UNCHANGED <<tabVars, trips, taken, named, slips, answers>>
      /\ \A k \in keys : k.booking = m.booking /\ k.key = m.visit =>
           k.method = m.method /\ k.payment = None
      /\ ~ ActiveAttempt(m.booking)
  BY DEF CreatePayment, KeyOf
<1>2. UNCHANGED <<view, flow, selected, draft, offered, accesses>>
  BY <1>1 DEF tabVars
<1>3. /\ m.booking \in Trip /\ m.method \in PaymentMethod /\ ThisPage(m.visit, m.booking)
      /\ m.visit \in Visit
  BY <1>1, PagesAssumption DEF PagesInv, PagesTypeOK, PostsOfPages, ThisPage, Visit
<1>4. PICK row : row = [booking |-> m.booking, method |-> m.method, status |-> "PENDING"]
  OBVIOUS
<1>5. row \in Attempt /\ row.booking = m.booking /\ row.status = "PENDING" /\ row # None
  BY <1>3, <1>4, PagesAssumption DEF Attempt, LiveAttempt
<1>6. PICK p \in PaymentId :
        /\ payments[p] = None
        /\ payments' = [payments EXCEPT ![p] = row]
        /\ creating' = creating \union {[payment |-> p, key |-> m.visit, awaited |-> TRUE]}
  BY <1>4 DEF CreatePayment, Created
<1>7. PICK k : k = [booking |-> m.booking, key |-> m.visit, method |-> m.method, payment |-> None]
  OBVIOUS
<1>8. /\ keys' = keys \union {k} /\ k.booking = m.booking /\ k.key = m.visit /\ k.payment = None
      /\ k \in [booking : Trip, key : Visit, method : PaymentMethod,
                payment : PaymentId \union {None}]
  BY <1>3, <1>7 DEF CreatePayment
<1>9. PICK c : c = [payment |-> p, key |-> m.visit, awaited |-> TRUE]
  OBVIOUS
<1>10. /\ creating' = creating \union {c} /\ c.payment = p /\ c.key = m.visit
       /\ c \in [payment : PaymentId, key : Visit, awaited : BOOLEAN]
  BY <1>3, <1>6, <1>9
<1>11. /\ payments' \in [PaymentId -> Attempt \union {None}] /\ payments'[p] = row
       /\ \A q \in PaymentId : payments[q] # None => q # p /\ payments'[q] = payments[q]
  BY <1>5, <1>6 DEF PagesInv, PagesTypeOK
<1>12. PagesTypeOK'
  BY <1>1, <1>2, <1>8, <1>10, <1>11 DEF PagesInv, PagesTypeOK
<1>13. \A q \in PaymentId : Told(q) => Told(q)' /\ payments'[q] = payments[q]
  BY <1>10, <1>11 DEF Told
<1>14. PostsOfPages'
  BY <1>1, <1>2 DEF PagesInv, PostsOfPages, ThisPage
<1>15. AnswersOfPages'
  BY <1>1, <1>2, <1>13, PagesAssumption DEF PagesInv, AnswersOfPages, ThisPage
<1>16. KeysOfPages'
  <2>1. \A l \in keys : l.booking = k.booking /\ l.key = k.key => l = k
    BY <1>1, <1>7, <1>8 DEF PagesInv, PagesTypeOK
  <2>2. \A l \in keys : /\ ThisPage(l.key, l.booking) /\ l.payment \in PaymentId \union {None}
                        /\ l.payment # None =>
                             Told(l.payment) /\ payments[l.payment].booking = l.booking
                        /\ \A n \in keys : n.booking = l.booking /\ n.key = l.key => n = l
    BY DEF PagesInv, PagesTypeOK, KeysOfPages
  <2> QED
    BY <1>2, <1>3, <1>8, <1>13, <2>1, <2>2 DEF KeysOfPages, ThisPage
<1>17. PageShowsItsPayment'
  <2>1. view.response \in PaymentId \union {None} /\ flow.paymentId \in PaymentId \union {None}
    BY DEF PagesInv, PagesTypeOK
  <2> QED
    BY <1>2, <1>13, <2>1 DEF PagesInv, PageShowsItsPayment
<1>18. AttemptsUnderWay'
  <2>1. \A d \in creating : /\ d.payment \in PaymentId /\ payments[d.payment] # None
                            /\ payments[d.payment].booking # m.booking
    BY <1>1 DEF PagesInv, PagesTypeOK, AttemptsUnderWay, ActiveAttempt, Created, LiveAttempt
  <2>2. \A d \in creating : payments'[d.payment] = payments[d.payment]
    BY <1>11, <2>1
  <2>3. \A d \in creating' :
          /\ payments'[d.payment] # None /\ payments'[d.payment].status = "PENDING"
          /\ ThisPage(d.key, payments'[d.payment].booking)
          /\ \A l \in keys' :
               l.booking = payments'[d.payment].booking /\ l.key = d.key => l.payment = None
    <3> SUFFICES ASSUME NEW d \in creating'
                 PROVE  /\ payments'[d.payment] # None /\ payments'[d.payment].status = "PENDING"
                        /\ ThisPage(d.key, payments'[d.payment].booking)
                        /\ \A l \in keys' :
                             l.booking = payments'[d.payment].booking /\ l.key = d.key
                               => l.payment = None
      OBVIOUS
    <3>1. CASE d \in creating
      BY <1>8, <2>2, <3>1 DEF PagesInv, AttemptsUnderWay
    <3>2. CASE d = c
      BY <1>1, <1>3, <1>5, <1>8, <1>10, <1>11, <3>2
    <3> QED
      BY <1>10, <3>1, <3>2
  <2>4. \A d, e \in creating' : payments'[d.payment].booking = payments'[e.payment].booking => d = e
    BY <1>5, <1>10, <1>11, <2>1, <2>2 DEF PagesInv, AttemptsUnderWay
  <2> QED
    BY <1>2, <2>3, <2>4 DEF AttemptsUnderWay, ThisPage
<1>19. KeysKeepAnswers'
  <2>1. \A n \in named : ~ (n.booking = m.booking /\ n.key = m.visit)
    BY <1>1, NobodyToldYet
  <2> QED
    BY <1>1, <1>8, <2>1 DEF PagesInv, KeysKeepAnswers
<1>20. SlipsKept'
  <2>1. \A s \in slips : s.payment \in PaymentId
    BY DEF PagesInv, PagesTypeOK
  <2> QED
    BY <1>1, <1>11, <2>1 DEF PagesInv, SlipsKept
<1> QED
  BY <1>12, <1>14, <1>15, <1>16, <1>17, <1>18, <1>19, <1>20 DEF PagesInv

\* The request ends: its key keeps the attempt, and the page is told of it.
LEMMA PaymentFinished ==
  ASSUME PagesInv, NEW c \in creating, FinishPayment(c)
  PROVE  PagesInv'
<1>1. PICK p \in PaymentId : p = c.payment
  BY DEF PagesInv, PagesTypeOK
<1>2. PICK b \in Trip : b = payments[p].booking
  BY <1>1 DEF PagesInv, PagesTypeOK, AttemptsUnderWay, Attempt
<1>3. /\ payments[p] # None /\ ThisPage(c.key, b) /\ c.key \in Visit
      /\ payments[p].method \in PaymentMethod
      /\ \A k \in keys : k.booking = b /\ k.key = c.key => k.payment = None
  BY <1>1, <1>2 DEF PagesInv, PagesTypeOK, AttemptsUnderWay, Attempt
<1>4. /\ creating' = creating \ {c}
      /\ UNCHANGED <<tabVars, trips, taken, slips, posts>>
      /\ \/ answers' = answers
         \/ answers' = answers \union {[kind |-> "create", visit |-> c.key, payment |-> p]}
  BY <1>1 DEF FinishPayment, Answer
<1>5. UNCHANGED <<view, flow, selected, draft, offered, accesses>>
  BY <1>4 DEF tabVars
<1>6. PICK status \in LiveAttempt : payments' = [payments EXCEPT ![p].status = status]
  <2>1. payments' = [payments EXCEPT ![p].status =
                       IF payments[p].method = "CARD" THEN "PROCESSING" ELSE @]
    BY <1>1 DEF FinishPayment
  <2>2. CASE payments[p].method = "CARD"
    BY <2>1, <2>2 DEF LiveAttempt
  <2>3. CASE payments[p].method # "CARD"
    <3>1. payments[p].status = "PENDING"
      BY <1>1 DEF PagesInv, AttemptsUnderWay
    <3>2. payments' = [payments EXCEPT ![p].status = payments[p].status]
      BY <2>1, <2>3 DEF PagesInv, PagesTypeOK
    <3> QED
      BY <3>1, <3>2 DEF LiveAttempt
  <2> QED
    BY <2>2, <2>3
<1>7. PICK k : k = [booking |-> b, key |-> c.key, method |-> payments[p].method, payment |-> p]
  OBVIOUS
<1>8. /\ keys' = {l \in keys : ~ (l.booking = b /\ l.key = c.key)} \union {k}
      /\ k.booking = b /\ k.key = c.key /\ k.payment = p
      /\ k \in [booking : Trip, key : Visit, method : PaymentMethod,
                payment : PaymentId \union {None}]
  <2>1. keys' = (keys \ {l \in keys : l.booking = b /\ l.key = c.key}) \union {k}
    BY <1>1, <1>2, <1>7 DEF FinishPayment, KeyOf
  <2> QED
    BY <1>3, <1>7, <2>1
<1>9. PICK n : n = [booking |-> b, key |-> c.key, payment |-> p]
  OBVIOUS
<1>10. /\ named' = named \union {n} /\ n.booking = b /\ n.key = c.key /\ n.payment = p
       /\ n \in [booking : Trip, key : Visit, payment : PaymentId]
  BY <1>1, <1>2, <1>3, <1>9 DEF FinishPayment
<1>11. /\ payments' \in [PaymentId -> Attempt \union {None}]
       /\ \A q \in PaymentId : payments[q] # None =>
            payments'[q] # None /\ payments'[q].booking = payments[q].booking
       /\ \A q \in PaymentId \ {p} : payments'[q] = payments[q]
  BY <1>3, <1>6, StatusChanged DEF PagesInv
<1>12. PagesTypeOK'
  BY <1>4, <1>5, <1>8, <1>10, <1>11 DEF PagesInv, PagesTypeOK
<1>13. \A q \in PaymentId : Told(q) => Told(q)' /\ payments'[q].booking = payments[q].booking
  BY <1>4, <1>11 DEF Told
<1>14. Told(p)' /\ payments'[p].booking = b
  BY <1>1, <1>2, <1>3, <1>4, <1>11, OneRequestEach DEF Told
<1>15. PostsOfPages'
  BY <1>4, <1>5 DEF PagesInv, PostsOfPages, ThisPage
<1>16. AnswersOfPages'
  <2>1. \A a \in answers :
          /\ a.kind = "hold" => a.booking \in Trip \union {None}
          /\ a.kind = "create" => a.payment \in PaymentId \union {None}
          /\ a.kind = "create" /\ a.payment # None =>
               Told(a.payment)' /\ ThisPage(a.visit, payments'[a.payment].booking)
    BY <1>13, PagesAssumption DEF PagesInv, AnswersOfPages
  <2>2. \A a : a = [kind |-> "create", visit |-> c.key, payment |-> p] =>
          /\ a.kind = "create" /\ a.payment \in PaymentId
          /\ Told(a.payment)' /\ ThisPage(a.visit, payments'[a.payment].booking)
    BY <1>3, <1>14
  <2> QED
    BY <1>4, <1>5, <2>1, <2>2 DEF AnswersOfPages, ThisPage
<1>17. KeysOfPages'
  <2>1. \A l \in keys : /\ ThisPage(l.key, l.booking) /\ l.payment \in PaymentId \union {None}
                        /\ l.payment # None =>
                             Told(l.payment) /\ payments[l.payment].booking = l.booking
                        /\ \A o \in keys : o.booking = l.booking /\ o.key = l.key => o = l
    BY DEF PagesInv, PagesTypeOK, KeysOfPages
  <2> QED
    BY <1>3, <1>5, <1>8, <1>13, <1>14, <2>1 DEF KeysOfPages, ThisPage
<1>18. PageShowsItsPayment'
  <2>1. view.response \in PaymentId \union {None} /\ flow.paymentId \in PaymentId \union {None}
    BY DEF PagesInv, PagesTypeOK
  <2> QED
    BY <1>5, <1>13, <2>1 DEF PagesInv, PageShowsItsPayment
<1>19. AttemptsUnderWay'
  <2>1. \A d \in creating' : /\ d \in creating /\ d.payment \in PaymentId \ {p}
                             /\ payments[d.payment].booking # b
    BY <1>1, <1>2, <1>4, OneRequestEach DEF PagesInv, PagesTypeOK, AttemptsUnderWay
  <2>2. \A d \in creating' : payments'[d.payment] = payments[d.payment]
    BY <1>11, <2>1
  <2>3. \A d \in creating' : \A l \in keys' :
          l.booking = payments'[d.payment].booking /\ l.key = d.key => l.payment = None
    BY <1>8, <2>1, <2>2 DEF PagesInv, AttemptsUnderWay
  <2> QED
    BY <1>5, <2>1, <2>2, <2>3 DEF PagesInv, AttemptsUnderWay, ThisPage
<1>20. KeysKeepAnswers'
  <2>1. \A o \in named : ~ (o.booking = b /\ o.key = c.key)
    BY <1>3, NobodyToldYet
  <2> QED
    BY <1>8, <1>10, <2>1 DEF PagesInv, KeysKeepAnswers
<1>21. SlipsKept'
  <2>1. \A s \in slips : s.payment \in PaymentId
    BY DEF PagesInv, PagesTypeOK
  <2> QED
    BY <1>4, <1>11, <2>1 DEF PagesInv, SlipsKept
<1> QED
  BY <1>12, <1>15, <1>16, <1>17, <1>18, <1>19, <1>20, <1>21 DEF PagesInv

LEMMA PagesStart == PagesInit => PagesInv
<1> SUFFICES ASSUME PagesInit PROVE PagesInv
  OBVIOUS
<1>1. 1 \in Visit
  BY PagesAssumption DEF Visit
<1>2. PagesTypeOK
  BY <1>1 DEF PagesInit, PagesTypeOK, Opened, PaymentMethod
<1>3. PageShowsItsPayment
  BY DEF PagesInit, PageShowsItsPayment, Opened
<1> QED
  BY <1>2, <1>3
     DEF PagesInit, PagesInv, PostsOfPages, AnswersOfPages, KeysOfPages, AttemptsUnderWay,
         KeysKeepAnswers, SlipsKept

LEMMA PagesUnchanged == PagesInv /\ UNCHANGED passengerVars => PagesInv'
<1> SUFFICES ASSUME PagesInv, UNCHANGED passengerVars PROVE PagesInv'
  OBVIOUS
<1>1. /\ UNCHANGED <<view, flow, payments, keys, creating, named, slips>>
      /\ UNCHANGED <<tabVars, taken, trips, posts, answers>>
  BY DEF passengerVars, tabVars, recordVars
<1>2. PagesTypeOK'
  BY <1>1, TablesTyped DEF PagesInv, PagesTypeOK
<1>3. PostsOfPages' /\ AnswersOfPages'
  BY <1>1, PageUnmoved
<1> QED
  BY <1>1, <1>2, <1>3, MessagesMove

LEMMA PagesStep == PagesInv /\ [PagesNext]_passengerVars => PagesInv'
<1> SUFFICES ASSUME PagesInv, [PagesNext]_passengerVars PROVE PagesInv'
  OBVIOUS
<1>1. CASE OpenSeats \/ RefreshMap \/ ChooseSeats \/ ReturnToDraft \/ OpenTicket
  BY <1>1, PageSteps
<1>2. CASE SubmitHold \/ StartPayment
  BY <1>2, MessageSteps
<1>3. CASE UploadSlip
  BY <1>3, SlipUploaded
<1>4. ASSUME NEW s \in SeatChoice, ToggleSeat(s) \/ OthersHold(s) PROVE PagesInv'
  BY <1>4, PageSteps, MessageSteps
<1>5. ASSUME NEW b \in Trip, ReturnToPayment(b) \/ ExpireTrip(b) PROVE PagesInv'
  BY <1>5, PageSteps, MessageSteps
<1>6. ASSUME NEW method \in PaymentMethod, PickMethod(method) PROVE PagesInv'
  BY <1>6, PageSteps
<1>7. ASSUME NEW m \in posts,
             ServeHold(m) \/ ReplayAnswer(m) \/ CreatePayment(m) \/ RefusePayment(m)
      PROVE  PagesInv'
  BY <1>7, HoldServed, AnswerReplayed, PaymentCreated, MessageSteps
<1>8. ASSUME NEW a \in answers, HoldAnswered(a) \/ PaymentAnswered(a) PROVE PagesInv'
  BY <1>8, PageSteps, PaymentTold
<1>9. ASSUME NEW m \in posts \union answers, LoseMessage(m) PROVE PagesInv'
  BY <1>9, MessageSteps
<1>10. ASSUME NEW c \in creating,
              GiveUp(c) \/ FinishPayment(c) \/ FailPayment(c) \/ ForgetRequest(c)
       PROVE  PagesInv'
  BY <1>10, RequestEnds, PaymentFinished
<1>11. ASSUME NEW p \in PaymentId, PayAttempt(p) PROVE PagesInv'
  BY <1>11, AttemptPaid
<1>12. CASE UNCHANGED passengerVars
  BY <1>12, PagesUnchanged
<1> QED
  BY <1>1, <1>2, <1>3, <1>4, <1>5, <1>6, <1>7, <1>8, <1>9, <1>10, <1>11, <1>12 DEF PagesNext

\* Whatever pages the passenger opens, leaves and comes back to while answers are under
\* way, a slip is stored with a payment of the booking whose page it was chosen on,
\* unless an answer to an earlier page came in (PaymentPageView.tsx:59).
THEOREM SlipsReachTheirBooking == PagesSpec => []SlipsStayWithTheirBooking
<1>1. PagesInv => SlipsStayWithTheirBooking
  BY DEF PagesInv, SlipsKept, SlipsStayWithTheirBooking
<1> QED
  BY <1>1, PagesStart, PagesStep, PTL DEF PagesSpec

\* However often a request is sent with its key, and wherever the server stops on the
\* way, the key names one payment (payment.service.js:116 and idempotency.service.js:17).
THEOREM KeysNameOnePayment == PagesSpec => []AnswersRepeat
<1>1. PagesInv => AnswersRepeat
  <2> SUFFICES ASSUME PagesInv, NEW n \in named, NEW m \in named,
                      n.booking = m.booking, n.key = m.key
               PROVE  n.payment = m.payment
    BY DEF AnswersRepeat
  <2> QED
    BY DEF PagesInv, KeysKeepAnswers
<1> QED
  BY <1>1, PagesStart, PagesStep, PTL DEF PagesSpec
===============================================================================
