--------------------------------- MODULE Trains ---------------------------------
(***************************************************************************)
(* Trains, coaches and physical seats: modules/trains, modules/coaches and  *)
(* modules/seats on the tables of migration 005.                            *)
(*                                                                          *)
(* coaches.total_seats is a copy of the number of a coach's seats.  Every   *)
(* transaction that changes seats counts them again and writes the count    *)
(* (#syncCoachCapacity), under READ COMMITTED and with no lock: a count sees *)
(* what others have committed, not the seats another open transaction has   *)
(* written, and is written only where it differs from the coach as it was   *)
(* read at the start.  The statements of such a transaction are steps of    *)
(* their own: it opens, reads its coaches, writes its seats, counts and     *)
(* writes its coaches, commits.                                             *)
(*                                                                          *)
(* A seat is a row id; its number is its place <<row, column>>, which the   *)
(* layout turns into a label.  Trains are the constant Train with their     *)
(* is_active flag; seat types and accessibility are left out.               *)
(***************************************************************************)
EXTENDS Rows, SequencesExt, Naturals

CONSTANTS
  Train, Coach,
  SeatCount,      \* how many seat rows may ever be created
  SeatEditor,     \* the requests that change seats, at most one transaction each
  CoachInputs,    \* bodies of POST .../coaches
  CoachPatches,   \* bodies of PATCH .../coaches/:id: any fields of a coach
  SeatPatches,    \* bodies of PATCH .../seats/:id: a coach or a flag
  Layouts,        \* bodies of .../seats/generate: [rows, columns, totalSeats, replace]
  MaxTrainSteps   \* bound on the requests that change trains

VARIABLES
  activeTrains,   \* trains.is_active
  coaches,        \* the rows of coaches, None where there is none
  seats,          \* the rows of seats, None where there is none
  seatEdit,       \* the open transaction of each seat editor
  miscounted,     \* history: coaches whose total_seats was given by hand, or left so
                  \* by a transaction that another one overtook
  trainSteps

trainVars == <<activeTrains, coaches, seats, seatEdit, miscounted, trainSteps>>

Seat == 1 .. SeatCount
CoachRow ==
  [train : Train, positionNumber : Nat \ {0}, coachClass : STRING, totalSeats : Nat,
   isActive : BOOLEAN]
Place == Nat \X Nat
SeatRow == [coach : Coach, number : Place, isWindow : BOOLEAN, isActive : BOOLEAN]

\* A request that edits seats: a seat as it was read and its patch, or a layout.
SeatRequest == [seat : Seat, read : SeatRow, values : SeatPatches] \union [layout : Layouts]

\* Bodies pass their validators: they give the columns values of their types.
ASSUME TrainAssumption ==
  /\ None \notin Coach \union Train \union CoachRow \union SeatRow \union SeatRequest \union Nat
  /\ SeatCount \in Nat
  /\ MaxTrainSteps \in Nat
  /\ \A layout \in Layouts :
       {layout.rows, layout.columns, layout.totalSeats} \subseteq Nat
  /\ CoachInputs \subseteq CoachRow
  /\ \A values \in CoachPatches :
       /\ "train" \in DOMAIN values => values.train \in Train
       /\ "positionNumber" \in DOMAIN values => values.positionNumber \in Nat \ {0}
       /\ "coachClass" \in DOMAIN values => values.coachClass \in STRING
       /\ "totalSeats" \in DOMAIN values => values.totalSeats \in Nat
       /\ "isActive" \in DOMAIN values => values.isActive \in BOOLEAN
  /\ SeatPatches \subseteq [coach : Coach] \union [isActive : BOOLEAN]

\* A total of each coach, as it was read or will be written, or None.
CoachTotals == [Coach -> Nat \union {None}]

TrainsTypeOK ==
  /\ activeTrains \subseteq Train
  /\ coaches \in [Coach -> CoachRow \union {None}]
  /\ \A s \in Seat : seats[s] = None \/ seats[s] \in SeatRow
  /\ \A e \in SeatEditor :
       \/ seatEdit[e] = None
       \/ /\ seatEdit[e].gone \union seatEdit[e].created \subseteq Seat
          /\ DOMAIN seatEdit[e].rows \subseteq Seat
          /\ seatEdit[e].counted \subseteq {seatEdit[e].source, seatEdit[e].target}
          /\ seatEdit[e].counted \union seatEdit[e].overtaken \subseteq Coach
          /\ {seatEdit[e].readings, seatEdit[e].totals} \subseteq CoachTotals
  /\ miscounted \subseteq Coach
  /\ trainSteps \in 0 .. MaxTrainSteps

CountTrainStep == trainSteps < MaxTrainSteps /\ trainSteps' = trainSteps + 1

SeatsOf(rows, c) == {s \in Seat : rows[s] # None /\ rows[s].coach = c}

-------------------------------------------------------------------------------
\* TrainService.updateTrain with isActive.
SetTrainActive(t, isActive) ==
  /\ CountTrainStep
  /\ (t \in activeTrains) # isActive
  /\ activeTrains' = IF isActive THEN activeTrains \union {t} ELSE activeTrains \ {t}
  /\ UNCHANGED <<coaches, seats, seatEdit, miscounted>>

\* #ensureUniquePlacement and uq_train_coach_position; coaches are their numbers.
PlacementFree(c, row) ==
  \A other \in Coach \ {c} :
    coaches[other] # None =>
      <<coaches[other].train, coaches[other].positionNumber>>
        # <<row.train, row.positionNumber>>

CreateCoach(c, values) ==
  /\ CountTrainStep
  /\ coaches[c] = None
  /\ PlacementFree(c, values)
  /\ coaches' = [coaches EXCEPT ![c] = values]
  /\ miscounted' = IF values.totalSeats > 0 THEN miscounted \union {c} ELSE miscounted
  /\ UNCHANGED <<activeTrains, seats, seatEdit>>

\* The open transactions have read the coaches `changed` before this.
Overtake(open, changed) ==
  [e \in SeatEditor |->
     IF open[e] = None THEN None
     ELSE [open[e] EXCEPT !.overtaken =
             @ \union {c \in Coach \intersect changed : open[e].readings[c] # None}]]

UpdateCoach(c, values) ==
  /\ CountTrainStep
  /\ coaches[c] # None
  /\ LET row == Overwritten(coaches[c], values)
     IN  /\ PlacementFree(c, row)
         /\ coaches' = [coaches EXCEPT ![c] = row]
  /\ IF "totalSeats" \in DOMAIN values
     THEN /\ miscounted' = miscounted \union {c}
          /\ seatEdit' = Overtake(seatEdit, {c})
     ELSE UNCHANGED <<miscounted, seatEdit>>
  /\ UNCHANGED <<activeTrains, seats>>

-------------------------------------------------------------------------------
\* #normalizeLayout and #buildSeats: the first totalSeats places, row by row.  A
\* request names no columns and no aisles, so those of the coach, or a letter for
\* each column and one aisle in the middle, are taken and never refused.
LayoutValid(layout) ==
  /\ layout.rows >= 1
  /\ layout.columns >= 1
  /\ layout.totalSeats \in 1 .. layout.rows * layout.columns

BuildSeats(c, layout) ==
  [i \in 1 .. layout.totalSeats |->
     LET column == ((i - 1) % layout.columns) + 1
     IN  [coach |-> c, number |-> <<((i - 1) \div layout.columns) + 1, column>>,
          isWindow |-> column \in {1, layout.columns}, isActive |-> TRUE]]

\* A transaction that opens, its seats in coach `source` and to be in `target`.
NewSeatEdit(source, target, asked) ==
  [source |-> source, target |-> target,
   asked |-> asked,                           \* the request, None when its seats are written
   readings |-> [c \in Coach |-> None],       \* total_seats of the coaches it has read
   gone |-> {}, created |-> {}, rows |-> NoRows,  \* the seats it has written
   counted |-> {},                            \* the coaches it has counted
   totals |-> [c \in Coach |-> None],         \* the totals it has written
   overtaken |-> {}]                          \* history: changed since it read or counted them

OpenEdits == {seatEdit[e] : e \in {x \in SeatEditor : seatEdit[x] # None}}

\* The rows that open transactions have written or deleted: a statement on one
\* of them waits for the commit.
LockedSeats == UNION {p.gone \union DOMAIN p.rows : p \in OpenEdits}

\* The seats when a transaction that deletes p.gone and writes p.rows is done; a
\* row that is gone is not updated.
SeatsAfter(p) ==
  [s \in Seat |->
     IF s \in p.gone THEN None
     ELSE IF s \in p.created THEN p.rows[s]
     ELSE IF s \in DOMAIN p.rows /\ seats[s] # None THEN Overwritten(seats[s], p.rows[s])
     ELSE seats[s]]

\* coach.update({ totalSeats }) writes a total that differs from the coach as it
\* was read; what is written now is not outdated by what was committed before.
Synced(p, c, total) ==
  IF total # p.readings[c]
  THEN [p EXCEPT !.counted = @ \union {c}, !.totals[c] = total, !.overtaken = @ \ {c}]
  ELSE [p EXCEPT !.counted = @ \union {c}]

\* A mistake: a total is lowered by the seats that leave, never raised.
LoweredOnly(p, c) ==
  LET total == Cardinality(SeatsOf(SeatsAfter(p), c))
  IN  Synced(p, c, IF total < p.readings[c] THEN total ELSE p.readings[c])

\* #syncCoachCapacity: counts what is committed and its own writes.
Counted(p, c) == Synced(p, c, Cardinality(SeatsOf(SeatsAfter(p), c)))

\* SeatService.updateSeat reads the seat.
OpenUpdate(e, s, values) ==
  /\ CountTrainStep
  /\ seatEdit[e] = None
  /\ seats[s] # None
  /\ seatEdit' = [seatEdit EXCEPT ![e] =
       NewSeatEdit(seats[s].coach, Overwritten(seats[s], values).coach,
                   [seat |-> s, read |-> seats[s], values |-> values])]
  /\ UNCHANGED <<activeTrains, coaches, seats, miscounted>>

\* It takes its coaches one after the other, the source first.
NextCoach(p, done) == IF p.source \in done THEN p.target ELSE p.source

CoachesRead(p) == {c \in Coach : p.readings[c] # None}

ReadCoach(e, c) ==
  /\ seatEdit[e] # None
  /\ c \notin CoachesRead(seatEdit[e])
  /\ c = NextCoach(seatEdit[e], CoachesRead(seatEdit[e]))
  /\ coaches[c] # None
  /\ seatEdit' = [seatEdit EXCEPT ![e].readings[c] = coaches[c].totalSeats]
  /\ UNCHANGED <<activeTrains, coaches, seats, miscounted, trainSteps>>

\* #ensureNumberAvailable and seat.update, which writes a field that differs from
\* the seat as it was read.  Another transaction may have moved the seat since:
\* the coach it then leaves is not counted.
WriteSeat(e) ==
  /\ seatEdit[e] # None
  /\ seatEdit[e].asked # None
  /\ "seat" \in DOMAIN seatEdit[e].asked
  /\ {seatEdit[e].source, seatEdit[e].target} \subseteq CoachesRead(seatEdit[e])
  /\ LET p == seatEdit[e]
         s == p.asked.seat
         values == p.asked.values
         written == IF Overwritten(p.asked.read, values) = p.asked.read \/ seats[s] = None
                    THEN {} ELSE {s}
         left == {seats[t].coach : t \in {u \in written : "coach" \in DOMAIN values}}
     IN  /\ \A t \in SeatsOf(seats, p.target) \ {s} : seats[t].number # p.asked.read.number
         /\ written \intersect LockedSeats = {}
         /\ seatEdit' = [seatEdit EXCEPT ![e] =
              [p EXCEPT !.asked = None, !.rows = [t \in written |-> values],
                        !.overtaken = @ \union (left \ {p.source, p.target})]]
  /\ UNCHANGED <<activeTrains, coaches, seats, miscounted, trainSteps>>

CountCoach(e, c) ==
  /\ seatEdit[e] # None
  /\ seatEdit[e].asked = None
  /\ c \notin seatEdit[e].counted
  /\ c = NextCoach(seatEdit[e], seatEdit[e].counted)
  /\ seatEdit' = [seatEdit EXCEPT ![e] = Counted(seatEdit[e], c)]
  /\ UNCHANGED <<activeTrains, coaches, seats, miscounted, trainSteps>>

\* CoachService.generateSeats reads the coach.
OpenGeneration(e, c, layout) ==
  /\ CountTrainStep
  /\ seatEdit[e] = None
  /\ coaches[c] # None
  /\ seatEdit' = [seatEdit EXCEPT ![e] =
       [NewSeatEdit(c, c, [layout |-> layout]) EXCEPT !.readings[c] = coaches[c].totalSeats]]
  /\ UNCHANGED <<activeTrains, coaches, seats, miscounted>>

\* Its other statements, together: what another transaction commits after the
\* coach's seats are deleted and before the new ones and their number are
\* written might as well be committed after them, when it has overtaken this one.
GenerateSeats(e) ==
  /\ seatEdit[e] # None
  /\ seatEdit[e].asked # None
  /\ "layout" \in DOMAIN seatEdit[e].asked
  /\ LET p == seatEdit[e]
         layout == p.asked.layout
         existing == SeatsOf(seats, p.source)
         asked == {q.asked.seat : q \in {x \in OpenEdits :
                                           x.asked # None /\ "seat" \in DOMAIN x.asked}}
         fresh == {s \in Seat : seats[s] = None} \ (LockedSeats \union asked)
         Rank(s) == Cardinality({t \in fresh : t <= s})
         created == {s \in fresh : Rank(s) <= layout.totalSeats}
         built == BuildSeats(p.source, layout)
     IN  /\ existing # {} => layout.replace
         /\ LayoutValid(layout)
         /\ existing \intersect LockedSeats = {}
         /\ Cardinality(created) = layout.totalSeats
         /\ seatEdit' = [seatEdit EXCEPT ![e] = Synced(
              [p EXCEPT !.asked = None, !.gone = existing, !.created = created,
                        !.rows = [s \in created |-> built[Rank(s)]]],
              p.source, layout.totalSeats)]
  /\ UNCHANGED <<activeTrains, coaches, seats, miscounted, trainSteps>>

\* A number that is taken (uq_coach_seat_number), a seat that a journey refers to
\* or a deadlock rolls the transaction back.
CommitSeats(e, onJourneys) ==
  /\ seatEdit[e] # None
  /\ seatEdit[e].asked = None
  /\ seatEdit[e].counted = {seatEdit[e].source, seatEdit[e].target}
  /\ LET p == seatEdit[e]
         after == SeatsAfter(p)
         changed == {c \in Coach : p.totals[c] # None \/ SeatsOf(after, c) # SeatsOf(seats, c)}
     IN  /\ p.gone \intersect onJourneys = {}
         /\ \A c \in Coach : \A s, t \in SeatsOf(after, c) :
              s # t => after[s].number # after[t].number
         /\ seats' = after
         /\ coaches' = [c \in Coach |->
              IF p.totals[c] # None
              THEN [coaches[c] EXCEPT !.totalSeats = p.totals[c]] ELSE coaches[c]]
         /\ miscounted' = (miscounted \ p.counted) \union p.overtaken
         /\ seatEdit' = Overtake([seatEdit EXCEPT ![e] = None], changed)
  /\ UNCHANGED <<activeTrains, trainSteps>>

RollbackSeats(e) ==
  /\ seatEdit[e] # None
  /\ seatEdit' = [seatEdit EXCEPT ![e] = None]
  /\ UNCHANGED <<activeTrains, coaches, seats, miscounted, trainSteps>>

-------------------------------------------------------------------------------
TrainsInit ==
  /\ activeTrains = Train
  /\ coaches = [c \in Coach |-> None]
  /\ seats = [s \in Seat |-> None]
  /\ seatEdit = [e \in SeatEditor |-> None]
  /\ miscounted = {}
  /\ trainSteps = 0

\* onJourneys: the seats that rows of journey_seats refer to.
TrainsNext(onJourneys) ==
  \/ \E t \in Train, isActive \in BOOLEAN : SetTrainActive(t, isActive)
  \/ \E c \in Coach :
       \/ \E values \in CoachInputs : CreateCoach(c, values)
       \/ \E values \in CoachPatches : UpdateCoach(c, values)
  \/ \E e \in SeatEditor :
       \/ \E c \in Coach :
            \/ \E layout \in Layouts : OpenGeneration(e, c, layout)
            \/ ReadCoach(e, c)
            \/ CountCoach(e, c)
       \/ \E s \in Seat, values \in SeatPatches : OpenUpdate(e, s, values)
       \/ WriteSeat(e)
       \/ GenerateSeats(e)
       \/ CommitSeats(e, onJourneys)
       \/ RollbackSeats(e)

-------------------------------------------------------------------------------
\* calculateCapacity: the seats that the coaches of a train declare and have.
CalculateCapacity(t, includeInactive) ==
  LET counted == {c \in Coach : coaches[c] # None /\ coaches[c].train = t
                                  /\ (includeInactive \/ coaches[c].isActive)}
      configured(c) ==
        {s \in SeatsOf(seats, c) : includeInactive \/ seats[s].isActive}
      difference == [c \in counted |-> coaches[c].totalSeats - Cardinality(configured(c))]
      declared == MapThenSumSet(LAMBDA c : coaches[c].totalSeats, counted)
      seatCount == MapThenSumSet(LAMBDA c : Cardinality(configured(c)), counted)
  IN  [declaredCapacity |-> declared, configuredSeatCount |-> seatCount,
       capacityDifference |-> difference, isConfigurationConsistent |-> declared = seatCount]

\* Every coach declares the seats it has, except one whose total_seats was given
\* by hand, or whose seats or total another transaction changed between what the
\* last one to count it read or counted and its commit; a later transaction that
\* nothing overtakes puts it right again.
CapacityCountsSeats ==
  \A t \in Train :
    LET capacity == CalculateCapacity(t, TRUE)
    IN  \A c \in DOMAIN capacity.capacityDifference \ miscounted :
          capacity.capacityDifference[c] = 0
===============================================================================
