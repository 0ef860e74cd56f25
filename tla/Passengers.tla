------------------------------- MODULE Passengers -------------------------------
(***************************************************************************)
(* Who travels: the passenger form of BookingPageView, and what the server  *)
(* makes of a guest's (booking-passenger.service.js, passenger-identity     *)
(* .service.js, booking.validator.js).  A field that is not shown any more  *)
(* keeps its value, so a form carries what was entered for another identity *)
(* type, and a guardian may change after it was chosen.                     *)
(***************************************************************************)
EXTENDS Rows, Naturals

CONSTANTS
  PartySize,  \* passengers of the booking, numbered from 1
  RawNumber,  \* identity numbers as they are typed
  NormalOf,   \* raw number -> what normalize makes of it
  NicNumber   \* normalized numbers that are those of a NIC

VARIABLES
  form,    \* passenger -> what the page has of it
  guests   \* rows of booking_passengers, or None before they are stored

partyVars == <<form, guests>>

Passenger == 1 .. PartySize
IdentityTypes == {"NIC", "PASSPORT", "DEPENDENT"}

ASSUME PartyAssumption ==
  /\ PartySize \in Nat \ {0}
  /\ None \notin Passenger \union {0}
  /\ NoValue \notin RawNumber
  /\ NoValue \notin IdentityTypes \X {NormalOf[n] : n \in RawNumber}

\* guardianPassengerNumber is None until it was shown, and 0 (NaN) when it was
\* shown and nothing is chosen.
Entry ==
  [identityType : IdentityTypes, identityNumber : RawNumber \union {NoValue},
   guardian : Passenger \union {None, 0}, born : {"ADULT", "MINOR"}]

\* The HMAC of type and normalized number.
Hashes == (IdentityTypes \X {NormalOf[n] : n \in RawNumber}) \union {NoValue}

PassengersTypeOK ==
  /\ form \in [Passenger -> Entry]
  /\ guests = None \/ guests \in [Passenger -> [identityType : IdentityTypes, hash : Hashes,
                                                guardian : Passenger \union {None}]]

\* The form before anything but dates of birth was entered.
PassengersInit ==
  /\ form \in [Passenger -> {e \in Entry : /\ e.identityType = "NIC" /\ e.guardian = None
                                           /\ e.identityNumber = NoValue}]
  /\ guests = None

-------------------------------------------------------------------------------
(* The page                                                                  *)

\* Choosing DEPENDENT shows the guardian, choosing another type hides it.
PickIdentityType(i, type) ==
  /\ form' = [form EXCEPT ![i].identityType = type,
                          ![i].guardian = IF type = "DEPENDENT" /\ @ = None THEN 0 ELSE @]
  /\ UNCHANGED guests

TypeNumber(i, number) ==
  /\ form[i].identityType # "DEPENDENT"
  /\ form' = [form EXCEPT ![i].identityNumber = number]
  /\ UNCHANGED guests

\* The passengers that the list of guardians offers at this time.
PickGuardian(i, g) ==
  /\ form[i].identityType = "DEPENDENT"
  /\ g # i /\ form[g].identityType # "DEPENDENT"
  /\ form' = [form EXCEPT ![i].guardian = g]
  /\ UNCHANGED guests

\* bookingSchema
FormComplete ==
  \A i \in Passenger :
    LET e == form[i]
    IN  /\ e.guardian # 0
        /\ e.identityType # "DEPENDENT" => e.identityNumber # NoValue
        /\ e.identityType = "DEPENDENT" => e.guardian # None

-------------------------------------------------------------------------------
(* The server                                                                *)

\* prepare: a dependent has no number, a NIC has the form of one.
Prepared(e) ==
  IF e.identityType = "DEPENDENT" THEN e.identityNumber = NoValue
  ELSE e.identityType = "NIC" => NormalOf[e.identityNumber] \in NicNumber

HashOf(e) ==
  IF e.identityType = "DEPENDENT" THEN NoValue
  ELSE <<e.identityType, NormalOf[e.identityNumber]>>

\* A mistake: the guardian is taken for what it was when it was chosen.
GuardianAsChosen(i) == form[form[i].guardian].born = "ADULT" /\ form[i].guardian # i

GuardianValid(i) ==
  LET g == form[i].guardian
  IN  g # i /\ form[g].identityType # "DEPENDENT" /\ form[g].born = "ADULT"

\* #validateIdentities
IdentitiesValid ==
  /\ form[1].identityType # "DEPENDENT"
  /\ \A i \in Passenger :
       /\ Prepared(form[i])
       /\ \A j \in Passenger \ {i} : HashOf(form[i]) # NoValue => HashOf(form[i]) # HashOf(form[j])
       /\ IF form[i].identityType = "DEPENDENT" THEN GuardianValid(i)
          ELSE form[i].identityType = "NIC" => form[i].born = "ADULT"

\* bulkCreatePassengers: a row for each, then the rows of guardians are linked,
\* of a dependent or of who has been one in the form.
StorePassengers ==
  /\ guests = None /\ FormComplete /\ IdentitiesValid
  /\ guests' = [i \in Passenger |-> [identityType |-> form[i].identityType,
                                     hash |-> HashOf(form[i]), guardian |-> form[i].guardian]]
  /\ UNCHANGED form

PassengersNext ==
  \/ /\ guests = None
     /\ \E i \in Passenger :
          \/ \E type \in IdentityTypes : PickIdentityType(i, type)
          \/ \E number \in RawNumber \union {NoValue} : TypeNumber(i, number)
          \/ \E g \in Passenger : PickGuardian(i, g)
  \/ StorePassengers

PassengersSpec == PassengersInit /\ [][PassengersNext]_partyVars

-------------------------------------------------------------------------------
\* Whoever of a guest's party travels without an identity of his own is in the
\* care of an identified adult of the same party, the first passenger is
\* identified and nobody twice, in whatever order types, numbers and guardians
\* were entered and changed before (booking-passenger.service.js:305).
GuestPartiesIdentified ==
  guests # None =>
    /\ guests[1].hash # NoValue
    /\ \A i \in Passenger : guests[i].hash = NoValue =>
         /\ guests[i].guardian \in Passenger \ {i}
         /\ guests[guests[i].guardian].hash # NoValue
         /\ form[guests[i].guardian].born = "ADULT"
    /\ \A i, j \in Passenger : i # j /\ guests[i].hash = guests[j].hash => guests[i].hash = NoValue
===============================================================================
