------------------------------ MODULE Dispatcher ------------------------------
(***************************************************************************)
(* Disruptions of booked trips: HandleDispatchEvent, RescheduleBooking and *)
(* RefundBooking of internal/services/dispatcher/dispatcher_service.go,    *)
(* with the repositories they use (dispatcher_repo.go, travel_repo.go).    *)
(*                                                                         *)
(* An operator's event marks the confirmed bookings of a vehicle and opens *)
(* one disruption record for each; the passenger then answers with a       *)
(* reschedule or a refund.  No statement runs inside a transaction, so     *)
(* events and passengers interleave at every one of them.                  *)
(***************************************************************************)
EXTENDS Integers

CONSTANTS Bookings,     \* travel_bookings rows, those that a reschedule may add included
          Sold,         \* the bookings that BookBus stored
          Price,        \* price_paid, in kobo
          Vehicle,      \* vehicle (with route and departure window) of each booking
          Events,       \* disruption reports of operators
          EventVehicle, \* the vehicle an event is about
          Requests,     \* passengers' POST .../refund and .../reschedule
          BookingOf,    \* the booking a request names
          Replacement,  \* the booking a reschedule request creates; "none" for a refund
          Environments  \* whether handlers may overlap, and which faults may happen:
                        \* {} or {"db"}

ASSUME DispatcherAssumption ==
  /\ Sold \subseteq Bookings
  /\ Price \in [Bookings -> Nat \ {0}]
  /\ DOMAIN Vehicle = Bookings
  /\ DOMAIN EventVehicle = Events
  /\ BookingOf \in [Requests -> Bookings]
  /\ Replacement \in [Requests -> (Bookings \ Sold) \cup {"none"}]
  /\ \A q \in Requests : Replacement[q] \in Bookings => Price[Replacement[q]] = Price[BookingOf[q]]
  /\ \A p, q \in Requests : Replacement[p] = Replacement[q] /\ Replacement[p] # "none" => p = q
  /\ Events \cap Requests = {} /\ "none" \notin Events \cup Bookings
  /\ Environments \subseteq [overlap: BOOLEAN, faults: SUBSET {"db"}]

VARIABLES env,         \* the environment of this behaviour
          status,      \* of each booking; "absent" when it is not stored
          disruption,  \* resolution of each event's record for each booking
          todo,        \* bookings an event still has to handle
          found,       \* the disruption a request read: an event, or "none"
          pc,          \* the next statement of each event and request
          refunded     \* kobo credited to the passenger for each booking

vars == <<env, status, disruption, todo, found, pc, refunded>>

Actors == Events \cup Requests

TypeOK ==
  /\ env \in Environments
  /\ status \in [Bookings -> {"absent", "confirmed", "rescheduled", "cancelled"}]
  /\ disruption \in [Events -> [Bookings -> {"none", "pending", "rescheduled", "refunded"}]]
  /\ todo \in [Events -> SUBSET Bookings]
  /\ found \in [Requests -> Events \cup {"none"}]
  /\ pc \in [Actors -> {"start", "mark", "loop", "disruption", "credit", "insert", "create",
                        "cancel", "resolve", "done"}]
  /\ refunded \in [Bookings -> Nat]

Init ==
  /\ env \in Environments
  /\ status = [b \in Bookings |-> IF b \in Sold THEN "confirmed" ELSE "absent"]
  /\ disruption = [e \in Events |-> [b \in Bookings |-> "none"]]
  /\ todo = [e \in Events |-> {}]
  /\ found = [q \in Requests |-> "none"]
  /\ pc = [a \in Actors |-> "start"]
  /\ refunded = [b \in Bookings |-> 0]

-------------------------------------------------------------------------------
Failing == "db" \in env.faults

Goto(a, label) == pc' = [pc EXCEPT ![a] = label]

\* Without overlap a handler starts only when no other one is running.
MayStart(a) == env.overlap \/ \A o \in Actors \ {a} : pc[o] \in {"start", "done"}

\* UPDATE travel_bookings SET status = ...
UpdateStatus(b, s) == status' = [status EXCEPT ![b] = s]

-------------------------------------------------------------------------------
(* HandleDispatchEvent, after the operator's key has been verified.           *)

\* CreateEvent and FindAffectedBookings.
FindAffectedBookings(e) ==
  /\ pc[e] = "start" /\ MayStart(e)
  /\ \/ /\ todo' = [todo EXCEPT ![e] =
             {b \in Bookings : Vehicle[b] = EventVehicle[e] /\ status[b] = "confirmed"}]
        /\ Goto(e, "loop")
     \/ Failing /\ Goto(e, "done") /\ UNCHANGED todo
  /\ UNCHANGED <<env, status, disruption, found, refunded>>

\* One turn of the loop up to CreateDisruption; an error skips the booking.
CreateDisruption(e, b) ==
  /\ pc[e] = "loop" /\ b \in todo[e]
  /\ \/ disruption' = [disruption EXCEPT ![e][b] = "pending"] /\ Goto(e, "mark") /\ UNCHANGED todo
     \/ /\ Failing
        /\ todo' = [todo EXCEPT ![e] = @ \ {b}]
        /\ UNCHANGED <<disruption, pc>>
  /\ UNCHANGED <<env, status, found, refunded>>

\* The booking whose record was just created.
Current(e) == {b \in todo[e] : disruption[e][b] # "none"}

\* Mutant: the disrupted booking is left confirmed.
Bug_MarkBooking(e, b) ==
  /\ pc[e] = "mark" /\ b \in Current(e)
  /\ todo' = [todo EXCEPT ![e] = @ \ {b}]
  /\ Goto(e, "loop")
  /\ UNCHANGED <<env, status, disruption, found, refunded>>

\* UpdateStatus to "rescheduled", whose error is dropped, and the SMS.
MarkBooking(e, b) ==
  /\ pc[e] = "mark" /\ b \in Current(e)
  /\ \/ UpdateStatus(b, "rescheduled")
     \/ Failing /\ UNCHANGED status
  /\ todo' = [todo EXCEPT ![e] = @ \ {b}]
  /\ Goto(e, "loop")
  /\ UNCHANGED <<env, disruption, found, refunded>>

MarkNotified(e) ==
  /\ pc[e] = "loop" /\ todo[e] = {}
  /\ Goto(e, "done")
  /\ UNCHANGED <<env, status, disruption, todo, found, refunded>>

-------------------------------------------------------------------------------
(* RescheduleBooking and RefundBooking; they share their first two reads.     *)

IsRefund(q) == Replacement[q] = "none"

\* Mutant: the status of the booking is not looked at.
Bug_FindBooking(q) ==
  /\ pc[q] = "start" /\ MayStart(q)
  /\ Goto(q, IF IsRefund(q) THEN "credit" ELSE "create")
  /\ UNCHANGED <<env, status, disruption, todo, found, refunded>>

\* FindByID, the owner and the status.
FindBooking(q) ==
  /\ pc[q] = "start" /\ MayStart(q)
  /\ \/ status[BookingOf[q]] = "rescheduled" /\ Goto(q, "disruption")
     \/ (status[BookingOf[q]] # "rescheduled" \/ Failing) /\ Goto(q, "done")
  /\ UNCHANGED <<env, status, disruption, todo, found, refunded>>

\* FindDisruptionByBooking: some pending record (the latest, if there are two).
FindDisruption(q) ==
  /\ pc[q] = "disruption"
  /\ \/ \E e \in Events :
          /\ disruption[e][BookingOf[q]] = "pending"
          /\ found' = [found EXCEPT ![q] = e]
          /\ Goto(q, IF IsRefund(q) THEN "credit" ELSE "create")
     \/ /\ Failing \/ (\A e \in Events : disruption[e][BookingOf[q]] # "pending")
        /\ Goto(q, "done") /\ UNCHANGED found
  /\ UNCHANGED <<env, status, disruption, todo, refunded>>

\* Mutant: an error of CreditBalance is dropped, like those of the later statements.
Bug_CreditRefund(q) ==
  /\ pc[q] = "credit"
  /\ \/ refunded' = [refunded EXCEPT ![BookingOf[q]] = @ + Price[BookingOf[q]]]
     \/ Failing /\ UNCHANGED refunded
  /\ Goto(q, "insert")
  /\ UNCHANGED <<env, status, disruption, todo, found>>

\* FindByUserID and CreditBalance; a lost acknowledgement ends the request.
CreditRefund(q) ==
  /\ pc[q] = "credit"
  /\ \/ /\ refunded' = [refunded EXCEPT ![BookingOf[q]] = @ + Price[BookingOf[q]]]
        /\ (Goto(q, "insert") \/ (Failing /\ Goto(q, "done")))
     \/ Failing /\ Goto(q, "done") /\ UNCHANGED refunded
  /\ UNCHANGED <<env, status, disruption, todo, found>>

\* InsertTransaction of the refund row: on an error the credit stays.
InsertRefund(q) ==
  /\ pc[q] = "insert"
  /\ (Goto(q, "cancel") \/ (Failing /\ Goto(q, "done")))
  /\ UNCHANGED <<env, status, disruption, todo, found, refunded>>

\* The replacement is free of charge and confirmed at once.
CreateReplacement(q) ==
  /\ pc[q] = "create"
  /\ \/ /\ UpdateStatus(Replacement[q], "confirmed")
        /\ (Goto(q, "cancel") \/ (Failing /\ Goto(q, "done")))
     \/ Failing /\ Goto(q, "done") /\ UNCHANGED status
  /\ UNCHANGED <<env, disruption, todo, found, refunded>>

\* UpdateStatus with BookingCancelled = "canceled": the booking_status enum only
\* knows "cancelled", so the statement always fails; the error is dropped.
CancelBooking(q) ==
  /\ pc[q] = "cancel"
  /\ Goto(q, "resolve")
  /\ UNCHANGED <<env, status, disruption, todo, found, refunded>>

\* Mutant: the disruption stays pending.
Bug_ResolveDisruption(q) ==
  /\ pc[q] = "resolve" /\ Goto(q, "done")
  /\ UNCHANGED <<env, status, disruption, todo, found, refunded>>

\* ResolveDisruption by primary key, whatever its resolution is by now; the
\* error is dropped.
ResolveDisruption(q) ==
  /\ pc[q] = "resolve"
  /\ \/ disruption' = [disruption EXCEPT ![found[q]][BookingOf[q]] =
                        IF IsRefund(q) THEN "refunded" ELSE "rescheduled"]
     \/ Failing /\ UNCHANGED disruption
  /\ Goto(q, "done")
  /\ UNCHANGED <<env, status, todo, found, refunded>>

-------------------------------------------------------------------------------
HandleDispatchEvent(e) ==
  \/ FindAffectedBookings(e) \/ MarkNotified(e)
  \/ \E b \in Bookings : CreateDisruption(e, b) \/ MarkBooking(e, b)

HandleRequest(q) ==
  \/ FindBooking(q) \/ FindDisruption(q) \/ CreditRefund(q) \/ InsertRefund(q)
  \/ CreateReplacement(q) \/ CancelBooking(q) \/ ResolveDisruption(q)

Next ==
  \/ \E e \in Events : HandleDispatchEvent(e)
  \/ \E q \in Requests : HandleRequest(q)

Spec == Init /\ [][Next]_vars

\* A handler that started keeps running; events are reported eventually.
FairSpec ==
  /\ Spec
  /\ \A e \in Events : WF_vars(HandleDispatchEvent(e))
  /\ \A q \in Requests : WF_vars(pc[q] # "start" /\ HandleRequest(q))

-------------------------------------------------------------------------------
(* What the code is meant to guarantee.                                       *)

\* The replacements that requests for b can create.
ReplacedBy(b) == {Replacement[q] : q \in {p \in Requests : BookingOf[p] = b}} \cap Bookings

\* A reschedule has given the passenger of b another trip.
Replaced(b) == \E n \in ReplacedBy(b) : status[n] # "absent"

\* Handlers that run one after the other, with nothing failing.
Orderly == ~env.overlap /\ env.faults = {}

\* Handlers that follow each other settle a disruption once: "full refund of price
\* paid" (dispatcher_service.go:299) is at most the price, and a refunded booking has
\* no replacement (the resolution column of passenger_disruptions).
SettledOnce ==
  Orderly =>
    \A b \in Bookings :
      /\ refunded[b] <= Price[b]
      /\ ~(refunded[b] > 0 /\ Replaced(b))

\* However handlers interleave and fail, money goes back only for a booking
\* that some event disrupted, and a replacement exists only for such a booking.
OnlyDisruptedIsSettled ==
  /\ TypeOK
  /\ \A b \in Bookings :
       refunded[b] > 0 \/ Replaced(b) => \E e \in Events : disruption[e][b] # "none"

\* What a disruption record says is what the passenger got, whatever fails: the four
\* writes of RefundBooking and the three of RescheduleBooking share no transaction
\* and drop errors.  And while the database answers, whoever was paid back or
\* rebooked has a settled record (or a request on its way to it), also when requests
\* overlap and when two events opened records for the booking.
SettlementsAreRecorded ==
  /\ \A e \in Events, b \in Bookings :
       /\ disruption[e][b] = "refunded" => refunded[b] > 0
       /\ disruption[e][b] = "rescheduled" => Replaced(b)
  /\ env.faults = {} =>
       \A b \in Bookings : refunded[b] > 0 \/ Replaced(b) =>
         \/ \E e \in Events : disruption[e][b] \in {"refunded", "rescheduled"}
         \/ \E q \in Requests : BookingOf[q] = b /\ pc[q] \in {"insert", "cancel", "resolve"}

\* A confirmed booking on the reported vehicle does not stay confirmed: its
\* passenger can ask for a refund or another trip (HandleDispatchEvent).
DisruptedIsOffered ==
  \A e \in Events, b \in Bookings :
    Orderly /\ pc[e] = "loop" /\ b \in todo[e] ~> status[b] # "confirmed" /\ disruption[e][b] # "none"

===============================================================================
