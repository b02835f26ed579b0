--------------------------- MODULE DispatcherProofs ---------------------------
(***************************************************************************)
(* Proofs about Dispatcher: who gets money back or another trip, for any   *)
(* number of bookings, events and requests and in every environment.       *)
(***************************************************************************)
EXTENDS Dispatcher, TLAPS

EventLabels == {"start", "loop", "mark", "done"}
RequestLabels == {"start", "disruption", "credit", "insert", "create", "cancel", "resolve", "done"}

\* Every actor stays inside its own handler; only a refund pays and only a
\* reschedule creates a booking.
Places ==
  /\ \A e \in Events : pc[e] \in EventLabels
  /\ \A q \in Requests : pc[q] \in RequestLabels
  /\ \A q \in Requests : pc[q] \in {"credit", "insert"} => IsRefund(q)
  /\ \A q \in Requests : pc[q] = "create" => ~IsRefund(q)

Disrupted(b) == \E e \in Events : disruption[e][b] # "none"

\* An event opens a record only for stored bookings of its vehicle, once for each:
\* what the loop still has to do has no record, save the booking it is at.
EventsKeepOrder ==
  /\ \A e \in Events : \A b \in todo[e] : Vehicle[b] = EventVehicle[e] /\ status[b] # "absent"
  /\ \A e \in Events, b \in Bookings :
       disruption[e][b] # "none" => Vehicle[b] = EventVehicle[e] /\ status[b] # "absent"
  /\ \A e \in Events : pc[e] = "start" => todo[e] = {} /\ \A b \in Bookings : disruption[e][b] = "none"
  /\ \A e \in Events : pc[e] = "loop" => \A b \in todo[e] : disruption[e][b] = "none"
  /\ \A e \in Events : pc[e] = "mark" => \A b, c \in Current(e) : b = c

\* A request that is past FindDisruption has read the record of its booking, and
\* its replacement does not exist before CreateReplacement.
RequestsHaveRecord ==
  /\ \A q \in Requests :
       pc[q] \in {"credit", "insert", "create", "cancel", "resolve"} =>
         found[q] \in Events /\ disruption[found[q]][BookingOf[q]] # "none"
  /\ \A q \in Requests :
       pc[q] \in {"start", "disruption", "create"} /\ ~IsRefund(q) => status[Replacement[q]] = "absent"

\* The second part of OnlyDisruptedIsSettled.
SettledIsDisrupted ==
  /\ \A b \in Bookings : refunded[b] > 0 => Disrupted(b)
  /\ \A q \in Requests :
       ~IsRefund(q) /\ status[Replacement[q]] # "absent" => Disrupted(BookingOf[q])

\* Nobody has settled the disruption of b yet.
Untouched(b) == refunded[b] = 0 /\ \A n \in ReplacedBy(b) : status[n] = "absent"

\* Every record of b, if there is one, is open.
Open(b) == \A e \in Events : disruption[e][b] \in {"none", "pending"}

\* At most one handler is running.
Alone ==
  \A a, o \in Actors : pc[a] \notin {"start", "done"} /\ pc[o] \notin {"start", "done"} => a = o

\* Handlers in turn, nothing failing: a confirmed booking has no record, a booking
\* has at most one, and as long as it is open nothing was paid or replaced, save by
\* the request that is about to resolve it.
Sequential ==
  Orderly =>
    /\ Alone
    /\ \A e \in Events : pc[e] \in {"loop", "mark"} => \A b \in todo[e] : status[b] = "confirmed"
    /\ \A e \in Events, b \in Bookings :
         status[b] = "confirmed" /\ disruption[e][b] # "none" => pc[e] = "mark" /\ b \in todo[e]
    /\ \A d, e \in Events, b \in Bookings :
         disruption[d][b] # "none" /\ disruption[e][b] # "none" => d = e
    /\ \A b \in Bookings : Open(b) =>
         \/ Untouched(b)
         \/ \E q \in Requests : BookingOf[q] = b /\ pc[q] \in {"insert", "cancel", "resolve"}
    /\ \A q \in Requests : pc[q] \in {"credit", "create"} => Untouched(BookingOf[q])

DispatcherInv ==
  /\ TypeOK /\ Places /\ EventsKeepOrder /\ RequestsHaveRecord /\ SettledIsDisrupted
  /\ Sequential /\ SettledOnce

-------------------------------------------------------------------------------
Labels == {"start", "mark", "loop", "disruption", "credit", "insert", "create", "cancel", "resolve",
           "done"}

\* A step that moves a running handler, or starts one alone, leaves one running.
LEMMA AloneStep ==
  ASSUME pc \in [Actors -> Labels], Alone, NEW a \in Actors, NEW label \in Labels,
         pc' = [pc EXCEPT ![a] = label],
         pc[a] \notin {"start", "done"} \/ \A o \in Actors \ {a} : pc[o] \in {"start", "done"}
  PROVE  Alone' /\ \A o \in Actors : o # a => pc'[o] = pc[o] /\ pc'[o] \in {"start", "done"}
BY DEF Alone

\* A request names one booking, and its replacement belongs to it alone.
LEMMA Replacements ==
  /\ \A q \in Requests : BookingOf[q] \in Bookings
  /\ \A q \in Requests : ~IsRefund(q) => Replacement[q] \in Bookings \ Sold
  /\ \A q \in Requests, b \in Bookings :
       ~IsRefund(q) /\ Replacement[q] \in ReplacedBy(b) => b = BookingOf[q]
  /\ \A b \in Bookings : \A n \in ReplacedBy(b) :
       \E q \in Requests : ~IsRefund(q) /\ BookingOf[q] = b /\ Replacement[q] = n
BY DispatcherAssumption DEF IsRefund, ReplacedBy

LEMMA InitInv == Init => DispatcherInv
<1>. SUFFICES ASSUME Init
              PROVE  DispatcherInv
  OBVIOUS
<1>1. TypeOK /\ Places
  BY DispatcherAssumption DEF Init, TypeOK, Places, Actors, EventLabels, RequestLabels
<1>2. EventsKeepOrder
  BY DEF Init, EventsKeepOrder, Actors
<1>3. /\ \A q \in Requests : ~IsRefund(q) => status[Replacement[q]] = "absent"
      /\ \A b \in Bookings : refunded[b] = 0 /\ Price[b] \in Nat
      /\ \A a \in Actors : pc[a] = "start"
      /\ \A e \in Events, b \in Bookings : disruption[e][b] = "none"
  BY Replacements, DispatcherAssumption DEF Init
<1>4. \A b \in Bookings : Untouched(b)
  <2>1. \A b \in Bookings : \A n \in ReplacedBy(b) : status[n] = "absent"
    BY <1>3, Replacements
  <2>. QED BY <1>3, <2>1 DEF Untouched
<1>5. RequestsHaveRecord /\ SettledIsDisrupted
  BY <1>3 DEF RequestsHaveRecord, SettledIsDisrupted, Actors
<1>6. Sequential
  BY <1>3, <1>4, Replacements DEF Sequential, Alone, Actors
<1>7. SettledOnce
  <2>1. ASSUME NEW b \in Bookings
        PROVE  refunded[b] <= Price[b] /\ ~(refunded[b] > 0)
    BY <1>3
  <2>. QED BY <2>1 DEF SettledOnce
<1>. QED BY <1>1, <1>2, <1>5, <1>6, <1>7 DEF DispatcherInv

\* A request moves on, or gives up, without writing anything.
LEMMA QuietInv ==
  ASSUME DispatcherInv, NEW q \in Requests, NEW label \in RequestLabels,
         pc' = [pc EXCEPT ![q] = label], UNCHANGED <<env, status, disruption, todo, found, refunded>>,
         \/ pc[q] = "start" /\ label \in {"disruption", "done"} /\ MayStart(q)
         \/ pc[q] = "disruption" /\ label = "done"
         \/ pc[q] = "insert" /\ label = "cancel"
         \/ pc[q] = "cancel" /\ label = "resolve"
         \/ pc[q] \notin {"start", "done"} /\ label = "done" /\ Failing
  PROVE  DispatcherInv'
<1>. USE DispatcherAssumption DEF DispatcherInv
<1>1. \A a \in Actors : a # q => pc'[a] = pc[a]
  BY DEF TypeOK
<1>2. q \in Actors /\ q \notin Events /\ pc'[q] = label
  BY DEF Actors, TypeOK
<1>3. TypeOK' /\ Places'
  BY <1>1, <1>2 DEF TypeOK, Places, Actors, RequestLabels, IsRefund
<1>4. EventsKeepOrder'
  BY <1>1, <1>2 DEF EventsKeepOrder, Actors, Current
<1>5. RequestsHaveRecord'
  BY <1>1, <1>2 DEF RequestsHaveRecord, Actors, IsRefund
<1>6. SettledIsDisrupted' /\ SettledOnce'
  BY DEF SettledIsDisrupted, SettledOnce, Disrupted, IsRefund, Replaced, ReplacedBy, Orderly
<1>7. Sequential'
  <2>. SUFFICES ASSUME Orderly
                PROVE  Sequential'
    BY DEF Sequential, Orderly
  <2>1. ~Failing
    BY DEF Failing, Orderly
  <2>2. Alone'
    BY <1>2, <2>1, AloneStep DEF TypeOK, Sequential, MayStart, Orderly, Labels, RequestLabels
  <2>3. \A e \in Events : pc'[e] = pc[e]
    BY <1>1, <1>2 DEF Actors
  <2>4. \A p \in Requests :
          /\ pc[p] \in {"insert", "cancel", "resolve"} /\ p # q => pc'[p] = pc[p]
          /\ pc'[p] \in {"credit", "create"} => pc'[p] = pc[p]
    BY <1>1, <1>2 DEF Actors
  <2>5. \A b \in Bookings : (Untouched(b)' <=> Untouched(b)) /\ (Open(b)' <=> Open(b))
    BY DEF Untouched, Open, ReplacedBy
  <2>6. ASSUME NEW b \in Bookings, Open(b)
        PROVE  \/ Untouched(b)
               \/ \E p \in Requests : BookingOf[p] = b /\ pc'[p] \in {"insert", "cancel", "resolve"}
    <3>1. CASE Untouched(b)
      BY <3>1
    <3>2. ASSUME NEW p \in Requests, BookingOf[p] = b, pc[p] \in {"insert", "cancel", "resolve"}
          PROVE  pc'[p] \in {"insert", "cancel", "resolve"}
      BY <1>2, <2>1, <2>4, <3>2 
    <3>. QED BY <2>6, <3>1, <3>2 DEF Sequential
  <2>. QED BY <2>2, <2>3, <2>4, <2>5, <2>6, Replacements DEF Sequential
<1>. QED BY <1>3, <1>4, <1>5, <1>6, <1>7

\* An event starts with the confirmed bookings of its vehicle, or fails.
LEMMA FindAffectedInv ==
  ASSUME DispatcherInv, NEW e \in Events, FindAffectedBookings(e)
  PROVE  DispatcherInv'
<1>. USE DispatcherAssumption DEF DispatcherInv
<1>1. /\ pc[e] = "start" /\ MayStart(e) /\ UNCHANGED <<env, status, disruption, found, refunded>>
      /\ \/ /\ pc' = [pc EXCEPT ![e] = "loop"]
            /\ todo' = [todo EXCEPT ![e] =
                 {b \in Bookings : Vehicle[b] = EventVehicle[e] /\ status[b] = "confirmed"}]
         \/ pc' = [pc EXCEPT ![e] = "done"] /\ todo' = todo
  BY DEF FindAffectedBookings, Goto
<1>2. /\ \A a \in Actors : a # e => pc'[a] = pc[a]
      /\ \A d \in Events : d # e => todo'[d] = todo[d]
      /\ e \in Actors /\ e \notin Requests /\ pc'[e] \in {"loop", "done"}
      /\ pc' = [pc EXCEPT ![e] = pc'[e]] /\ pc' \in [Actors -> Labels]
  BY <1>1 DEF TypeOK, Actors, Labels
<1>3. todo' \in [Events -> SUBSET Bookings]
      /\ \A b \in todo'[e] : Vehicle[b] = EventVehicle[e] /\ status[b] = "confirmed"
  BY <1>1 DEF TypeOK, EventsKeepOrder
<1>4. TypeOK' /\ Places'
  <2>1. TypeOK'
    BY <1>1, <1>2, <1>3 DEF TypeOK, Labels
  <2>2. Places'
    BY <1>2 DEF Places, Actors, EventLabels, IsRefund
  <2>. QED BY <2>1, <2>2
<1>5. EventsKeepOrder'
  <2>1. \A b \in Bookings : disruption[e][b] = "none"
    BY <1>1 DEF EventsKeepOrder
  <2>2. \A d \in Events : d # e => Current(d)' = Current(d)
    BY <1>1, <1>2 DEF Current
  <2>3. \A d \in Events : \A b \in todo'[d] : Vehicle[b] = EventVehicle[d] /\ status'[b] # "absent"
    BY <1>1, <1>2, <1>3 DEF EventsKeepOrder
  <2>4. \A d \in Events : pc'[d] = "start" => d # e /\ pc[d] = "start"
    BY <1>2 DEF Actors
  <2>5. \A d \in Events : pc'[d] = "loop" => \A b \in todo'[d] : disruption'[d][b] = "none"
    BY <1>1, <1>2, <1>3, <2>1 DEF Actors, EventsKeepOrder, TypeOK
  <2>6. \A d \in Events : pc'[d] = "mark" => d # e /\ pc[d] = "mark"
    BY <1>2 DEF Actors
  <2>. QED BY <1>1, <1>2, <2>2, <2>3, <2>4, <2>5, <2>6 DEF EventsKeepOrder
<1>6. RequestsHaveRecord'
  BY <1>1, <1>2 DEF RequestsHaveRecord, Actors, IsRefund
<1>7. SettledIsDisrupted' /\ SettledOnce'
  BY <1>1 DEF SettledIsDisrupted, SettledOnce, Disrupted, IsRefund, Replaced, ReplacedBy, Orderly
<1>8. Sequential'
  <2>. SUFFICES ASSUME Orderly
                PROVE  Sequential'
    BY <1>1 DEF Sequential, Orderly
  <2>1. Alone' /\ \A o \in Actors : o # e => pc'[o] \in {"start", "done"}
    <3>1. \A o \in Actors \ {e} : pc[o] \in {"start", "done"}
      BY <1>1 DEF MayStart, Orderly
    <3>2. pc \in [Actors -> Labels] /\ Alone /\ pc'[e] \in Labels
      BY <1>2 DEF TypeOK, Labels, Sequential
    <3>. QED BY <1>2, <3>1, <3>2, AloneStep
  <2>2. \A b \in Bookings : (Untouched(b)' <=> Untouched(b)) /\ (Open(b)' <=> Open(b))
    BY <1>1 DEF Untouched, Open, ReplacedBy
  <2>3. \A d \in Events : pc[d] # "mark"
    BY <1>1 DEF MayStart, Orderly, Actors
  <2>4. \A q \in Requests : pc'[q] = pc[q]
    BY <1>2 DEF Actors
  <2>5. ASSUME NEW d \in Events, pc'[d] \in {"loop", "mark"}, NEW b \in todo'[d]
        PROVE  status'[b] = "confirmed"
    BY <1>1, <1>2, <1>3, <2>1, <2>5 DEF Actors
  <2>. QED BY <1>1, <2>1, <2>2, <2>3, <2>4, <2>5, Replacements DEF Sequential
<1>. QED BY <1>4, <1>5, <1>6, <1>7, <1>8

\* The record of a booking is opened, or the booking skipped.
LEMMA CreateDisruptionInv ==
  ASSUME DispatcherInv, NEW e \in Events, NEW b \in Bookings, CreateDisruption(e, b)
  PROVE  DispatcherInv'
<1>. USE DispatcherAssumption DEF DispatcherInv
<1>1. CASE Failing /\ todo' = [todo EXCEPT ![e] = @ \ {b}] /\ UNCHANGED <<disruption, pc>>
  <2>1. UNCHANGED <<env, status, found, refunded>>
    BY DEF CreateDisruption
  <2>2. todo' \in [Events -> SUBSET Bookings] /\ \A d \in Events : todo'[d] \subseteq todo[d]
    BY <1>1 DEF TypeOK
  <2>3. \A d \in Events : Current(d)' \subseteq Current(d)
    BY <1>1, <2>2 DEF Current
  <2>4. ~Orderly /\ ~Orderly'
    BY <1>1, <2>1 DEF Orderly, Failing
  <2>5. EventsKeepOrder'
    BY <1>1, <2>1, <2>2, <2>3 DEF EventsKeepOrder, TypeOK
  <2>. QED BY <1>1, <2>1, <2>2, <2>4, <2>5
           DEF TypeOK, Places, RequestsHaveRecord, SettledIsDisrupted, Sequential, SettledOnce,
               Disrupted, IsRefund
<1>2. CASE /\ disruption' = [disruption EXCEPT ![e][b] = "pending"]
           /\ pc' = [pc EXCEPT ![e] = "mark"] /\ todo' = todo
  <2>1. /\ UNCHANGED <<env, status, found, refunded>>
        /\ pc[e] = "loop" /\ b \in todo[e] /\ disruption[e][b] = "none"
    BY DEF CreateDisruption, EventsKeepOrder
  <2>2. /\ disruption' \in [Events -> [Bookings -> {"none", "pending", "rescheduled", "refunded"}]]
        /\ disruption'[e][b] = "pending"
        /\ \A d \in Events, c \in Bookings : d # e \/ c # b => disruption'[d][c] = disruption[d][c]
    BY <1>2 DEF TypeOK
  <2>3. /\ \A a \in Actors : a # e => pc'[a] = pc[a]
        /\ e \in Actors /\ e \notin Requests /\ pc'[e] = "mark" /\ pc' \in [Actors -> Labels]
    BY <1>2 DEF TypeOK, Actors, Labels
  <2>4. TypeOK' /\ Places'
    <3>1. TypeOK'
      BY <1>2, <2>1, <2>2, <2>3 DEF TypeOK, Labels
    <3>2. Places'
      BY <2>3 DEF Places, Actors, EventLabels, IsRefund
    <3>. QED BY <3>1, <3>2
  <2>5. EventsKeepOrder'
    <3>1. \A d \in Events : d # e => Current(d)' = Current(d)
      BY <1>2, <2>2 DEF Current, TypeOK
    <3>2. \A c \in Current(e)' : c = b
      BY <1>2, <2>1, <2>2 DEF Current, TypeOK, EventsKeepOrder
    <3>3. \A d \in Events : \A c \in todo'[d] : Vehicle[c] = EventVehicle[d] /\ status'[c] # "absent"
      BY <1>2, <2>1 DEF EventsKeepOrder
    <3>4. \A d \in Events, c \in Bookings :
            disruption'[d][c] # "none" => Vehicle[c] = EventVehicle[d] /\ status'[c] # "absent"
      BY <2>1, <2>2 DEF EventsKeepOrder
    <3>5. \A d \in Events : pc'[d] \in {"start", "loop"} =>
            d # e /\ pc[d] = pc'[d] /\ todo'[d] = todo[d]
            /\ \A c \in Bookings : disruption'[d][c] = disruption[d][c]
      BY <1>2, <2>2, <2>3 DEF Actors
    <3>6. \A d \in Events : pc'[d] = "mark" => \A c, n \in Current(d)' : c = n
      BY <2>3, <3>1, <3>2 DEF EventsKeepOrder, Actors
    <3>7. \A d \in Events : todo[d] \subseteq Bookings
      BY DEF TypeOK
    <3>. QED BY <3>3, <3>4, <3>5, <3>6, <3>7 DEF EventsKeepOrder
  <2>6. RequestsHaveRecord'
    <3>1. \A q \in Requests : pc'[q] = pc[q] /\ BookingOf[q] \in Bookings
      BY <2>3 DEF Actors
    <3>2. \A d \in Events, c \in Bookings : disruption[d][c] # "none" => disruption'[d][c] # "none"
      BY <2>1, <2>2
    <3>. QED BY <2>1, <3>1, <3>2 DEF RequestsHaveRecord, IsRefund
  <2>7. SettledIsDisrupted' /\ SettledOnce'
    <3>1. \A c \in Bookings : Disrupted(c) => Disrupted(c)'
      BY <2>1, <2>2 DEF Disrupted
    <3>2. SettledIsDisrupted'
      BY <2>1, <3>1, Replacements DEF SettledIsDisrupted, IsRefund
    <3>3. SettledOnce'
      BY <2>1 DEF SettledOnce, Replaced, ReplacedBy, Orderly
    <3>. QED BY <3>2, <3>3
  <2>8. Sequential'
    <3>. SUFFICES ASSUME Orderly
                  PROVE  Sequential'
      BY <2>1 DEF Sequential, Orderly
    <3>1. /\ Alone' /\ pc \in [Actors -> Labels]
          /\ \A o \in Actors : o # e => pc'[o] = pc[o] /\ pc'[o] \in {"start", "done"}
      <4>1. /\ pc \in [Actors -> Labels] /\ Alone /\ pc'[e] \in Labels
            /\ pc' = [pc EXCEPT ![e] = pc'[e]] /\ pc[e] \notin {"start", "done"}
        BY <1>2, <2>1, <2>3 DEF TypeOK, Sequential, Labels
      <4>. QED BY <2>3, <4>1, AloneStep
    <3>2. \A c \in Bookings : (Untouched(c)' <=> Untouched(c)) /\ (Open(c)' => Open(c))
      BY <2>1, <2>2 DEF Untouched, Open, ReplacedBy
    <3>3. \A d \in Events : d # e => pc[d] # "mark" /\ pc'[d] \in {"start", "done"}
      BY <3>1 DEF Actors
    <3>4. status[b] = "confirmed" /\ \A d \in Events : disruption[d][b] = "none"
      BY <2>1, <3>3 DEF Sequential
    <3>5. \A d \in Events, c \in Bookings :
            status'[c] = "confirmed" /\ disruption'[d][c] # "none" => pc'[d] = "mark" /\ c \in todo'[d]
      BY <1>2, <2>1, <2>2, <2>3, <3>3 DEF Sequential
    <3>6. \A d, n \in Events, c \in Bookings :
            disruption'[d][c] # "none" /\ disruption'[n][c] # "none" => d = n
      BY <2>2, <3>4 DEF Sequential
    <3>7. \A d \in Events : pc'[d] \in {"loop", "mark"} => \A c \in todo'[d] : status'[c] = "confirmed"
      BY <1>2, <2>1, <3>3 DEF Sequential
    <3>8. \A q \in Requests : pc'[q] = pc[q]
      BY <2>3 DEF Actors
    <3>. QED BY <3>1, <3>2, <3>5, <3>6, <3>7, <3>8, Replacements DEF Sequential
  <2>. QED BY <2>4, <2>5, <2>6, <2>7, <2>8
<1>. QED BY <1>1, <1>2 DEF CreateDisruption, Goto

\* The booking of the record is marked, or the error dropped.
LEMMA MarkBookingInv ==
  ASSUME DispatcherInv, NEW e \in Events, NEW b \in Bookings, MarkBooking(e, b)
  PROVE  DispatcherInv'
<1>. USE DispatcherAssumption DEF DispatcherInv
<1>1. /\ pc[e] = "mark" /\ b \in Current(e) /\ UNCHANGED <<env, disruption, found, refunded>>
      /\ (status' = [status EXCEPT ![b] = "rescheduled"] \/ (Failing /\ status' = status))
      /\ todo' = [todo EXCEPT ![e] = @ \ {b}] /\ pc' = [pc EXCEPT ![e] = "loop"]
  BY DEF MarkBooking, UpdateStatus, Goto
<1>2. /\ \A a \in Actors : a # e => pc'[a] = pc[a]
      /\ e \in Actors /\ e \notin Requests /\ pc'[e] = "loop" /\ pc' \in [Actors -> Labels]
      /\ todo' \in [Events -> SUBSET Bookings] /\ todo'[e] = todo[e] \ {b}
      /\ \A d \in Events : d # e => todo'[d] = todo[d]
  BY <1>1 DEF TypeOK, Actors, Labels
<1>3. /\ \A c \in Bookings : status'[c] = "absent" <=> status[c] = "absent"
      /\ \A c \in Bookings : c # b => status'[c] = status[c]
      /\ status' \in [Bookings -> {"absent", "confirmed", "rescheduled", "cancelled"}]
  BY <1>1 DEF Current, EventsKeepOrder, TypeOK
<1>4. TypeOK' /\ Places'
  <2>1. TypeOK'
    BY <1>1, <1>2, <1>3 DEF TypeOK, Labels
  <2>2. Places'
    BY <1>2 DEF Places, Actors, EventLabels, IsRefund
  <2>. QED BY <2>1, <2>2
<1>5. EventsKeepOrder'
  <2>1. \A d \in Events : d # e => Current(d)' = Current(d)
    BY <1>1, <1>2 DEF Current
  <2>2. \A c \in todo'[e] : disruption[e][c] = "none"
    BY <1>1, <1>2 DEF Current, EventsKeepOrder
  <2>3. \A d \in Events : \A c \in todo'[d] : c \in todo[d] /\ c \in Bookings
    BY <1>2 DEF TypeOK
  <2>4. \A d \in Events : pc'[d] \in {"start", "mark"} => d # e /\ pc[d] = pc'[d] /\ todo'[d] = todo[d]
    BY <1>2 DEF Actors
  <2>5. \A d \in Events : pc'[d] = "loop" => \A c \in todo'[d] : disruption'[d][c] = "none"
    BY <1>1, <1>2, <2>2 DEF EventsKeepOrder, Actors
  <2>. QED BY <1>1, <1>3, <2>1, <2>3, <2>4, <2>5 DEF EventsKeepOrder
<1>6. RequestsHaveRecord' /\ SettledIsDisrupted'
  <2>1. \A q \in Requests : pc'[q] = pc[q] /\ (~IsRefund(q) => Replacement[q] \in Bookings)
    BY <1>2, Replacements DEF Actors
  <2>2. \A c \in Bookings : Disrupted(c)' <=> Disrupted(c)
    BY <1>1 DEF Disrupted
  <2>. QED BY <1>1, <1>3, <2>1, <2>2, Replacements DEF RequestsHaveRecord, SettledIsDisrupted, IsRefund
<1>7. \A c \in Bookings : \A n \in ReplacedBy(c) : status'[n] = "absent" <=> status[n] = "absent"
  BY <1>3 DEF ReplacedBy
<1>8. SettledOnce'
  BY <1>1, <1>7 DEF SettledOnce, Orderly, Replaced, ReplacedBy
<1>9. Sequential'
  <2>. SUFFICES ASSUME Orderly
                PROVE  Sequential'
    BY <1>1 DEF Sequential, Orderly
  <2>1. /\ Alone' /\ pc \in [Actors -> Labels]
        /\ \A o \in Actors : o # e => pc'[o] = pc[o] /\ pc'[o] \in {"start", "done"}
    <3>1. /\ pc \in [Actors -> Labels] /\ Alone /\ pc'[e] \in Labels
          /\ pc' = [pc EXCEPT ![e] = pc'[e]] /\ pc[e] \notin {"start", "done"}
      BY <1>1, <1>2 DEF TypeOK, Sequential, Labels
    <3>. QED BY <1>2, <3>1, AloneStep
  <2>2. \A c \in Bookings : (Untouched(c)' <=> Untouched(c)) /\ (Open(c)' <=> Open(c))
    BY <1>1, <1>7 DEF Untouched, Open, ReplacedBy
  <2>3. \A d \in Events : d # e => pc[d] # "mark" /\ pc'[d] \in {"start", "done"}
    BY <2>1 DEF Actors
  <2>4. status'[b] = "rescheduled"
    BY <1>1 DEF Orderly, Failing, TypeOK
  <2>5. ASSUME NEW d \in Events, NEW c \in Bookings, status'[c] = "confirmed", disruption'[d][c] # "none"
        PROVE  FALSE
    <3>1. c # b /\ status[c] = "confirmed"
      BY <1>3, <2>4, <2>5
    <3>2. pc[d] = "mark" /\ c \in todo[d]
      BY <1>1, <2>5, <3>1 DEF Sequential
    <3>3. d = e /\ c \in Current(e)
      BY <1>1, <2>3, <2>5, <3>2 DEF Current
    <3>. QED BY <1>1, <3>1, <3>3 DEF EventsKeepOrder
  <2>6. \A d \in Events : pc'[d] \in {"loop", "mark"} => \A c \in todo'[d] : status'[c] = "confirmed"
    BY <1>1, <1>2, <1>3, <2>3 DEF Sequential, TypeOK
  <2>7. \A q \in Requests : pc'[q] = pc[q]
    BY <1>2 DEF Actors
  <2>. QED BY <1>1, <2>1, <2>2, <2>5, <2>6, <2>7, Replacements DEF Sequential
<1>. QED BY <1>4, <1>5, <1>6, <1>8, <1>9

\* The event is over.
LEMMA MarkNotifiedInv ==
  ASSUME DispatcherInv, NEW e \in Events, MarkNotified(e)
  PROVE  DispatcherInv'
<1>. USE DispatcherAssumption DEF DispatcherInv
<1>1. /\ pc[e] = "loop" /\ todo[e] = {} /\ pc' = [pc EXCEPT ![e] = "done"]
      /\ UNCHANGED <<env, status, disruption, todo, found, refunded>>
  BY DEF MarkNotified, Goto
<1>2. /\ \A a \in Actors : a # e => pc'[a] = pc[a]
      /\ e \in Actors /\ e \notin Requests /\ pc'[e] = "done" /\ pc' \in [Actors -> Labels]
  BY <1>1 DEF TypeOK, Actors, Labels
<1>3. TypeOK' /\ Places'
  <2>1. TypeOK'
    BY <1>1, <1>2 DEF TypeOK, Labels
  <2>2. Places'
    BY <1>2 DEF Places, Actors, EventLabels, IsRefund
  <2>. QED BY <2>1, <2>2
<1>4. EventsKeepOrder'
  <2>1. \A d \in Events : pc'[d] # "done" => pc'[d] = pc[d]
    BY <1>2 DEF Actors
  <2>. QED BY <1>1, <2>1 DEF EventsKeepOrder, Current
<1>5. RequestsHaveRecord'
  BY <1>1, <1>2 DEF RequestsHaveRecord, Actors, IsRefund
<1>6. SettledIsDisrupted' /\ SettledOnce'
  BY <1>1 DEF SettledIsDisrupted, SettledOnce, Disrupted, IsRefund, Replaced, ReplacedBy, Orderly
<1>7. Sequential'
  <2>. SUFFICES ASSUME Orderly
                PROVE  Sequential'
    BY <1>1 DEF Sequential, Orderly
  <2>1. Alone'
    BY <1>1, <1>2 DEF Sequential, Alone, Actors
  <2>2. \A b \in Bookings : (Untouched(b)' <=> Untouched(b)) /\ (Open(b)' <=> Open(b))
    BY <1>1 DEF Untouched, Open, ReplacedBy
  <2>3. \A q \in Requests : pc'[q] = pc[q]
    BY <1>2 DEF Actors
  <2>4. \A d \in Events : pc'[d] # "done" => pc'[d] = pc[d]
    BY <1>2 DEF Actors
  <2>5. \A d \in Events : pc[d] = "mark" => pc'[d] = "mark"
    BY <1>1, <1>2 DEF Actors
  <2>. QED BY <1>1, <2>1, <2>2, <2>3, <2>4, <2>5, Replacements DEF Sequential
<1>. QED BY <1>3, <1>4, <1>5, <1>6, <1>7

\* A request reads a pending record of its booking.
LEMMA FindDisruptionInv ==
  ASSUME DispatcherInv, NEW q \in Requests, pc[q] = "disruption",
         NEW e \in Events, disruption[e][BookingOf[q]] = "pending",
         found' = [found EXCEPT ![q] = e],
         pc' = [pc EXCEPT ![q] = IF IsRefund(q) THEN "credit" ELSE "create"],
         UNCHANGED <<env, status, disruption, todo, refunded>>
  PROVE  DispatcherInv'
<1>. USE DispatcherAssumption DEF DispatcherInv
<1>1. /\ \A a \in Actors : a # q => pc'[a] = pc[a]
      /\ q \in Actors /\ q \notin Events /\ pc'[q] \in {"credit", "create"}
      /\ (pc'[q] = "credit" <=> IsRefund(q)) /\ pc' \in [Actors -> Labels]
      /\ pc' = [pc EXCEPT ![q] = pc'[q]]
  BY DEF TypeOK, Actors, Labels
<1>2. /\ found' \in [Requests -> Events \cup {"none"}] /\ found'[q] = e
      /\ \A p \in Requests : p # q => found'[p] = found[p]
  BY DEF TypeOK
<1>3. TypeOK' /\ Places'
  <2>1. TypeOK'
    BY <1>1, <1>2 DEF TypeOK, Labels
  <2>2. Places'
    BY <1>1 DEF Places, Actors, RequestLabels, IsRefund
  <2>. QED BY <2>1, <2>2
<1>4. EventsKeepOrder'
  BY <1>1 DEF EventsKeepOrder, Actors, Current
<1>5. RequestsHaveRecord'
  BY <1>1, <1>2 DEF RequestsHaveRecord, Actors, IsRefund
<1>6. SettledIsDisrupted' /\ SettledOnce'
  BY DEF SettledIsDisrupted, SettledOnce, Disrupted, IsRefund, Replaced, ReplacedBy, Orderly
<1>7. Sequential'
  <2>. SUFFICES ASSUME Orderly
                PROVE  Sequential'
    BY DEF Sequential, Orderly
  <2>1. Alone' /\ \A o \in Actors : o # q => pc'[o] = pc[o] /\ pc'[o] \in {"start", "done"}
    <3>1. pc \in [Actors -> Labels] /\ Alone /\ pc'[q] \in Labels
      BY <1>1 DEF TypeOK, Sequential, Labels
    <3>. QED BY <1>1, <3>1, AloneStep
  <2>2. \A b \in Bookings : (Untouched(b)' <=> Untouched(b)) /\ (Open(b)' <=> Open(b))
    BY DEF Untouched, Open, ReplacedBy
  <2>3. \A d \in Events : pc'[d] = pc[d]
    BY <1>1 DEF Actors
  <2>4. \A p \in Requests : pc[p] \notin {"insert", "cancel", "resolve"}
    BY <2>1 DEF Actors
  <2>5. Untouched(BookingOf[q])
    <3>1. Open(BookingOf[q])
      BY Replacements DEF Open, Sequential
    <3>. QED BY <2>4, <3>1, Replacements DEF Sequential
  <2>6. \A p \in Requests : p # q => pc'[p] = pc[p]
    BY <1>1 DEF Actors
  <2>. QED BY <1>1, <2>1, <2>2, <2>3, <2>4, <2>5, <2>6, Replacements DEF Sequential
<1>. QED BY <1>3, <1>4, <1>5, <1>6, <1>7

\* The price goes back to the wallet.
LEMMA CreditRefundInv ==
  ASSUME DispatcherInv, NEW q \in Requests, pc[q] = "credit", NEW label \in {"insert", "done"},
         refunded' = [refunded EXCEPT ![BookingOf[q]] = @ + Price[BookingOf[q]]],
         pc' = [pc EXCEPT ![q] = label], label = "done" => Failing,
         UNCHANGED <<env, status, disruption, todo, found>>
  PROVE  DispatcherInv'
<1>. USE DispatcherAssumption DEF DispatcherInv
<1>1. /\ \A a \in Actors : a # q => pc'[a] = pc[a]
      /\ q \in Actors /\ q \notin Events /\ pc'[q] = label /\ pc' \in [Actors -> Labels]
  BY DEF TypeOK, Actors, Labels
<1>2. /\ BookingOf[q] \in Bookings /\ refunded' \in [Bookings -> Nat] /\ refunded \in [Bookings -> Nat]
      /\ refunded'[BookingOf[q]] = refunded[BookingOf[q]] + Price[BookingOf[q]]
      /\ \A b \in Bookings : b # BookingOf[q] => refunded'[b] = refunded[b]
  <2>1. BookingOf[q] \in Bookings /\ Price[BookingOf[q]] \in Nat /\ refunded \in [Bookings -> Nat]
    BY DEF TypeOK
  <2>2. refunded[BookingOf[q]] + Price[BookingOf[q]] \in Nat
    BY <2>1
  <2>. QED BY <2>1, <2>2
<1>3. TypeOK' /\ Places'
  <2>1. TypeOK'
    BY <1>1, <1>2 DEF TypeOK, Labels
  <2>2. Places'
    BY <1>1 DEF Places, Actors, RequestLabels, IsRefund
  <2>. QED BY <2>1, <2>2
<1>4. EventsKeepOrder'
  BY <1>1 DEF EventsKeepOrder, Actors, Current
<1>5. RequestsHaveRecord'
  BY <1>1 DEF RequestsHaveRecord, Actors, IsRefund
<1>6. SettledIsDisrupted'
  <2>1. Disrupted(BookingOf[q])
    BY DEF RequestsHaveRecord, Disrupted
  <2>2. \A b \in Bookings : Disrupted(b)' <=> Disrupted(b)
    BY DEF Disrupted
  <2>3. \A b \in Bookings : refunded'[b] > 0 => Disrupted(b)'
    BY <1>2, <2>1, <2>2 DEF SettledIsDisrupted
  <2>. QED BY <2>2, <2>3, Replacements DEF SettledIsDisrupted, IsRefund
<1>7. SettledOnce' /\ Sequential'
  <2>. SUFFICES ASSUME Orderly
                PROVE  SettledOnce' /\ Sequential'
    BY DEF Sequential, SettledOnce, Orderly
  <2>1. label = "insert"
    BY DEF Orderly, Failing
  <2>2. Alone' /\ \A o \in Actors : o # q => pc'[o] = pc[o] /\ pc'[o] \in {"start", "done"}
    <3>1. pc \in [Actors -> Labels] /\ Alone /\ label \in Labels
      BY <1>1 DEF TypeOK, Sequential, Labels
    <3>. QED BY <1>1, <3>1, AloneStep
  <2>3. Untouched(BookingOf[q])
    BY DEF Sequential
  <2>4. \A b \in Bookings : /\ b # BookingOf[q] => (Untouched(b)' <=> Untouched(b))
                            /\ Open(b)' <=> Open(b)
    BY <1>2 DEF Untouched, Open, ReplacedBy
  <2>5. /\ \A d \in Events : pc'[d] = pc[d]
        /\ \A p \in Requests : p # q => pc'[p] \in {"start", "done"} /\ pc[p] \in {"start", "done"}
    BY <1>1, <2>2 DEF Actors
  <2>6. SettledOnce'
    <3>1. \A b \in Bookings : Price[b] \in Nat
      OBVIOUS
    <3>2. refunded'[BookingOf[q]] <= Price[BookingOf[q]]
      BY <1>2, <2>3, <3>1 DEF Untouched
    <3>3. \A n \in ReplacedBy(BookingOf[q]) : status'[n] = "absent"
      BY <2>3 DEF Untouched
    <3>. QED BY <1>2, <3>2, <3>3 DEF SettledOnce, Replaced, ReplacedBy, Orderly
  <2>7. Sequential'
    BY <1>1, <2>1, <2>2, <2>4, <2>5, Replacements DEF Sequential
  <2>. QED BY <2>6, <2>7
<1>. QED BY <1>3, <1>4, <1>5, <1>6, <1>7

\* The replacement is stored.
LEMMA CreateReplacementInv ==
  ASSUME DispatcherInv, NEW q \in Requests, pc[q] = "create", NEW label \in {"cancel", "done"},
         status' = [status EXCEPT ![Replacement[q]] = "confirmed"],
         pc' = [pc EXCEPT ![q] = label], label = "done" => Failing,
         UNCHANGED <<env, disruption, todo, found, refunded>>
  PROVE  DispatcherInv'
<1>. USE DispatcherAssumption DEF DispatcherInv
<1>1. /\ \A a \in Actors : a # q => pc'[a] = pc[a]
      /\ q \in Actors /\ q \notin Events /\ pc'[q] = label /\ pc' \in [Actors -> Labels]
  BY DEF TypeOK, Actors, Labels
<1>2. /\ ~IsRefund(q) /\ BookingOf[q] \in Bookings /\ Replacement[q] \in Bookings
      /\ status[Replacement[q]] = "absent"
      /\ status' \in [Bookings -> {"absent", "confirmed", "rescheduled", "cancelled"}]
      /\ status'[Replacement[q]] = "confirmed"
      /\ \A b \in Bookings : b # Replacement[q] => status'[b] = status[b]
  BY Replacements DEF TypeOK, Places, RequestsHaveRecord
<1>3. TypeOK' /\ Places'
  <2>1. TypeOK'
    BY <1>1, <1>2 DEF TypeOK, Labels
  <2>2. Places'
    BY <1>1 DEF Places, Actors, RequestLabels, IsRefund
  <2>. QED BY <2>1, <2>2
<1>4. EventsKeepOrder'
  <2>1. \A b \in Bookings : status[b] # "absent" => status'[b] # "absent"
    BY <1>2
  <2>2. \A d \in Events : todo[d] \subseteq Bookings
    BY DEF TypeOK
  <2>3. \A d \in Events : pc'[d] = pc[d] /\ Current(d)' = Current(d)
    BY <1>1 DEF Actors, Current
  <2>. QED BY <2>1, <2>2, <2>3 DEF EventsKeepOrder
<1>5. RequestsHaveRecord'
  <2>1. \A p \in Requests : p # q => pc'[p] = pc[p]
    BY <1>1 DEF Actors
  <2>2. \A p \in Requests : p # q /\ ~IsRefund(p) => Replacement[p] # Replacement[q] /\ Replacement[p] \in Bookings
    BY <1>2, Replacements DEF IsRefund
  <2>. QED BY <1>1, <1>2, <2>1, <2>2 DEF RequestsHaveRecord, IsRefund
<1>6. SettledIsDisrupted'
  <2>1. Disrupted(BookingOf[q])
    BY DEF RequestsHaveRecord, Disrupted
  <2>2. \A b \in Bookings : Disrupted(b)' <=> Disrupted(b)
    BY DEF Disrupted
  <2>3. \A p \in Requests : p # q /\ ~IsRefund(p) =>
          Replacement[p] # Replacement[q] /\ Replacement[p] \in Bookings /\ BookingOf[p] \in Bookings
    BY <1>2, Replacements DEF IsRefund
  <2>. QED BY <1>2, <2>1, <2>2, <2>3 DEF SettledIsDisrupted, IsRefund
<1>7. SettledOnce' /\ Sequential'
  <2>. SUFFICES ASSUME Orderly
                PROVE  SettledOnce' /\ Sequential'
    BY DEF Sequential, SettledOnce, Orderly
  <2>1. label = "cancel"
    BY DEF Orderly, Failing
  <2>2. Alone' /\ \A o \in Actors : o # q => pc'[o] = pc[o] /\ pc'[o] \in {"start", "done"}
    <3>1. pc \in [Actors -> Labels] /\ Alone /\ label \in Labels
      BY <1>1 DEF TypeOK, Sequential, Labels
    <3>. QED BY <1>1, <3>1, AloneStep
  <2>3. Untouched(BookingOf[q])
    BY DEF Sequential
  <2>4. \A b \in Bookings : b # BookingOf[q] => \A n \in ReplacedBy(b) : status'[n] = status[n]
    <3>1. \A b \in Bookings : \A n \in ReplacedBy(b) : n \in Bookings
      BY DEF ReplacedBy
    <3>2. \A b \in Bookings : b # BookingOf[q] => Replacement[q] \notin ReplacedBy(b)
      BY <1>2, Replacements
    <3>. QED BY <1>2, <3>1, <3>2
  <2>5. \A b \in Bookings : /\ b # BookingOf[q] => (Untouched(b)' <=> Untouched(b))
                            /\ Open(b)' <=> Open(b)
    BY <2>4 DEF Untouched, Open, ReplacedBy
  <2>6. /\ \A d \in Events : pc'[d] = pc[d]
        /\ \A p \in Requests : p # q => pc'[p] \in {"start", "done"} /\ pc[p] \in {"start", "done"}
    BY <1>1, <2>2 DEF Actors
  <2>7. SettledOnce'
    BY <2>3, <2>4 DEF SettledOnce, Replaced, ReplacedBy, Orderly, Untouched
  <2>8. \A d \in Events : disruption[d][Replacement[q]] = "none"
    BY <1>2 DEF EventsKeepOrder
  <2>9. \A d \in Events : pc[d] \in {"start", "done"}
    BY <1>1, <2>2 DEF Actors
  <2>10. Sequential'
    BY <1>1, <1>2, <2>1, <2>2, <2>5, <2>6, <2>8, <2>9, Replacements DEF Sequential
  <2>. QED BY <2>7, <2>10
<1>. QED BY <1>3, <1>4, <1>5, <1>6, <1>7

\* The record is resolved.
LEMMA ResolveInv ==
  ASSUME DispatcherInv, NEW q \in Requests, pc[q] = "resolve", NEW r \in {"refunded", "rescheduled"},
         disruption' = [disruption EXCEPT ![found[q]][BookingOf[q]] = r],
         pc' = [pc EXCEPT ![q] = "done"],
         UNCHANGED <<env, status, todo, found, refunded>>
  PROVE  DispatcherInv'
<1>. USE DispatcherAssumption DEF DispatcherInv
<1>1. /\ \A a \in Actors : a # q => pc'[a] = pc[a]
      /\ q \in Actors /\ q \notin Events /\ pc'[q] = "done" /\ pc' \in [Actors -> Labels]
  BY DEF TypeOK, Actors, Labels
<1>2. /\ BookingOf[q] \in Bookings /\ found[q] \in Events
      /\ disruption[found[q]][BookingOf[q]] # "none"
      /\ disruption' \in [Events -> [Bookings -> {"none", "pending", "rescheduled", "refunded"}]]
      /\ disruption'[found[q]][BookingOf[q]] \in {"refunded", "rescheduled"}
      /\ \A e \in Events, b \in Bookings :
           e # found[q] \/ b # BookingOf[q] => disruption'[e][b] = disruption[e][b]
  BY DEF TypeOK, RequestsHaveRecord
<1>3. \A e \in Events, b \in Bookings : disruption'[e][b] = "none" <=> disruption[e][b] = "none"
  BY <1>2
<1>4. TypeOK' /\ Places'
  <2>1. TypeOK'
    BY <1>1, <1>2 DEF TypeOK, Labels
  <2>2. Places'
    BY <1>1 DEF Places, Actors, RequestLabels, IsRefund
  <2>. QED BY <2>1, <2>2
<1>5. EventsKeepOrder'
  <2>1. \A d \in Events : todo[d] \subseteq Bookings
    BY DEF TypeOK
  <2>2. \A d \in Events : pc'[d] = pc[d] /\ Current(d)' = Current(d)
    BY <1>1, <1>3, <2>1 DEF Actors, Current
  <2>. QED BY <1>3, <2>1, <2>2 DEF EventsKeepOrder
<1>6. RequestsHaveRecord' /\ SettledIsDisrupted' /\ SettledOnce'
  <2>1. \A b \in Bookings : Disrupted(b)' <=> Disrupted(b)
    BY <1>3 DEF Disrupted
  <2>2. RequestsHaveRecord'
    BY <1>1, <1>3 DEF RequestsHaveRecord, Actors, IsRefund
  <2>3. SettledIsDisrupted'
    BY <2>1, Replacements DEF SettledIsDisrupted, IsRefund
  <2>4. SettledOnce'
    BY DEF SettledOnce, Replaced, ReplacedBy, Orderly
  <2>. QED BY <2>2, <2>3, <2>4
<1>7. Sequential'
  <2>. SUFFICES ASSUME Orderly
                PROVE  Sequential'
    BY DEF Sequential, Orderly
  <2>1. Alone' /\ \A o \in Actors : o # q => pc'[o] = pc[o] /\ pc'[o] \in {"start", "done"}
    <3>1. pc \in [Actors -> Labels] /\ Alone /\ "done" \in Labels
      BY <1>1 DEF TypeOK, Sequential, Labels
    <3>. QED BY <1>1, <3>1, AloneStep
  <2>2. ~Open(BookingOf[q])'
    BY <1>2 DEF Open
  <2>3. \A b \in Bookings : /\ Untouched(b)' <=> Untouched(b)
                            /\ b # BookingOf[q] /\ Open(b)' => Open(b)
    BY <1>2 DEF Untouched, Open, ReplacedBy
  <2>4. /\ \A d \in Events : pc'[d] = pc[d]
        /\ \A p \in Requests : p # q => pc'[p] \in {"start", "done"} /\ pc[p] \in {"start", "done"}
    BY <1>1, <2>1 DEF Actors
  <2>. QED BY <1>1, <1>3, <2>1, <2>2, <2>3, <2>4, Replacements DEF Sequential
<1>. QED BY <1>4, <1>5, <1>6, <1>7

-------------------------------------------------------------------------------
LEMMA EventStep ==
  ASSUME DispatcherInv, NEW e \in Events, HandleDispatchEvent(e)
  PROVE  DispatcherInv'
BY FindAffectedInv, MarkNotifiedInv, CreateDisruptionInv, MarkBookingInv DEF HandleDispatchEvent

LEMMA RequestStep ==
  ASSUME DispatcherInv, NEW q \in Requests, HandleRequest(q)
  PROVE  DispatcherInv'
<1>1. ASSUME NEW label \in RequestLabels, pc' = [pc EXCEPT ![q] = label],
             UNCHANGED <<env, status, disruption, todo, found, refunded>>,
             \/ pc[q] = "start" /\ label \in {"disruption", "done"} /\ MayStart(q)
             \/ pc[q] = "disruption" /\ label = "done"
             \/ pc[q] = "insert" /\ label = "cancel"
             \/ pc[q] = "cancel" /\ label = "resolve"
             \/ pc[q] \notin {"start", "done"} /\ label = "done" /\ Failing
      PROVE  DispatcherInv'
  BY <1>1, QuietInv
<1>2. CASE FindBooking(q) \/ InsertRefund(q) \/ CancelBooking(q)
  BY <1>1, <1>2 DEF FindBooking, InsertRefund, CancelBooking, Goto, RequestLabels
<1>3. CASE FindDisruption(q)
  <2>1. CASE pc' = [pc EXCEPT ![q] = "done"] /\ found' = found
    BY <1>1, <1>3, <2>1 DEF FindDisruption, RequestLabels
  <2>2. ASSUME NEW e \in Events, disruption[e][BookingOf[q]] = "pending",
               found' = [found EXCEPT ![q] = e],
               pc' = [pc EXCEPT ![q] = IF IsRefund(q) THEN "credit" ELSE "create"]
        PROVE  DispatcherInv'
    BY <1>3, <2>2, FindDisruptionInv DEF FindDisruption
  <2>. QED BY <1>3, <2>1, <2>2 DEF FindDisruption, Goto
<1>4. CASE CreditRefund(q)
  <2>1. CASE Failing /\ pc' = [pc EXCEPT ![q] = "done"] /\ refunded' = refunded
    BY <1>1, <1>4, <2>1 DEF CreditRefund, RequestLabels
  <2>2. ASSUME refunded' = [refunded EXCEPT ![BookingOf[q]] = @ + Price[BookingOf[q]]],
               NEW label \in {"insert", "done"}, pc' = [pc EXCEPT ![q] = label],
               label = "done" => Failing
        PROVE  DispatcherInv'
    BY <1>4, <2>2, CreditRefundInv DEF CreditRefund
  <2>. QED BY <1>4, <2>1, <2>2 DEF CreditRefund, Goto
<1>5. CASE CreateReplacement(q)
  <2>1. CASE Failing /\ pc' = [pc EXCEPT ![q] = "done"] /\ status' = status
    BY <1>1, <1>5, <2>1 DEF CreateReplacement, RequestLabels
  <2>2. ASSUME status' = [status EXCEPT ![Replacement[q]] = "confirmed"],
               NEW label \in {"cancel", "done"}, pc' = [pc EXCEPT ![q] = label],
               label = "done" => Failing
        PROVE  DispatcherInv'
    BY <1>5, <2>2, CreateReplacementInv DEF CreateReplacement
  <2>. QED BY <1>5, <2>1, <2>2 DEF CreateReplacement, Goto, UpdateStatus
<1>6. CASE ResolveDisruption(q)
  <2>1. CASE Failing /\ disruption' = disruption
    BY <1>1, <1>6, <2>1 DEF ResolveDisruption, Goto, RequestLabels
  <2>2. ASSUME NEW r \in {"refunded", "rescheduled"},
               disruption' = [disruption EXCEPT ![found[q]][BookingOf[q]] = r]
        PROVE  DispatcherInv'
    BY <1>6, <2>2, ResolveInv DEF ResolveDisruption, Goto
  <2>. QED BY <1>6, <2>1, <2>2 DEF ResolveDisruption
<1>. QED BY <1>2, <1>3, <1>4, <1>5, <1>6 DEF HandleRequest

LEMMA StepInv == DispatcherInv /\ [Next]_vars => DispatcherInv'
<1>1. ASSUME DispatcherInv, UNCHANGED vars
      PROVE  DispatcherInv'
  BY <1>1
  DEF DispatcherInv, TypeOK, Places, EventsKeepOrder, RequestsHaveRecord, SettledIsDisrupted,
      Sequential, SettledOnce, Alone, Untouched, Open, Replaced, ReplacedBy, IsRefund, Disrupted,
      Orderly,
      Current, vars
<1>. QED BY <1>1, EventStep, RequestStep DEF Next

\* Records, bookings and refunds at every statement of HandleDispatchEvent,
\* RescheduleBooking and RefundBooking.
THEOREM RecordsKept == Spec => []DispatcherInv
BY InitInv, StepInv, PTL DEF Spec

\* However handlers interleave and fail, money goes back and replacements are made
\* only for bookings that some event disrupted.
THEOREM SettlementsJustified == Spec => []OnlyDisruptedIsSettled
<1>1. DispatcherInv => OnlyDisruptedIsSettled
  BY Replacements
  DEF DispatcherInv, SettledIsDisrupted, OnlyDisruptedIsSettled, Disrupted, Replaced
<1>. QED BY <1>1, RecordsKept, PTL

\* Handlers that run one after the other settle a disruption once: at most the
\* price goes back, and not for a booking that was replaced.
THEOREM SettlementsOnce == Spec => []SettledOnce
<1>1. DispatcherInv => SettledOnce
  BY DEF DispatcherInv
<1>. QED BY <1>1, RecordsKept, PTL

-------------------------------------------------------------------------------
(* Records and payments.                                                      *)

\* A record says what its passenger got, a request pays before it resolves, and
\* without faults what is paid for an open record is about to be recorded.
Recorded ==
  /\ \A e \in Events, b \in Bookings :
       /\ disruption[e][b] = "refunded" => refunded[b] > 0
       /\ disruption[e][b] = "rescheduled" => Replaced(b)
  /\ \A q \in Requests :
       /\ pc[q] \in {"insert", "cancel", "resolve"} /\ IsRefund(q) => refunded[BookingOf[q]] > 0
       /\ pc[q] \in {"cancel", "resolve"} /\ ~IsRefund(q) => status[Replacement[q]] # "absent"
  /\ env.faults = {} =>
       \A b \in Bookings : Open(b) =>
         \/ Untouched(b)
         \/ \E q \in Requests : BookingOf[q] = b /\ pc[q] \in {"insert", "cancel", "resolve"}

LEMMA InitRecorded == Init => Recorded
<1>. SUFFICES ASSUME Init
              PROVE  Recorded
  OBVIOUS
<1>1. /\ \A e \in Events, b \in Bookings : disruption[e][b] = "none"
      /\ \A q \in Requests : pc[q] = "start"
      /\ \A b \in Bookings : refunded[b] = 0
  BY DEF Init, Actors
<1>2. \A b \in Bookings : \A n \in ReplacedBy(b) : status[n] = "absent"
  BY Replacements, DispatcherAssumption DEF Init
<1>. QED BY <1>1, <1>2 DEF Recorded, Untouched

\* Nothing takes back a refund or deletes a booking.
LEMMA Lasting ==
  ASSUME DispatcherInv, Next
  PROVE  /\ env' = env
         /\ \A b \in Bookings : refunded[b] > 0 => refunded'[b] > 0
         /\ \A b \in Bookings : status[b] # "absent" => status'[b] # "absent"
         /\ \A b \in Bookings : Replaced(b) => Replaced(b)'
<1>. USE DispatcherAssumption DEF DispatcherInv
<1>1. env' = env
  BY DEF Next, HandleDispatchEvent, HandleRequest, FindAffectedBookings, MarkNotified,
         CreateDisruption, MarkBooking, FindBooking, FindDisruption, CreditRefund, InsertRefund,
         CreateReplacement, CancelBooking, ResolveDisruption
<1>2. \A b \in Bookings : refunded[b] > 0 => refunded'[b] > 0
  <2>1. CASE refunded' = refunded
    BY <2>1
  <2>2. ASSUME NEW q \in Requests, CreditRefund(q)
        PROVE  \A b \in Bookings : refunded[b] > 0 => refunded'[b] > 0
    BY <2>2, Replacements DEF CreditRefund, TypeOK
  <2>. QED BY <2>1, <2>2
           DEF Next, HandleDispatchEvent, HandleRequest, FindAffectedBookings, MarkNotified,
               CreateDisruption, MarkBooking, FindBooking, FindDisruption, InsertRefund,
               CreateReplacement, CancelBooking, ResolveDisruption
<1>3. \A b \in Bookings : status[b] # "absent" => status'[b] # "absent"
  <2>1. CASE status' = status
    BY <2>1
  <2>2. ASSUME NEW b \in Bookings, NEW label \in {"rescheduled", "confirmed"}, UpdateStatus(b, label)
        PROVE  \A c \in Bookings : status[c] # "absent" => status'[c] # "absent"
    BY <2>2 DEF UpdateStatus, TypeOK
  <2>3. ASSUME NEW e \in Events, NEW b \in Bookings, MarkBooking(e, b)
        PROVE  \A c \in Bookings : status[c] # "absent" => status'[c] # "absent"
    BY <2>1, <2>2, <2>3 DEF MarkBooking
  <2>4. ASSUME NEW q \in Requests, CreateReplacement(q)
        PROVE  \A c \in Bookings : status[c] # "absent" => status'[c] # "absent"
    BY <2>1, <2>2, <2>4, Replacements DEF CreateReplacement, Places
  <2>. QED BY <2>1, <2>3, <2>4
           DEF Next, HandleDispatchEvent, HandleRequest, FindAffectedBookings, MarkNotified,
               CreateDisruption, FindBooking, FindDisruption, CreditRefund, InsertRefund,
               CancelBooking, ResolveDisruption
<1>. QED BY <1>1, <1>2, <1>3 DEF Replaced, ReplacedBy

\* An event opens records and marks bookings; it settles nothing.
LEMMA EventRecorded ==
  ASSUME DispatcherInv, Recorded, NEW e \in Events, HandleDispatchEvent(e)
  PROVE  Recorded'
<1>. USE DispatcherAssumption DEF DispatcherInv
<1>1. /\ \A b \in Bookings : refunded'[b] = refunded[b]
      /\ \A b \in Bookings : status[b] = "absent" <=> status'[b] = "absent"
      /\ env' = env
  <2>1. ASSUME NEW b \in Bookings, MarkBooking(e, b)
        PROVE  \A c \in Bookings : status[c] = "absent" <=> status'[c] = "absent"
    BY <2>1 DEF MarkBooking, UpdateStatus, Current, EventsKeepOrder, TypeOK
  <2>. QED BY <2>1
           DEF HandleDispatchEvent, FindAffectedBookings, MarkNotified, CreateDisruption, MarkBooking
<1>2. \A q \in Requests : pc'[q] = pc[q]
  BY DEF HandleDispatchEvent, FindAffectedBookings, MarkNotified, CreateDisruption, MarkBooking,
         Goto, TypeOK, Actors
<1>3. \A d \in Events, b \in Bookings :
        \/ disruption'[d][b] = disruption[d][b]
        \/ disruption[d][b] = "none" /\ disruption'[d][b] = "pending"
  <2>1. CASE disruption' = disruption
    BY <2>1
  <2>2. ASSUME NEW c \in Bookings, CreateDisruption(e, c)
        PROVE  \A d \in Events, b \in Bookings :
                 \/ disruption'[d][b] = disruption[d][b]
                 \/ disruption[d][b] = "none" /\ disruption'[d][b] = "pending"
    <3>1. disruption[e][c] = "none"
      BY <2>2 DEF CreateDisruption, EventsKeepOrder
    <3>. QED BY <2>2, <3>1 DEF CreateDisruption, TypeOK
  <2>. QED BY <2>1, <2>2
           DEF HandleDispatchEvent, FindAffectedBookings, MarkNotified, MarkBooking
<1>4. \A b \in Bookings : ReplacedBy(b) \subseteq Bookings
  BY DEF ReplacedBy
<1>5. \A b \in Bookings : /\ Replaced(b) => Replaced(b)'
                          /\ Untouched(b) => Untouched(b)'
                          /\ Open(b)' => Open(b)
  <2>1. \A b \in Bookings : ReplacedBy(b)' = ReplacedBy(b)
    BY DEF ReplacedBy
  <2>2. \A b \in Bookings : Open(b)' => Open(b)
    BY <1>3 DEF Open
  <2>. QED BY <1>1, <1>4, <2>1, <2>2 DEF Replaced, Untouched
<1>6. \A d \in Events, b \in Bookings :
        /\ disruption'[d][b] = "refunded" => refunded'[b] > 0
        /\ disruption'[d][b] = "rescheduled" => Replaced(b)'
  BY <1>1, <1>3, <1>5 DEF Recorded
<1>7. \A q \in Requests :
        /\ pc'[q] \in {"insert", "cancel", "resolve"} /\ IsRefund(q) => refunded'[BookingOf[q]] > 0
        /\ pc'[q] \in {"cancel", "resolve"} /\ ~IsRefund(q) => status'[Replacement[q]] # "absent"
  BY <1>1, <1>2, Replacements DEF Recorded
<1>8. env'.faults = {} =>
        \A b \in Bookings : Open(b)' =>
          \/ Untouched(b)'
          \/ \E q \in Requests : BookingOf[q] = b /\ pc'[q] \in {"insert", "cancel", "resolve"}
  BY <1>1, <1>2, <1>5 DEF Recorded
<1>. QED BY <1>6, <1>7, <1>8 DEF Recorded, IsRefund

\* A request pays or rebooks, and then records it.
LEMMA RequestRecorded ==
  ASSUME DispatcherInv, Recorded, NEW q \in Requests, HandleRequest(q)
  PROVE  Recorded'
<1>. USE DispatcherAssumption DEF DispatcherInv
<1>0. Next
  BY DEF Next
<1>1. /\ q \in Actors /\ \A p \in Requests : p # q => pc'[p] = pc[p]
      /\ BookingOf[q] \in Bookings
  BY Replacements
  DEF HandleRequest, FindBooking, FindDisruption, CreditRefund, InsertRefund, CreateReplacement,
      CancelBooking, ResolveDisruption, Goto, TypeOK, Actors
<1>2. /\ pc'[q] = "insert" => pc[q] = "credit" /\ IsRefund(q) /\ refunded'[BookingOf[q]] > 0
      /\ pc'[q] = "cancel" => \/ pc[q] = "insert"
                              \/ pc[q] = "create" /\ ~IsRefund(q) /\ status'[Replacement[q]] # "absent"
      /\ pc'[q] = "resolve" => pc[q] = "cancel"
      /\ pc[q] \in {"insert", "cancel"} /\ ~Failing => pc'[q] \in {"cancel", "resolve"}
  <2>1. CASE CreditRefund(q)
    <3>1. refunded[BookingOf[q]] \in Nat /\ Price[BookingOf[q]] \in Nat \ {0}
      BY <1>1 DEF TypeOK
    <3>2. pc[q] = "credit" /\ IsRefund(q)
      BY <2>1 DEF CreditRefund, Places
    <3>3. ASSUME refunded' = [refunded EXCEPT ![BookingOf[q]] = @ + Price[BookingOf[q]]]
          PROVE  refunded'[BookingOf[q]] > 0
      <4>1. refunded'[BookingOf[q]] = refunded[BookingOf[q]] + Price[BookingOf[q]]
        BY <1>1, <3>3 DEF TypeOK
      <4>. HIDE DEF DispatcherInv
      <4>. QED BY ONLY <3>1, <4>1
    <3>4. pc'[q] \in {"insert", "done"} /\ (pc'[q] = "insert" =>
            refunded' = [refunded EXCEPT ![BookingOf[q]] = @ + Price[BookingOf[q]]])
      BY <1>1, <2>1 DEF CreditRefund, Goto, TypeOK
    <3>. QED BY <3>2, <3>3, <3>4
  <2>2. CASE CreateReplacement(q)
    <3>1. pc[q] = "create" /\ ~IsRefund(q) /\ Replacement[q] \in Bookings
      BY <2>2, Replacements DEF CreateReplacement, Places
    <3>. QED BY <1>1, <2>2, <3>1 DEF CreateReplacement, Goto, UpdateStatus, TypeOK
  <2>3. CASE FindBooking(q) \/ FindDisruption(q) \/ InsertRefund(q) \/ CancelBooking(q)
             \/ ResolveDisruption(q)
    BY <1>1, <2>3
    DEF FindBooking, FindDisruption, InsertRefund, CancelBooking, ResolveDisruption, Goto, TypeOK
  <2>. QED BY <2>1, <2>2, <2>3 DEF HandleRequest
<1>3. \A p \in Requests :
        /\ pc'[p] \in {"insert", "cancel", "resolve"} /\ IsRefund(p) => refunded'[BookingOf[p]] > 0
        /\ pc'[p] \in {"cancel", "resolve"} /\ ~IsRefund(p) => status'[Replacement[p]] # "absent"
  <2>1. \A p \in Requests : pc[p] = "insert" => IsRefund(p)
    BY DEF Places
  <2>. QED BY <1>0, <1>1, <1>2, <2>1, Lasting, Replacements DEF Recorded
<1>4. \A d \in Events, b \in Bookings :
        \/ disruption'[d][b] = disruption[d][b]
        \/ /\ pc[q] = "resolve" /\ b = BookingOf[q]
           /\ disruption'[d][b] = IF IsRefund(q) THEN "refunded" ELSE "rescheduled"
  <2>1. CASE ResolveDisruption(q)
    <3>1. found[q] \in Events
      BY <2>1 DEF ResolveDisruption, RequestsHaveRecord
    <3>. QED BY <1>1, <2>1, <3>1 DEF ResolveDisruption, TypeOK
  <2>2. CASE UNCHANGED disruption
    BY <2>2
  <2>. QED BY <2>1, <2>2
           DEF HandleRequest, FindBooking, FindDisruption, CreditRefund, InsertRefund,
               CreateReplacement, CancelBooking
<1>5. \A d \in Events, b \in Bookings :
        /\ disruption'[d][b] = "refunded" => refunded'[b] > 0
        /\ disruption'[d][b] = "rescheduled" => Replaced(b)'
  <2>1. pc[q] = "resolve" /\ ~IsRefund(q) => Replaced(BookingOf[q])
    BY Replacements DEF Recorded, Replaced, ReplacedBy
  <2>. QED BY <1>0, <1>1, <1>4, <2>1, Lasting DEF Recorded
<1>6. ASSUME env'.faults = {}, NEW b \in Bookings, Open(b)'
      PROVE  \/ Untouched(b)'
             \/ \E p \in Requests : BookingOf[p] = b /\ pc'[p] \in {"insert", "cancel", "resolve"}
  <2>1. ~Failing /\ env.faults = {}
    BY <1>0, <1>6, Lasting DEF Failing
  <2>2. Open(b)
    BY <1>4, <1>6 DEF Open
  <2>3. pc[q] = "resolve" => b # BookingOf[q]
    <3>1. ASSUME pc[q] = "resolve", b = BookingOf[q]
          PROVE  FALSE
      <4>1. ResolveDisruption(q) /\ found[q] \in Events
        BY <3>1 DEF HandleRequest, FindBooking, FindDisruption, CreditRefund, InsertRefund,
                    CreateReplacement, CancelBooking, RequestsHaveRecord
      <4>2. disruption'[found[q]][b] \in {"refunded", "rescheduled"}
        BY <2>1, <3>1, <4>1 DEF ResolveDisruption, TypeOK
      <4>. QED BY <1>6, <4>1, <4>2 DEF Open
    <3>. QED BY <3>1
  <2>4. CASE \E p \in Requests : BookingOf[p] = b /\ pc[p] \in {"insert", "cancel", "resolve"}
    BY <1>1, <1>2, <2>1, <2>3, <2>4
  <2>5. CASE Untouched(b)
    <3>1. CASE CreditRefund(q)
      <4>1. b = BookingOf[q] => pc'[q] = "insert"
        BY <1>1, <2>1, <3>1 DEF CreditRefund, Goto, TypeOK
      <4>2. b # BookingOf[q] => Untouched(b)'
        BY <1>1, <2>1, <2>5, <3>1 DEF CreditRefund, TypeOK, Untouched, ReplacedBy
      <4>. QED BY <4>1, <4>2
    <3>2. CASE CreateReplacement(q)
      <4>1. b = BookingOf[q] => pc'[q] = "cancel"
        BY <1>1, <2>1, <3>2 DEF CreateReplacement, Goto, TypeOK
      <4>2. ~IsRefund(q)
        BY <3>2 DEF CreateReplacement, Places
      <4>3. b # BookingOf[q] => Replacement[q] \notin ReplacedBy(b)
        BY <4>2, Replacements
      <4>4. \A n \in ReplacedBy(b) : n # Replacement[q] => status'[n] = status[n]
        BY <2>1, <3>2 DEF CreateReplacement, UpdateStatus, TypeOK, ReplacedBy
      <4>5. b # BookingOf[q] => Untouched(b)'
        BY <2>5, <3>2, <4>3, <4>4 DEF CreateReplacement, Untouched, ReplacedBy
      <4>. QED BY <4>1, <4>5
    <3>3. CASE UNCHANGED <<status, refunded>>
      BY <2>5, <3>3 DEF Untouched, ReplacedBy
    <3>. QED BY <3>1, <3>2, <3>3
             DEF HandleRequest, FindBooking, FindDisruption, InsertRefund, CancelBooking,
                 ResolveDisruption
  <2>. QED BY <2>1, <2>2, <2>4, <2>5 DEF Recorded
<1>. QED BY <1>3, <1>5, <1>6 DEF Recorded, IsRefund

\* A record says what the passenger got however handlers interleave and fail, and
\* without faults everything a passenger got is recorded: the disruption of a booking
\* is never settled behind its record, for any number of events and requests.
THEOREM SettlementsRecorded == Spec => []SettlementsAreRecorded
<1>1. DispatcherInv /\ Recorded /\ [Next]_vars => Recorded'
  <2>1. ASSUME Recorded, UNCHANGED vars
        PROVE  Recorded'
    BY <2>1 DEF Recorded, vars, Replaced, ReplacedBy, IsRefund, Untouched, Open
  <2>. QED BY <2>1, EventRecorded, RequestRecorded DEF Next
<1>2. DispatcherInv /\ Recorded => SettlementsAreRecorded
  BY DEF DispatcherInv, TypeOK, Recorded, SettlementsAreRecorded, Open, Untouched, Replaced
<1>. QED BY <1>1, <1>2, InitRecorded, RecordsKept, PTL DEF Spec
===============================================================================
