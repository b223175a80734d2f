---------------------------- MODULE SharedFetch ----------------------------
(***************************************************************************)
(* What linux/src/serve.c promises about concurrent requests, without the  *)
(* cache tables, generations, counters and condition variable it keeps for *)
(* it.  A request is a traveller with a ticket (its route and the          *)
(* configuration it loaded).  On each route at most one flight is in the   *)
(* air; it is led by the one traveller it departed for, it takes aboard    *)
(* only travellers with the same ticket, and nobody boards once it landed. *)
(***************************************************************************)
CONSTANTS
  Requests,
  Routes,
  Configurations  \* what a loaded configuration is identified by

NoTicket == [route |-> {}, config |-> {}]
Ticket   == [route : {{r} : r \in Routes}, config : {{c} : c \in Configurations}]
NoFlight == [leaders |-> {}, aboard |-> {}, config |-> {}]

VARIABLES
  ticket,  \* of each request; NoTicket before it asks and after it is answered
  flight,  \* on each route
  landed   \* travellers whose flight has landed and who hold its result

travel == <<ticket, flight, landed>>

InTheAir(r) == flight[r] # NoFlight
Travelling(t) == t \in landed \/ \E r \in Routes : t \in flight[r].leaders \cup flight[r].aboard
Waiting(t) == ticket[t] # NoTicket /\ ~Travelling(t)
On(t, r) == r \in ticket[t].route

Init ==
  /\ ticket = [t \in Requests |-> NoTicket]
  /\ flight = [r \in Routes |-> NoFlight]
  /\ landed = {}

Ask(t) ==
  /\ ticket[t] = NoTicket
  /\ \E new \in Ticket : ticket' = [ticket EXCEPT ![t] = new]
  /\ UNCHANGED <<flight, landed>>

\* An answer from the cache, or an error because the time is up.
Settle(t) ==
  /\ Waiting(t)
  /\ ticket' = [ticket EXCEPT ![t] = NoTicket]
  /\ UNCHANGED <<flight, landed>>

Depart(t) ==
  /\ Waiting(t)
  /\ \E r \in Routes :
       /\ On(t, r)
       /\ ~InTheAir(r)
       /\ flight' = [flight EXCEPT ![r] =
            [leaders |-> {t}, aboard |-> {}, config |-> ticket[t].config]]
  /\ UNCHANGED <<ticket, landed>>

Board(t) ==
  /\ Waiting(t)
  /\ \E r \in Routes :
       /\ On(t, r)
       /\ InTheAir(r)
       /\ flight[r].config = ticket[t].config
       /\ flight' = [flight EXCEPT ![r].aboard = @ \cup {t}]
  /\ UNCHANGED <<ticket, landed>>

\* A traveller gives up before the flight lands.
Leave(t) ==
  /\ \E r \in Routes :
       /\ t \in flight[r].aboard
       /\ flight' = [flight EXCEPT ![r].aboard = @ \ {t}]
  /\ ticket' = [ticket EXCEPT ![t] = NoTicket]
  /\ UNCHANGED landed

\* The leader has the result: it is answered, and so will be all who are aboard.
Land(t) ==
  /\ \E r \in Routes :
       /\ flight[r].leaders = {t}
       /\ landed' = landed \cup flight[r].aboard
       /\ flight' = [flight EXCEPT ![r] = NoFlight]
  /\ ticket' = [ticket EXCEPT ![t] = NoTicket]

Deliver(t) ==
  /\ t \in landed
  /\ landed' = landed \ {t}
  /\ ticket' = [ticket EXCEPT ![t] = NoTicket]
  /\ UNCHANGED flight

Next == \E t \in Requests :
  Ask(t) \/ Settle(t) \/ Depart(t) \/ Board(t) \/ Leave(t) \/ Land(t) \/ Deliver(t)

Spec == Init /\ [][Next]_travel
=============================================================================
