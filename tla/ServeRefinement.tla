-------------------------- MODULE ServeRefinement --------------------------
(* Serve implements SharedFetch. *)
EXTENDS Serve

\* A request holds a ticket from the moment it has loaded its configuration until
\* it has its response.
ticketOf == [t \in Requests |->
  IF pc[t] \in {"lookup", "queued", "joined"} \cup Leading
  THEN [route |-> {route[t]}, config |-> {fp[t]}]
  ELSE [route |-> {}, config |-> {}]]

\* A running operation is a flight; its leader fetches, the threads that joined it
\* are aboard.
flightOn == [r \in Routes |->
  IF operations[r].running
  THEN [leaders |-> Leaders(r), aboard |-> Joined(r), config |-> {operations[r].fingerprint}]
  ELSE [leaders |-> {}, aboard |-> {}, config |-> {}]]

\* A finished operation stays in the table for those who will collect its result.
landedNow == {t \in Requests : pc[t] = "joined" /\ ~operations[route[t]].running}

Promise == INSTANCE SharedFetch WITH
  Configurations <- Fingerprints,
  ticket <- ticketOf,
  flight <- flightOn,
  landed <- landedNow

\* Coalescing is invisible but for its speed: whatever the interleaving of client
\* threads, deadlines and configuration edits, each step of serve.c is a step of
\* travellers sharing flights, or changes nothing they can see.
ImplementsSharedFetch == Promise!Spec


=============================================================================
