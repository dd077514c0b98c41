----------------------------- MODULE MixTickets -----------------------------
(***************************************************************************)
(* What the ENIG-Mix scheduler promises to the application that enqueues   *)
(* commands: an accepted command holds a ticket, tickets are answered in   *)
(* the order of acceptance, each exactly once, nothing is accepted after   *)
(* the service has closed, and a service that was started answers every    *)
(* ticket.  MixScheduler implements this specification.                    *)
(***************************************************************************)
EXTENDS Naturals, Sequences

CONSTANT Requests   \* the calls of Enqueue

VARIABLES
  accepted,         \* requests that received a ticket, in order
  resolved,         \* requests whose ticket was answered, in order
  started,          \* the service has been started
  closed            \* the service has ended for good

vars == <<accepted, resolved, started, closed>>

Init ==
  /\ accepted = << >>
  /\ resolved = << >>
  /\ started = FALSE
  /\ closed = FALSE

Start ==
  /\ ~started
  /\ started' = TRUE
  /\ UNCHANGED <<accepted, resolved, closed>>

Accept(r) ==
  /\ ~closed
  /\ \A i \in 1..Len(accepted) : accepted[i] # r
  /\ accepted' = Append(accepted, r)
  /\ UNCHANGED <<resolved, started, closed>>

Resolve ==
  /\ started
  /\ Len(resolved) < Len(accepted)
  /\ resolved' = Append(resolved, accepted[Len(resolved) + 1])
  /\ UNCHANGED <<accepted, started, closed>>

Close ==
  /\ started
  /\ ~closed
  /\ closed' = TRUE
  /\ UNCHANGED <<accepted, resolved, started>>

Next ==
  \/ Start
  \/ \E r \in Requests : Accept(r)
  \/ Resolve
  \/ Close

Safety == Init /\ [][Next]_vars

Spec == Safety /\ WF_vars(Resolve)
=============================================================================
