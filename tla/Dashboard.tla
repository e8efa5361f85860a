----------------------------- MODULE Dashboard ------------------------------
(***************************************************************************)
(* The organisation's dashboard stream: lifecycle changes are added to a   *)
(* bounded Redis stream (events/dashboard_stream_bus.py), and each viewer  *)
(* follows it over SSE, with a ticket per connection                       *)
(* (app/api/routes/workflows.py, integrations/ticket_store.py).            *)
(***************************************************************************)
EXTENDS Naturals, Sequences

CONSTANTS
    Viewers,      \* browsers with the dashboard open
    MaxChanges,   \* bound on the changes of the organisation
    DashLimit     \* MAX_STREAM_LEN of the dashboard's stream (500)

ASSUME DashboardAssumption == MaxChanges \in Nat /\ DashLimit \in Nat \ {0}

VARIABLES
    changes,   \* changes ever added; change n is message n of the stream
    viewer     \* each viewer: its ticket, its connection, what it was shown

dashVars == <<changes, viewer>>

NoViewer == [pc |-> "off", ticket |-> FALSE, pos |-> 0, seen |-> <<>>, late |-> FALSE]

DashInit ==
    /\ changes = 0
    /\ viewer  = [v \in Viewers |-> NoViewer]

\* Messages up to here have been trimmed.
Trimmed == IF changes > DashLimit THEN changes - DashLimit ELSE 0

\* A change of a run, a review, a job or an integration; one that cannot be added
\* is dropped with a warning.
broadcast ==
    /\ changes < MaxChanges
    /\ changes' = changes + 1
    /\ UNCHANGED viewer

issue_dashboard_ticket(v) ==
    /\ viewer[v].pc = "off" /\ ~viewer[v].ticket
    /\ viewer' = [viewer EXCEPT ![v].ticket = TRUE]
    /\ UNCHANGED changes

\* GET and DEL of the ticket; a ticket older than its ttl is gone.
TicketExpires(v) ==
    /\ viewer[v].ticket
    /\ viewer' = [viewer EXCEPT ![v].ticket = FALSE]
    /\ UNCHANGED changes

\* With the id of the last event, or from the beginning.
stream_dashboard_events(v) ==
    /\ viewer[v].pc = "off" /\ viewer[v].ticket
    /\ \/ viewer' = [viewer EXCEPT ![v].pc = "live", ![v].ticket = FALSE]
       \/ viewer' = [viewer EXCEPT ![v] = [NoViewer EXCEPT !.pc = "live"]]
    /\ UNCHANGED changes

\* Mutant: the position does not move with the message that is shown.
NextFromOldest(v) == Trimmed + 1

\* The message after the position, or the oldest there is.
NextMessage(v) == (IF viewer[v].pos > Trimmed THEN viewer[v].pos ELSE Trimmed) + 1

subscribe_dashboard(v) ==
    LET n == NextMessage(v) IN
    /\ viewer[v].pc = "live" /\ n <= changes
    /\ viewer' = [viewer EXCEPT ![v].pos = n, ![v].seen = Append(@, n), ![v].late = @ \/ n > viewer[v].pos + 1]
    /\ UNCHANGED changes

\* wait_for cancels the pending __anext__, which ends the generator: the next turn
\* of the loop finds it exhausted, and the response is over.
HeartbeatEnds(v) ==
    /\ viewer[v].pc = "live" /\ viewer[v].pos = changes
    /\ viewer' = [viewer EXCEPT ![v].pc = "closed"]
    /\ UNCHANGED changes

ViewerLeaves(v) ==
    /\ viewer[v].pc \in {"live", "closed"}
    /\ viewer' = [viewer EXCEPT ![v].pc = "off"]
    /\ UNCHANGED changes

DashNext ==
    \/ broadcast
    \/ \E v \in Viewers :
          \/ issue_dashboard_ticket(v) \/ TicketExpires(v) \/ stream_dashboard_events(v)
          \/ subscribe_dashboard(v) \/ HeartbeatEnds(v) \/ ViewerLeaves(v)

DashSpec == DashInit /\ [][DashNext]_dashVars

-----------------------------------------------------------------------------
(* Properties.                                                             *)

\* "consumers can resume from a Last-Event-ID": over every reconnection with the id
\* it saw last, a viewer is shown the changes in order, none twice, and none is
\* missing unless the stream was trimmed past the viewer.
DashboardIsExact == \A v \in Viewers :
    LET s == viewer[v].seen IN
    /\ \A i \in 1..(Len(s) - 1) : s[i] < s[i + 1]
    /\ ~viewer[v].late => s = [i \in 1..Len(s) |-> i]
=============================================================================
