------------------------------ MODULE Streams -------------------------------
(***************************************************************************)
(* What a run tells its watchers while it works: the envelopes of a run    *)
(* (events/stream_envelope.py, workflows/runner.py), the tee that writes   *)
(* them to workflow_events and to a Redis stream                           *)
(* (app/composition/workflows.py, events/redis_stream_bus.py), the SSE     *)
(* route that replays the table and follows the stream                     *)
(* (app/api/routes/workflows.py).  current_stage and stage_states, which   *)
(* follow the rows inserted in workflow_events, are not kept.              *)
(***************************************************************************)
EXTENDS Naturals, Sequences, FiniteSets

CONSTANTS
    Sinks,        \* callbacks that publish next to the graph's frames: steering, progress
    MaxFrames,    \* bound on the envelopes of one graph build
    MaxBuilds,    \* how often the run's graph is built: once, and once per resume
    ReplayLimit,  \* list_after's limit (500)
    StreamLimit,  \* MAX_STREAM_LEN of a run's stream (1000)
    WritesFail    \* an append or an xadd may fail, once

ASSUME StreamsAssumption == {MaxFrames, MaxBuilds, ReplayLimit, StreamLimit} \subseteq Nat

Publishers == Sinks \cup {"graph", "audit"}

VARIABLES
    build,     \* graph builds so far, and whether one is running
    seqNext,   \* _RunStreamSeq and the audit hook's own counter
    emitted,   \* every envelope of the run, in the order they were made
    sending,   \* the envelope each publisher is writing
    events,    \* workflow_events: seq -> envelope
    stream,    \* the run's Redis stream
    faults,    \* some write failed; some envelope was written after a later one
    watcher    \* an SSE client of the run

streamVars == <<build, seqNext, emitted, sending, events, stream, faults, watcher>>

NoFrame  == [pc |-> "idle", id |-> 0]
Envelope(s, type, by) == [seq |-> s, type |-> type, by |-> by, of |-> build.n]

NoWatcher == [pc |-> "off", ticket |-> FALSE, last |-> 0, fresh |-> TRUE, min |-> 0,
              todo |-> <<>>, pos |-> 0, ended |-> FALSE, seen |-> {}, twice |-> FALSE]

StreamsInit ==
    /\ build   = [n |-> 0, pc |-> "none"]
    /\ seqNext = [run |-> 0, audit |-> 0]
    /\ emitted = <<>>
    /\ sending = [p \in Publishers |-> NoFrame]
    /\ events  = [s \in {} |-> 0]
    /\ stream  = <<>>
    /\ faults  = [lost |-> FALSE, overtaken |-> FALSE]
    /\ watcher = NoWatcher

WatcherOnly == UNCHANGED <<build, seqNext, emitted, sending, events, stream, faults>>

-----------------------------------------------------------------------------
(* The run.                                                                *)

\* A new allocator, and a new audit hook, per graph build.
_RunStreamSeq == [run |-> 0, audit |-> 0]

\* run, resume_review and resume_intervention each build the graph.
_default_graph_factory ==
    /\ build.pc \in {"none", "paused"} /\ build.n < MaxBuilds
    /\ \A p \in Publishers : sending[p].pc = "idle"
    /\ build'   = [n |-> build.n + 1, pc |-> "running"]
    /\ seqNext' = _RunStreamSeq
    /\ UNCHANGED <<emitted, sending, events, stream, faults, watcher>>

Makes(p, s, type) ==
    /\ sending[p].pc = "idle"
    /\ emitted' = Append(emitted, Envelope(s, type, p))
    /\ sending' = [sending EXCEPT ![p] = [pc |-> "append", id |-> Len(emitted) + 1]]

\* Frames of the graph: a node starts or stops, text, tool progress, a handoff.
filter_graph_event ==
    /\ build.pc = "running" /\ seqNext.run < MaxFrames
    /\ Makes("graph", seqNext.run + 1, "frame")
    /\ seqNext' = [seqNext EXCEPT !.run = @ + 1]
    /\ UNCHANGED <<build, events, stream, faults, watcher>>

\* A steering decision or a writer's progress takes the next number of the run.
_steering_event_sink(p) ==
    /\ build.pc = "running" /\ seqNext.run < MaxFrames
    /\ Makes(p, seqNext.run + 1, "frame")
    /\ seqNext' = [seqNext EXCEPT !.run = @ + 1]
    /\ UNCHANGED <<build, events, stream, faults, watcher>>

\* The last event of the graph, paused or not; the nodes and their sinks are done.
_invoke_streaming ==
    /\ build.pc = "running" /\ seqNext.run < MaxFrames
    /\ \A p \in Sinks : sending[p].pc = "idle"
    /\ Makes("graph", seqNext.run + 1, "result")
    /\ seqNext' = [seqNext EXCEPT !.run = @ + 1]
    /\ \E pc \in {"paused", "ended"} : build' = [build EXCEPT !.pc = pc]
    /\ UNCHANGED <<events, stream, faults, watcher>>

\* run_end publishes the hook's own copies of the node frames, numbered from 1.
_flush_stream ==
    /\ build.pc \in {"paused", "ended"}
    /\ seqNext.audit < Cardinality({i \in DOMAIN emitted : emitted[i].of = build.n /\ emitted[i].by = "graph" /\ emitted[i].type = "frame"})
    /\ Makes("audit", seqNext.audit + 1, "frame")
    /\ seqNext' = [seqNext EXCEPT !.audit = @ + 1]
    /\ UNCHANGED <<build, events, stream, faults, watcher>>

-----------------------------------------------------------------------------
(* The tee: the table first, then the stream; neither may fail the run.    *)

\* INSERT ... ON CONFLICT (run_id, seq) DO NOTHING.
append(p) ==
    LET e == emitted[sending[p].id] IN
    /\ sending[p].pc = "append"
    /\ events'  = [s \in DOMAIN events \cup {e.seq} |-> IF s \in DOMAIN events THEN events[s] ELSE sending[p].id]
    /\ faults'  = [faults EXCEPT !.overtaken = @ \/ \E s \in DOMAIN events : events[s] > sending[p].id]
    /\ sending' = [sending EXCEPT ![p].pc = "xadd"]
    /\ UNCHANGED <<build, seqNext, emitted, stream, watcher>>

AppendFails(p) ==
    /\ WritesFail /\ ~faults.lost /\ sending[p].pc = "append"
    /\ faults'  = [faults EXCEPT !.lost = TRUE]
    /\ sending' = [sending EXCEPT ![p].pc = "xadd"]
    /\ UNCHANGED <<build, seqNext, emitted, events, stream, watcher>>

\* XADD with maxlen; positions of the stream stand for its message ids.
publish(p) ==
    /\ sending[p].pc = "xadd"
    /\ stream'  = Append(stream, sending[p].id)
    /\ sending' = [sending EXCEPT ![p] = NoFrame]
    /\ UNCHANGED <<build, seqNext, emitted, events, faults, watcher>>

PublishFails(p) ==
    /\ WritesFail /\ ~faults.lost /\ sending[p].pc = "xadd"
    /\ faults'  = [faults EXCEPT !.lost = TRUE]
    /\ sending' = [sending EXCEPT ![p] = NoFrame]
    /\ UNCHANGED <<build, seqNext, emitted, events, stream, watcher>>

-----------------------------------------------------------------------------
(* A watcher of the run.                                                   *)

\* The jobs row of the run exists from its start.
issue_ticket ==
    /\ watcher.pc = "off" /\ ~watcher.ticket /\ build.n > 0
    /\ watcher' = [watcher EXCEPT !.ticket = TRUE]
    /\ WatcherOnly

\* The first rows after a number, in the order of their numbers.
list_after(after) ==
    LET S == {s \in DOMAIN events : s > after}
        Nth(i) == CHOOSE s \in S : Cardinality({x \in S : x < s}) = i - 1
        n == IF Cardinality(S) > ReplayLimit THEN ReplayLimit ELSE Cardinality(S)
    IN [i \in 1..n |-> Nth(i)]

\* Without a Last-Event-ID, what was replayed is not shown again.
min_live_seq(last, rows) ==
    IF last > 0 \/ rows = <<>> THEN last ELSE rows[Len(rows)]

\* A ticket opens one stream; a client may say what it has seen last.
stream_events ==
    /\ watcher.pc = "off" /\ watcher.ticket
    /\ \E last \in {0, watcher.last} :
          LET rows == list_after(last) IN
          watcher' = [watcher EXCEPT !.pc = "replay", !.ticket = FALSE, !.last = last, !.fresh = (last = 0),
                                     !.min = min_live_seq(last, rows), !.pos = 0, !.ended = FALSE,
                                     !.todo = [i \in DOMAIN rows |-> events[rows[i]]],
                                     !.seen = IF last = 0 THEN {} ELSE @, !.twice = FALSE]
    /\ WatcherOnly

Shown(w, id) == [w EXCEPT !.seen = @ \cup {id}, !.twice = @ \/ id \in w.seen, !.last = emitted[id].seq]

\* The replayed rows, to the last one even when one of them ends the run.
Replay ==
    /\ watcher.pc = "replay" /\ watcher.todo # <<>>
    /\ LET id == Head(watcher.todo) IN
       watcher' = [Shown(watcher, id) EXCEPT !.todo = Tail(@), !.ended = @ \/ emitted[id].type = "result"]
    /\ WatcherOnly

ReplayEnds ==
    /\ watcher.pc = "replay" /\ watcher.todo = <<>>
    /\ watcher' = [watcher EXCEPT !.pc = IF watcher.ended THEN "done" ELSE "live"]
    /\ WatcherOnly

\* Mutant: an envelope is skipped one number too far.
SkipsOneMore(seq) == seq <= watcher.min + 1

Skipped(seq) == seq <= watcher.min

\* The subscription starts at the oldest message the stream still has.
subscribe ==
    LET oldest == IF Len(stream) > StreamLimit THEN Len(stream) - StreamLimit ELSE 0
        pos    == IF watcher.pos > oldest THEN watcher.pos ELSE oldest
    IN
    /\ watcher.pc = "live" /\ pos < Len(stream)
    /\ LET id == stream[pos + 1] IN
       watcher' = IF Skipped(emitted[id].seq) THEN [watcher EXCEPT !.pos = pos + 1]
                  ELSE [Shown(watcher, id) EXCEPT !.pos = pos + 1, !.pc = IF emitted[id].type = "result" THEN "done" ELSE "live"]
    /\ WatcherOnly

\* The client leaves; it may come back with the number it saw last.
WatcherLeaves ==
    /\ watcher.pc \in {"replay", "live", "done"}
    /\ watcher' = [watcher EXCEPT !.pc = "off", !.todo = <<>>]
    /\ WatcherOnly

-----------------------------------------------------------------------------

PublisherStep(p) == append(p) \/ AppendFails(p) \/ publish(p) \/ PublishFails(p)

StreamsNext ==
    \/ _default_graph_factory \/ filter_graph_event \/ _invoke_streaming \/ _flush_stream
    \/ \E p \in Sinks : _steering_event_sink(p)
    \/ \E p \in Publishers : PublisherStep(p)
    \/ issue_ticket \/ stream_events \/ Replay \/ ReplayEnds \/ subscribe \/ WatcherLeaves

StreamsSpec == StreamsInit /\ [][StreamsNext]_streamVars

-----------------------------------------------------------------------------
(* Properties.                                                             *)

\* A watcher that opens the stream without a Last-Event-ID is shown no envelope
\* twice, although the table and the stream both hold it, and once told the result
\* of a run's first build it has been shown every envelope made before it, whenever
\* it connected, if no write failed and the envelopes were written in their order
\* (stream_events in app/api/routes/workflows.py).
WatcherSeesAllOnce ==
    watcher.fresh =>
        /\ ~watcher.twice
        /\ watcher.pc = "done" /\ build.n = 1 /\ ~faults.lost /\ ~faults.overtaken =>
             \E r \in DOMAIN emitted : emitted[r].type = "result" /\ 1..r \subseteq watcher.seen
=============================================================================
