---------------------------- MODULE WindowBatch -----------------------------
(***************************************************************************)
(* The window batch of IngestService: in a mode that batches, what would   *)
(* trigger an observation is gathered in a delta, and a timer turns the    *)
(* delta of each interval into one observation.  Targets and user context  *)
(* are left out, and so is the trimming to max_tracked_input_ids.          *)
(***************************************************************************)
EXTENDS Naturals, FiniteSets

CONSTANT Triggers

\* on: window_batch_schedule says the mode batches.  tick: the delta that the
\* timer has taken and not yet submitted, ticking while it has one.
EmptyBatch(on) ==
    [on |-> on, delta |-> {}, processed |-> {}, ticking |-> FALSE, tick |-> {}]

Batch == [on : BOOLEAN, delta : SUBSET Triggers, processed : SUBSET Triggers,
          ticking : BOOLEAN, tick : SUBSET Triggers]

\* _accumulate_window_batch_delta.
Accumulate(b, ids) == [b EXCEPT !.delta = @ \cup (ids \ b.processed)]

\* _take_window_batch_delta.
TakeDelta(b) ==
    [b EXCEPT !.ticking = TRUE, !.tick = b.delta, !.delta = {},
              !.processed = @ \cup b.delta]

Ticked(b) == [b EXCEPT !.ticking = FALSE, !.tick = {}]

\* Fault: what gathered during the failed tick replaces what it had taken.
RestoreOver(b) ==
    [Ticked(b) EXCEPT !.delta = IF b.delta = {} THEN b.tick ELSE b.delta,
                      !.processed = @ \ b.tick]

\* _restore_window_batch_delta, after a tick that failed.
RestoreDelta(b) ==
    [Ticked(b) EXCEPT !.delta = b.tick \cup b.delta, !.processed = @ \ b.tick]

\* _discard_window_batch_delta, when the mode no longer batches.
DiscardDelta(b) == [b EXCEPT !.delta = {}, !.processed = @ \cup b.delta]
=============================================================================
