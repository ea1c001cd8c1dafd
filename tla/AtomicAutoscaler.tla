-------------------------- MODULE AtomicAutoscaler --------------------------
(***************************************************************************)
(* What the controllers promise about the stored SpannerAutoscaler object: *)
(* it changes as if every writer read it and wrote it back in one step.    *)
(* There is no cache, no version number, no retry and no crash here.  The  *)
(* module Autoscaler, with all of these, implements this one.              *)
(*                                                                         *)
(* What a writer may turn a status into is a parameter; Resource defines   *)
(* the relations of the same names from the code.                          *)
(***************************************************************************)
EXTENDS Naturals

CONSTANTS
    Specs,
    NewStatus,
    ReconcileOf(_, _, _, _),  \* (spec, old, new, now): one reconcile
    SyncOf(_, _),             \* (old, new): one sync
    ScheduleOf(_, _, _)       \* (old, new, now): a change of the schedule lists

VARIABLES spec, status, now

vars == <<spec, status, now>>

Init ==
    /\ spec \in Specs
    /\ status = NewStatus
    /\ now = 1

Reconcile == ReconcileOf(spec, status, status', now) /\ UNCHANGED <<spec, now>>

Sync == SyncOf(status, status') /\ UNCHANGED <<spec, now>>

Schedule == ScheduleOf(status, status', now) /\ UNCHANGED <<spec, now>>

Edit == spec' \in Specs /\ UNCHANGED <<status, now>>

Tick == now' = now + 1 /\ UNCHANGED <<spec, status>>

Next == Reconcile \/ Sync \/ Schedule \/ Edit \/ Tick

Spec == Init /\ [][Next]_vars
=============================================================================
