----------------------------- MODULE ProbeFeed -----------------------------
(***************************************************************************)
(* What the task queue and the campaign reconciler are to each other.  The *)
(* reconciler inserts probe tasks; the handlers of the task queue settle   *)
(* them and write what they found to the facts and the probe states, which *)
(* the reconciler's gates read.  These are all the steps that either of    *)
(* them may take on what they share, one write of the database at a time.  *)
(*                                                                         *)
(* Campaigns takes the queue's part of these steps as the world around the *)
(* reconciler.  TaskLease and Reconciler each implement the whole.         *)
(***************************************************************************)
EXTENDS InstanceFacts

CONSTANT
  ProbeResults      \* the results that probes of each kind return, if any are made

VARIABLE
  probes            \* the reconciler's probe tasks that are pending or leased

feedVars == <<factVars, probes>>

FeedInit ==
  /\ FactsInit
  /\ probes = [i \in Instances |-> [k \in ProbeKinds |-> 0]]

\* An acknowledgement writes the fact columns.
FactsWritten(i) ==
  /\ \/ \E res \in ProbeResults["gateway"] : WriteGatewayFact(i, res)
     \/ \E res \in ProbeResults["skills"] : WriteSnapshot(i, res)
     \/ facts[i].snapshot # NoSnapshot /\ InvalidateSnapshot(i)
  /\ UNCHANGED <<probeState, probes>>

\* An acknowledgement writes the probe state, from a count it may have read
\* long ago.
ProbeStateWritten(i, k) ==
  /\ ProbeResults[k] # {}
  /\ \/ ResetProbeState(i, k)
     \/ \E n \in 0 .. FailureBound : WriteProbeFailure(i, k, n)
  /\ UNCHANGED <<facts, probes>>

\* A probe task is acknowledged: it is no longer pending or leased.
ProbeSettles(i, k) ==
  /\ probes[i][k] > 0
  /\ probes' = [probes EXCEPT ![i][k] = @ - 1]
  /\ UNCHANGED factVars

\* A probe task is inserted; or one that was settled is opened again, by the
\* row update of a pull or an acknowledgement that comes late.
ProbeOpens(i, k) ==
  /\ probes' = [probes EXCEPT ![i][k] = @ + 1]
  /\ UNCHANGED factVars

FeedNext ==
  \/ \E i \in Instances :
       \/ FactsWritten(i)
       \/ \E k \in ProbeKinds :
            ProbeStateWritten(i, k) \/ ProbeSettles(i, k) \/ ProbeOpens(i, k)
  \/ FactsAge /\ UNCHANGED probes

FeedSpec == FeedInit /\ [][FeedNext]_feedVars
=============================================================================
