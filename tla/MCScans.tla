------------------------------ MODULE MCScans ------------------------------
(* Instances of Scans for TLC. *)
EXTENDS Scans, TLC

CONSTANTS v1, v2

MCRevisions == {v1, v2}

SwapAll == Permutations(Roots) \cup Permutations(MCRevisions)

\* A page that names its sources, and a last page that does not: after the
\* first the second is complete evidence, alone it names no source.
MCReports ==
    {[cursor |-> TRUE, complete |-> "yes", src |-> "complete"],
     [cursor |-> FALSE, complete |-> "yes", src |-> "same"]}

\* Pages and ends, for the runs that do not look at evidence.
PlainReports == [cursor : BOOLEAN, complete : {"no"}, src : {"same"}]

Evidence(s) == <<s.cursor, s.complete, s.src>>

\* What a snapshot is apart from the evidence of the scans that have ended and
\* are no root's complete scan: nothing reads that again.
Visible(snap) ==
    [roots |-> snap.roots,
     scans |-> [i \in DOMAIN snap.scans |->
        LET s == snap.scans[i] IN
        <<s.root, s.rev, s.state, s.cancel, s.at,
          IF s.state \notin Terminal \/ snap.roots[s.root].complete = i
          THEN Evidence(s) ELSE <<>> >>]]

EvidenceFree == <<Visible(state), Visible(store), phase, runner, spent>>
=============================================================================
