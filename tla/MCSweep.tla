------------------------------ MODULE MCSweep -------------------------------
(***************************************************************************)
(* Instances of Sweep for TLC.                                             *)
(***************************************************************************)
EXTENDS SweepInvariant

\* --concurrency: one value validateFlags refuses, and the two that matter for
\* three targets: a sweep made sequential, and one where scans overlap while
\* others queue.
MCConcurrencies == 0..2

\* --timeout: a refused value, and one whose half is a real bound.
MCTimeouts == {0, 2}

\* The smallest value validateFlags accepts: its half is no bound at all.
MCShortestTimeout == {1}
=============================================================================
