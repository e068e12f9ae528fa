----------------------------- MODULE MCReactor -----------------------------
(* Instance of Reactor for TLC: three message_response futures for the    *)
(* passing runs, two for the runs that show a violation.                  *)
EXTENDS Reactor, TLC

CONSTANTS m1, m2, m3

MCFutures == {m1, m2, m3}
\* Two futures suffice to show a misrouted answer or a blocked future.
MCFuturesPair == {m1, m2}

\* Futures are only stored and compared, so permuting them is a symmetry.
FutureSymmetry == Permutations(MCFutures)
FuturePairSymmetry == Permutations(MCFuturesPair)
=============================================================================
