------------------------------- MODULE IsoTime -------------------------------
(***************************************************************************)
(* Timestamps as the SQLite repository stores and compares them.           *)
(*                                                                         *)
(* A timestamp is a number of ticks; TicksPerSecond ticks make a second.   *)
(* The repository writes a timestamp with isoformat(), which leaves the    *)
(* fraction out when it is zero, and SQL compares the two texts.  Texts of *)
(* different seconds order as their instants do.  Within one second the    *)
(* text without a fraction goes on with "Z" where the others go on with    *)
(* ".", and "." sorts before "Z": the whole second sorts LAST.             *)
(***************************************************************************)
EXTENDS Integers

CONSTANT TicksPerSecond

ASSUME TicksPerSecondAssumption == TicksPerSecond \in Nat \ {0}

NoTime == -1                            \* SQL NULL

Fraction(t) == t % TicksPerSecond

\* The rank of a timestamp's text among the texts of all timestamps.
IsoRank(t) == IF Fraction(t) = 0 THEN t + TicksPerSecond ELSE t

\* What the SQL comparison "a <= b" of two stored timestamps says.  Two
\* different timestamps never share a rank.
IsoLeq(a, b) == IsoRank(a) <= IsoRank(b)

=============================================================================
