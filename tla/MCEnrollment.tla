---------------------------- MODULE MCEnrollment ----------------------------
EXTENDS Enrollment, TLC

\* Devices other than the founder, and places other than home, are interchangeable.
JoinSymmetry == Permutations(Device \ {Founder}) \cup Permutations(Place \ {Home})
=============================================================================
