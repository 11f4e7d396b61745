------------------------------ MODULE MCFanout ------------------------------
EXTENDS Fanout

\* Two lines, of which one fits a half share, and one line longer than that.
MCReports == {<<[size |-> 1, feed |-> TRUE], [size |-> 2, feed |-> TRUE]>>,
              <<[size |-> 3, feed |-> TRUE]>>}

\* One report that fits any share, for the runs that are not about its size.
MCReport == {<<[size |-> 1, feed |-> TRUE]>>}
=============================================================================
