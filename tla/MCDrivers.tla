----------------------------- MODULE MCDrivers -----------------------------
EXTENDS Drivers

\* Serial: two keys, two SIGINTs, two characters transmitted.  Timer: a key
\* while deadlines pass the end of the clock's low half.
MCSessions ==
  { [accesses |-> {}, keys |-> 2, signals |-> 2, sent |-> 2,
     start |-> 0, horizon |-> 0, timer |-> FALSE],
    [accesses |-> {}, keys |-> 1, signals |-> 0, sent |-> 0,
     start |-> 12, horizon |-> 18, timer |-> TRUE] }
=============================================================================
