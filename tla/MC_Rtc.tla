-------------------------------- MODULE MC_Rtc --------------------------------
(***************************************************************************)
(* Rtc instantiated with the frequencies programs pass to rtc_write.       *)
(***************************************************************************)
EXTENDS Rtc

MCFrequencies == {4, 1024, 3}

\* A frequency set_rtc_frequency has a case for (2 Hz, the rate rtc_open
\* also sets), and one it has not.
MCFewFrequencies == {2, 3}

\* Every frequency set_rtc_frequency has a case for, and one it has not.
MCAllFrequencies == {2 ^ k : k \in 1 .. 10} \cup {3}

=============================================================================
