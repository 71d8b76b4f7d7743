--------------------------- MODULE MCEventLogParser ---------------------------
(* Banks for TLC: one, two, and one the code does not know (SM3, 18). *)
EXTENDS EventLogParser

MCBanks == {<<Sha256>>, <<Sha1, Sha256>>, <<18>>}
=============================================================================
