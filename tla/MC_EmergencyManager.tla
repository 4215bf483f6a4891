------------------------ MODULE MC_EmergencyManager -------------------------
(* Small instance of the emergency manager for TLC.                        *)
EXTENDS EmergencyManager, TLC

\* Hashes are interchangeable (used for safety runs only).
HashSymmetry == Permutations(Hashes)
=============================================================================
