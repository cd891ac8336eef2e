--------------------------- MODULE MCHubSessions ---------------------------
(* Small instances of HubSessions for TLC. *)
EXTENDS HubSessions, TLC

CONSTANTS s1, s2, s3, d1, d2

TwoSessions == {s1, s2}
ThreeSessions == {s1, s2, s3}
OneDevice == {d1}
TwoDevices == {d1, d2}

(* Sessions are interchangeable, and so are devices. *)
Interchangeable == Permutations(Sessions) \cup Permutations(Devices)
=============================================================================
