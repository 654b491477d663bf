---------------------------- MODULE RoutingIndex ----------------------------
(* What the daemon promises about its centroid set: one current set, always *)
(* a sound one, and a saved copy that a restart falls back to.  Saving      *)
(* copies the current set and nothing else.                                 *)
CONSTANTS
    Sound,      \* the sets that are consistent and are what their version says
    Legacy,     \* sets pushed without a preset: nothing pins their content
    NoSet

VARIABLES current, saved

Init == current = NoSet /\ saved = NoSet

Install == current' \in Sound /\ UNCHANGED saved

Save ==
    /\ current \in Sound
    /\ saved' = current
    /\ UNCHANGED current

(* The medium loses the copy; only in a legacy set does damage pass unseen. *)
Spoil ==
    /\ saved' = NoSet \/ (saved \in Legacy /\ saved' \in Legacy)
    /\ UNCHANGED current

Crash == current' = NoSet /\ UNCHANGED saved

Restart ==
    /\ current = NoSet
    /\ current' = saved
    /\ UNCHANGED saved

Next == Install \/ Save \/ Spoil \/ Crash \/ Restart

Spec == Init /\ [][Next]_<<current, saved>>
=============================================================================
