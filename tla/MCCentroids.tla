---------------------------- MODULE MCCentroids -----------------------------
(* Instances of Centroids for TLC: in one, two streams race to install; in  *)
(* the other, requests are routed while one stream installs longer sets.    *)
EXTENDS Centroids, TLC

CONSTANTS Preset, OtherTag

Normalized == {-1, 1}

Header(v, s, p) == [version |-> v, sized |-> s, preset |-> p]

(* Right and wrong contents for a version, no preset, no version, and a     *)
(* dimension that is not the daemon's.                                      *)
PushHeaders ==
    {Header(<<Preset, <<1>>>>, TRUE, Preset),
     Header(<<Preset, <<-1>>>>, TRUE, Preset),
     Header(OtherTag, TRUE, NoPreset),
     Header(OtherTag, FALSE, NoPreset),
     Header(NoTag, TRUE, NoPreset)}

RouteHeaders ==
    {Header(<<Preset, <<1, 1>>>>, TRUE, Preset),
     Header(<<Preset, <<-1, 1>>>>, TRUE, Preset),
     Header(OtherTag, TRUE, NoPreset)}

Symmetry == Permutations(Pushers)
=============================================================================
