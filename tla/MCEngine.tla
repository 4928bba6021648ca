------------------------------ MODULE MCEngine ------------------------------
(* Small instances of Engine for TLC: the releases each run may submit. *)
EXTENDS Engine

\* An image that reboots the device on its own.
Image(id, n, v, until) ==
    [job |-> id, seq |-> n, version |-> v, bundle |-> v, os |-> TRUE,
     targets |-> {}, notBefore |-> 1, deadline |-> until, autoReboot |-> TRUE]

\* One image; the same job with an artifact of another version, or with a reboot
\* that is left to the operator.
OneImage ==
    LET a == Image("j1", 1, "v1", 3)
    IN  {a, [a EXCEPT !.bundle = "v2"], [a EXCEPT !.autoReboot = FALSE]}

LateImage == {[Image("j1", 1, "v1", 4) EXCEPT !.notBefore = 2]}

TwoImages(until) == {Image("j1", 1, "v1", until), Image("j2", 2, "v2", until)}

TwoShort == TwoImages(3)
TwoLong == TwoImages(9)

\* With HotJobLimit = 2 the third job makes the journal archive one of the others.
ThreeImages == TwoLong \cup {Image("j3", 3, "v3", 9)}

\* Two payloads and no image.
Payloads(id, n, v) ==
    [Image(id, n, v, 9) EXCEPT !.os = FALSE, !.targets = {"app", "model"}]

\* A payload beside an image, and a release of payloads alone.
PayloadReleases ==
    {[Image("j1", 1, "v1", 9) EXCEPT !.targets = {"app"}], Payloads("j2", 2, "v2")}

ImageThenPayloads == {Image("j1", 1, "v1", 9), Payloads("j2", 2, "v2")}

\* The identifier of an archived job comes back with another release.
ReusedID == TwoLong \cup {Image("j1", 3, "v1", 9)}
=============================================================================
