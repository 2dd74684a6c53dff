----------------------------- MODULE MCOtaUpdate ----------------------------
(* OtaUpdate for TLC: version 9 in flight, a larger 10, an 11 that does    *)
(* not fit, a small 12.  Every binary reports the version its manifest     *)
(* announces.                                                              *)
EXTENDS OtaUpdate

MCImages == {9, 10, 11, 12}
MCSize == [v \in MCImages |-> CASE v = 9 -> 2 [] v = 10 -> 3 [] v = 11 -> 4 [] v = 12 -> 1]
MCReports == [v \in MCImages |-> v]

\* An entry for this firmware; the one in src/firmware.json of the repository
\* has the other type.
For(v) == [type |-> "esp32-fota-http", version |-> v, located |-> TRUE]
Https(v) == [For(v) EXCEPT !.type = "esp32-fota-https"]
Lost(v) == [For(v) EXCEPT !.located = FALSE]

\* No manifest, one entry, entries that are not accepted before one that is,
\* an older one first, one that does not fit before one that does.
MCManifests ==
    {<<>>, <<For(9)>>, <<For(10)>>, <<For(12)>>, <<Https(12)>>,
     <<Https(12), Lost(12), For(10), For(12)>>, <<For(0), For(11), For(10)>>}

=============================================================================
