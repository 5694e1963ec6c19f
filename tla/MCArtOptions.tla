---------------------------- MODULE MCArtOptions ----------------------------
(* Parts of the table, in its order, and the pad at a fraction of its times. *)
EXTENDS ArtOptionsProps

MCTables == {<<"music", "verm", "update", "plugin">>, <<"vercheck", "clearcache", "plugin">>,
             <<"sort", "horm", "plugin">>}
MCInstalls == {{1, 2}, {1}}
MCWaits == <<3, 2, 1>>
MCHeld == <<3, 7>>
=============================================================================
