---------------------------- MODULE MCArtOnline ----------------------------
(* Two lists in the zip, one of them in the online list.                   *)
EXTENDS ArtOnlineProps

MCNames == {"a.ncl", "b.ncl"}
MCServed == {"a.ncl"}
=============================================================================
