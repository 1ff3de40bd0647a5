----------------------------- MODULE MCDeviceRecord -----------------------------
(***************************************************************************)
(* Small instances of DeviceRecord.                                        *)
(***************************************************************************)
EXTENDS DeviceRecord

Named(a, v, name) == [Nothing EXCEPT !.attributes[a] = v, !.name = name]

(* Three custom updates, two of them of one attribute and by programs that *)
(* know the device by different names, and the update that says nothing,   *)
(* of a start or of oisp-admin update.                                     *)
AttributeDocs ==
    {Nothing, Named("owner", "ann", "old"), Named("owner", "bob", "new"),
     [Named("room", "hall", None) EXCEPT !.loc = "here"]}

TagDocs == {[Nothing EXCEPT !.tags = {t}] : t \in Words}
=============================================================================
