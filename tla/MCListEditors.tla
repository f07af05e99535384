---------------------------- MODULE MCListEditors ----------------------------
(***************************************************************************)
(* Each editor on a server that has its list, on a new one and on one that *)
(* still has the keys of an older version.                                 *)
(***************************************************************************)
EXTENDS ListEditors

R(id, name, body) == [id |-> id, name |-> name, body |-> body]
Stored(rows) == "rows" :> Rows(rows)
On == "enabled" :> <<"true">>

Bounds(edits, saves, toggles, refreshes, faults, foreign) ==
  [edits |-> edits, saves |-> saves, toggles |-> toggles, refreshes |-> refreshes, faults |-> faults, foreign |-> foreign]
Start(e, s, b) == [editor |-> e, store |-> s, left |-> b]

\* Two rows with the gap a deleted row leaves.
Two == <<R(1, "-", "a"), R(3, "-", "b")>>
NoIds == <<R(0, "-", "a"), R(0, "-", "b")>>

MCStarts ==
  {Start("announcements", Stored(Two) @@ On, Bounds(2, 1, 1, 0, 1, 0)),
   Start("announcements", "legacy" :> Rows(NoIds), Bounds(1, 1, 0, 0, 1, 0)),
   Start("announcements", Stored(Two), Bounds(1, 1, 0, 1, 0, 1)),
   Start("api_info", Stored(Two) @@ On, Bounds(2, 1, 0, 1, 0, 0)),
   Start("api_info", "legacy" :> Bad @@ Stored(Two), Bounds(1, 1, 1, 0, 0, 0)),
   Start("faq", Stored(NoIds), Bounds(2, 2, 0, 0, 0, 0)),
   Start("faq", "legacy" :> Rows(NoIds) @@ Stored(Two), Bounds(1, 1, 1, 0, 0, 0)),
   Start("uptime", On, Bounds(1, 1, 2, 0, 0, 0)),
   Start("uptime", "legacy" :> Rows(NoIds), Bounds(1, 1, 0, 0, 0, 0)),
   Start("uptime", Stored(<<>>) @@ "legacy" :> Rows(NoIds), Bounds(2, 1, 0, 0, 0, 0)),
   Start("chats", Stored(<<R(0, "x", "a"), R(0, "y", "b")>>), Bounds(4, 1, 0, 0, 0, 0)),
   Start("chats", Stored(<<R(0, "x", "a"), R(0, "y", "b")>>), Bounds(2, 2, 0, 0, 1, 1)),
   Start("chats", <<>>, Bounds(2, 1, 0, 0, 0, 0)),
   Start("products", Stored(<<R(0, "x", "a")>>), Bounds(2, 2, 0, 0, 1, 0)),
   Start("products", Stored(<<R(0, "x", "a")>>), Bounds(1, 1, 0, 1, 0, 1))}

=============================================================================
