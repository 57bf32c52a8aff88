------------------------ MODULE MCUpsertByExternalIds ------------------------
(***************************************************************************)
(* Three concurrent upserts over two external ids: enough for two calls to *)
(* race for one id, to name each other's rows, to insert in opposite       *)
(* orders, and for a third to bridge two rows.                             *)
(***************************************************************************)
EXTENDS UpsertByExternalIds

CONSTANTS c1, c2, c3, a, b, star, regular

MCCall == {c1, c2, c3}
MCExtId == {a, b}
MCKind == {star, regular}

MCPayloads ==
  [ids : {<<a>>, <<a, a>>}, kind : {star}, columns : {{"createOnly"}}]
    \cup [ids : {<<b>>, <<b, a>>}, kind : {star}, columns : {{"values"}}]
    \cup [ids : {<<a, b>>}, kind : {regular}, columns : {{"values"}}]
    \cup [ids : {<<a, b>>}, kind : {Absent}, columns : {{"createOnly"}}]

=============================================================================
