---------------------------- MODULE MCSignatures ----------------------------
(***************************************************************************)
(* Every member of up to two lines out of six, alone and before another  *)
(* archive; blocks of two cells, lines of up to two, chunks of up to       *)
(* three.                                                                  *)
(***************************************************************************)
EXTENDS Signatures

Line(len, form, hash, size, name) == [len |-> len, form |-> form, hash |-> hash, size |-> size, name |-> name]

Pool == {
  Line(1, "md5", <<1, 1>>, 1, "x"), Line(2, "md5", <<1, 1>>, 2, "y"), Line(1, "md5", <<1, 2>>, 0, "x"),
  Line(3, "md5", <<1, 2>>, 1, "y"), Line(2, "sha", <<1, 1>>, 1, "x"), Line(1, "sha", <<1, 1>>, 0, "y")}

Member1 == [kind : {"hash", "sect", "other"}, lines : {<<>>} \cup {<<l>> : l \in Pool} \cup {<<l, m>> : l, m \in Pool},
            ended : BOOLEAN]

Second == [members |-> <<[kind |-> "hash", lines |-> <<Line(1, "md5", <<1, 1>>, 1, "y"), Line(1, "junk", <<1, 1>>, 1, "x"), Line(2, "sha", <<1, 1>>, 2, "x")>>,
                          ended |-> FALSE],
                         [kind |-> "sect", lines |-> <<Line(1, "md5", <<0, 1>>, 1, "x"), Line(1, "md5", <<1, 1>>, 1, "x")>>, ended |-> TRUE]>>,
           ended |-> FALSE]

MCDownloads == {<<[members |-> <<m>>, ended |-> TRUE], Second>> : m \in Member1}

MCQueries == [kind : {"md5", "sha", "sect"}, hash : {<<1, 1>>, <<1, 2>>, <<2, 1>>}, size : {1, 2}]
=============================================================================
