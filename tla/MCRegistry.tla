----------------------------- MODULE MCRegistry -----------------------------
(* A small minecraft-data: releases on either side of a change of the      *)
(* tables, among them one without a patch number and two-digit ones, which *)
(* os.ReadDir does not give in the order of release; a snapshot; and a     *)
(* directory that is neither.                                              *)
EXTENDS Registry

MCDirectories == << <<1, 20>>, <<1, 20, 5>>, <<1, 21, 11>>, <<1, 21, 3>>, Snapshot, <<1, 9, 4>>, <<1, NaN>> >>

MCDataOf ==
  [ s \in { MCDirectories[i] : i \in DOMAIN MCDirectories } |->
      CASE s = <<1, 9, 4>>   -> 4
        [] s = <<1, 20>>     -> V1_20_2 - 1
        [] s = <<1, 20, 5>>  -> V1_20_5
        [] s = <<1, 21, 3>>  -> V1_21_3
        [] s = <<1, 21, 11>> -> Latest
        [] OTHER             -> Latest ]

\* The play state has a pong for the server, which no Go type stands for.
MCUnlisted ==
  [ t \in States \X Directions |->
      IF t = <<"Play", "Serverbound">> THEN {"pong"} ELSE {"tags"} ]

MCAskedFor == { <<1, 9>>, <<1, 9, 3>>, <<1, 20>>, <<1, 20, 4>>, <<1, 21>>, <<1, 21, 0>>, <<1, 21, 8>>,
                <<1, 21, 999>>, <<1, 2>>, <<1>>, Snapshot, Default }

=============================================================================
