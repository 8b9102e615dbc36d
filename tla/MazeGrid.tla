------------------------------ MODULE MazeGrid ------------------------------
(***************************************************************************)
(* The Action Contract's nine actions as the client moves by them: 0 stays *)
(* and 1 to 8 go round the compass (MazeEnv::IsActionAvailable). What the  *)
(* map generator assumes of them is checked against this table.            *)
(***************************************************************************)
EXTENDS Integers

Actions == 0..8
Dx == [a \in Actions |-> IF a \in {2, 3, 4} THEN 1
                         ELSE IF a \in {6, 7, 8} THEN -1 ELSE 0]
Dy == [a \in Actions |-> IF a \in {1, 2, 8} THEN 1
                         ELSE IF a \in {4, 5, 6} THEN -1 ELSE 0]
=============================================================================
