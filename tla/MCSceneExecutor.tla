-------------------------- MODULE MCSceneExecutor --------------------------
(* "cinema" has nothing that turns it off and turns "home" on; "home" turns *)
(* "cinema" off when it is turned off, and does something at once and later.*)
EXTENDS SceneExecutor

CONSTANTS home, cinema

Do(d) == [delay |-> d, scene |-> NoScene, value |-> 0]
Set(d, s, v) == [delay |-> d, scene |-> s, value |-> v]
MCActions ==
  [x \in {home, cinema} \X (0 .. 1) |->
     CASE x = <<home, 1>> -> <<Do(0), Do(2)>>
       [] x = <<home, 0>> -> <<Set(0, cinema, 0), Do(1)>>
       [] x = <<cinema, 1>> -> <<Do(0), Set(1, home, 1)>>
       [] x = <<cinema, 0>> -> <<>>]
=============================================================================
