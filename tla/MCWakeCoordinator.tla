------------------------- MODULE MCWakeCoordinator -------------------------
(* A small instance of WakeCoordinator for TLC. *)
EXTENDS WakeCoordinator

CONSTANTS a, b, la1, la2, lb1

\* Two messages of channel a and one of channel b: a launch names a message.
MCCommands == {[launch |-> la1, channel |-> a, seq |-> 1],
               [launch |-> la2, channel |-> a, seq |-> 2],
               [launch |-> lb1, channel |-> b, seq |-> 1]}

\* One message of each channel.
MCTwo == {[launch |-> la1, channel |-> a, seq |-> 1],
          [launch |-> lb1, channel |-> b, seq |-> 1]}
=============================================================================
