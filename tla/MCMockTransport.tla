--------------------------- MODULE MCMockTransport ---------------------------
(***************************************************************************)
(* A small instance of MockTransport: two devices that answer at once and  *)
(* one that takes its time, asked all together and one by one.             *)
(***************************************************************************)
EXTENDS MockTransport, TLC

CONSTANTS quick, brisk, slow

ThreeDevices == {quick, brisk, slow}
InThisOrder == quick :> 1 @@ slow :> 2 @@ brisk :> 3

\* A broadcast, and a request to each of two devices.
Broadcast == [now |-> <<quick, brisk>>, later |-> {slow}]
ToQuick == [now |-> <<quick>>, later |-> {}]
ToSlow == [now |-> <<>>, later |-> {slow}]
SomeAnswers == {Broadcast, ToQuick, ToSlow}
=============================================================================
