-------------------------------- MODULE QueueLeg --------------------------------
(***************************************************************************)
(* A leg of a call as a queue loop sees it: CallLeg without the threads    *)
(* inside.  on, a leg exists; who, the agent it rings; up, no hangup cause;*)
(* q, the posted states; rung, acc and brg, rung, answered and bridged;    *)
(* wired, the switch will bridge it; tr, what the hangup said of a         *)
(* transfer; asked, the cause of our hangup command; rep, the agent has    *)
(* reported.                                                               *)
(***************************************************************************)
EXTENDS Team, Sequences

Causes == {"", "normal", "missed", "canceled"}

NewLeg(g) ==
    [on |-> TRUE, who |-> g, up |-> TRUE, q |-> <<>>, rung |-> FALSE, acc |-> FALSE,
     brg |-> FALSE, wired |-> FALSE, cause |-> "", tr |-> "", asked |-> "", rep |-> FALSE]

NoLeg == [NewLeg(NoAgent) EXCEPT !.on = FALSE, !.up = FALSE]

\* ConnectCall takes a leg over that is answered.
ConnectedLeg(g, b) == [NewLeg(g) EXCEPT !.acc = TRUE, !.rung = TRUE, !.brg = b, !.wired = ~b]

LegType ==
    [on : BOOLEAN, who : AnyAgent, up : BOOLEAN, q : Seq({"ringing", "accept", "bridge", "hangup"}),
     rung : BOOLEAN, acc : BOOLEAN, brg : BOOLEAN, wired : BOOLEAN, cause : Causes,
     tr : {"", "agent", "number", "attempt", "from"}, asked : Causes, rep : BOOLEAN]

Post(x, s) == [x EXCEPT !.q = Append(@, s)]

\* CallImpl.setHangup.
SetHangup(x, c, r) == Post([x EXCEPT !.up = FALSE, !.cause = c, !.tr = r], "hangup")

\* CallImpl.Hangup: the switch is told, or the command fails and the leg is
\* closed here.
Hangup(x, c, ok) ==
    IF ~x.up THEN x
    ELSE IF ok THEN [x EXCEPT !.asked = IF @ = "" THEN c ELSE @]
    ELSE SetHangup(x, c, "")

\* CallImpl.ShouldMarkAsMissed.
ShouldMarkAsMissed(x) == x.cause \notin {"", "canceled"}
=============================================================================
