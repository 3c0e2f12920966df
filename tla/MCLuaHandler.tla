----------------------------- MODULE MCLuaHandler -----------------------------
(* Instances of LuaHandler for model checking. *)
EXTENDS LuaHandler, TLC

CONSTANTS i1, i2, c1, c2, otp, rate

\* The OTP service and the rate limiter initialize the handler they share
\* with the scripts of both, in opposite orders.
SharedConfigs == i1 :> <<otp, rate>> @@ i2 :> <<rate, otp>>

\* Each of them names only its own script.
OwnConfigs == i1 :> <<otp>> @@ i2 :> <<rate>>

\* Two calls of one script are alike.
TwoCalls == c1 :> otp @@ c2 :> otp
SameCalls == Permutations({c1, c2})
=============================================================================
