-------------------------------- MODULE MCOtp --------------------------------
(* Model values and bounds for TLC's runs of Otp. *)
EXTENDS Otp, TLC

CONSTANT Tokens

\* Every token with every device and e-mail: the calls of verifyOtp.
MCRequests == [token: Tokens, device: Devices, email: Emails]

\* One device makes the calls of all tokens but one, the others that of this one.
Main == CHOOSE d \in Devices : TRUE
Spare == CHOOSE t \in Tokens : TRUE
UnevenRequests == {r \in MCRequests : (r.device = Main) = (r.token # Spare)}

\* Sends only.
NoRequests == {}

\* Codes are only compared, and the calls of a device start alike.
CodeSymmetry == Permutations(Codes)
UnevenSymmetry == CodeSymmetry \cup Permutations(Tokens \ {Spare})
=============================================================================
