---------------------------- MODULE MCAuthDialog ----------------------------
(* The servers of the tests, two with an OTP provider (before and after the token flow), *)
(* one that only takes tokens, and one without a handler (loader-cli's).                 *)
EXTENDS AuthDialog

MCServerConfigs == {<<>>, <<"token">>, <<"token", "invite">>, <<"otp", "token", "invite">>,
                    <<"token", "otp">>}
=============================================================================
