-------------------------- MODULE MCSettingService --------------------------
(***************************************************************************)
(* Instance of SettingService for TLC: two hosts, one of which has the     *)
(* password, and two values.  One request takes the service, one frees it  *)
(* and takes it again, and of the third, of 258 bytes of data, the check   *)
(* sees no field.                                                          *)
(***************************************************************************)
EXTENDS SettingService

CONSTANTS h1, h2

Hosts   == {h1, h2}
Masters == {h2}
Values  == 0 .. 1

Sets(fields, length) == [fields |-> fields, length |-> length]

Requests ==
  {Sets(<<"captured">>, 5), Sets(<<"ready", "captured">>, 8),
   Sets(<<"captured", "other">>, 258)}
=============================================================================
