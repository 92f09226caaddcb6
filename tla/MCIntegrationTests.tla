------------------------ MODULE MCIntegrationTests ------------------------
(* TLC instance of IntegrationTests: an emulator and a device are attached, or *)
(* one emulator is generated.                                                  *)
EXTENDS IntegrationTests, TLC

CONSTANTS e1, e2, d1, wearable, tv

MCGenerated == {e1}
MCAttached  == {e2, d1}
MCEmulators == {e1, e2}
MCProfile   == e2 :> wearable @@ d1 :> tv
=============================================================================
