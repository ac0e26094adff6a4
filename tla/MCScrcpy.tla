------------------------------ MODULE MCScrcpy ------------------------------
\* The scrcpy page with two connections, two servers and small settings.
EXTENDS Scrcpy
MCEncoders == {<<"video", "c1", "e1">>, <<"video", "", "e1">>, <<"audio", "c2", "e1">>}
=============================================================================
