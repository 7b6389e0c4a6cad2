-------------------------- MODULE MCConfigDelivery --------------------------
(* Two servers, in the order of their ids, and two requests at a time; one *)
(* server where the other does not matter.                                 *)
EXTENDS ConfigDelivery
CONSTANTS s1, s2, r1, r2
MCServers == {s1, s2}
MCRequests == {r1, r2}
MCOrder == <<s1, s2>>
OneServer == {s1}
OnlyOne == <<s1>>
=============================================================================
