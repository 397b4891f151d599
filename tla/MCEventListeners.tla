--------------------------- MODULE MCEventListeners ----------------------------
(* Two callbacks listen to one kind of object event and to focus events;
   the defunct event is one of the former. *)
EXTENDS EventListeners

MCWanted == {<<"object", "state">>, <<"focus">>}
MCBroader == {<<"object">>}
MCDefunct == <<"object", "state", "defunct">>
MCEvents == {MCDefunct, <<"focus">>}
=============================================================================
