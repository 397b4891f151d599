----------------------------- MODULE MCRegistry ------------------------------
EXTENDS Registry

\* Two events that need the pointer polled and one that does not.
SomeEvents == {<<"Mouse">>, <<"Mouse", "Abs">>, <<"Mouse", "Button", "1p">>}

\* Everything, a class, and the one event.
SomeRemovals == {<<>>, <<"Mouse">>, <<"Mouse", "">>, <<"Mouse", "Abs">>}
FewEvents == {<<"Mouse", "Abs">>}
FewRemovals == {<<>>}
=============================================================================
