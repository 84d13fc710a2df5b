-------------------------------- MODULE MCStore --------------------------------
(* Small instances of Store. *)
EXTENDS Store

Of(g, keys) == [group |-> g, keys |-> keys]

\* Three graphs of three groups in pages of one, the first of which may be from
\* before the id was kept.
Start ==
    {[i \in Graph |-> CASE i = 1 -> Of(1, keys) [] i = 2 -> Of(2, Key)
                        [] i = 3 -> Of(3, Key) [] OTHER -> None] :
        keys \in {Key, {"path"}}}

\* The owner may lose its right to another user, others gain and lose theirs.
SomeGrants == {<<"owner", "none">>, <<"user", "administrate">>, <<"member", "read">>,
               <<"role", "use">>}

=============================================================================
