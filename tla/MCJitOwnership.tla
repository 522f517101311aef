--------------------------- MODULE MCJitOwnership ---------------------------
(* Two pcs on one virtual page and one on the next.  The second space maps *)
(* the two the other way round.                                            *)
EXTENDS JitOwnership

MCPcs == {1, 2, 3}
MCPageOf == 1 :> 1 @@ 2 :> 1 @@ 3 :> 2
MCDslot == [pc \in MCPcs |-> 1]
scope_of(kinds, pcs, batch, issues, writes) ==
  [kinds |-> kinds, pcs |-> pcs, batch |-> batch, issues |-> issues, writes |-> writes]
MCScopes == {scope_of({"block", "region"}, {1, 3}, 1, 2, 1), scope_of({"block", "page"}, {1, 2}, 1, 2, 1),
             scope_of({"stage"}, {1, 2}, 2, 2, 1), scope_of({"stage", "region"}, {1}, 1, 3, 0),
             scope_of({"region"}, {1, 3}, 1, 3, 0), scope_of({"page", "region"}, {1, 2}, 1, 2, 0),
             scope_of({"block"}, {1, 2}, 1, 3, 2)}
MCSpaces == {"a", "b"}
MCMapping == (<<"a", 1>> :> 1) @@ (<<"a", 2>> :> 2) @@ (<<"b", 1>> :> 2) @@ (<<"b", 2>> :> 1)
=============================================================================
